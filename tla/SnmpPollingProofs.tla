-------------------------- MODULE SnmpPollingProofs --------------------------
(* Proofs about SnmpPolling, for any addresses, rows, requests and bounds. *)
EXTENDS SnmpPolling, TLAPS, FiniteSetTheorems, WellFoundedInduction

Pcs     == {"idle", "poll", "change", "set", "over"}
Results == {"asks", "done", "fails", "cut"}
LeftType == [edits : Nat, deletes : Nat, changes : Nat, faults : Nat, polls : Nat,
             lates : Nat]
JobType == [pc : Pcs, tasks : Seq(Ids), w : Seq(Results), since : SUBSET Ips,
            i : Nat, j : Nat, cross : BOOLEAN, slip : BOOLEAN, beside : BOOLEAN]

Active(k) == job[k].pc \in {"poll", "change", "set"}

(* The addresses of a poll; an object is named by its address (HeapOK). *)
Addresses(k) == {x[1] : x \in TasksOf(k)}

(* What a poll is about, and where it stands. *)
JobOK(k) ==
    /\ Active(k) <=> job[k].tasks # <<>>
    /\ DOMAIN job[k].w = DOMAIN job[k].tasks
    /\ job[k].since \subseteq changed
    /\ job[k].slip => job[k].cross
    /\ job[k].pc = "poll" => \A i \in DOMAIN job[k].w : job[k].w[i] # "cut"
    /\ job[k].pc \in {"change", "set"} => \A i \in DOMAIN job[k].w : job[k].w[i] # "asks"
    /\ job[k].pc = "set" => job[k].w[job[k].i] # "fails"
    /\ k \in Web /\ Active(k) => DOMAIN job[k].tasks = {1}

JobsOK ==
    /\ job \in [Jobs -> JobType]
    /\ \A k \in Jobs : JobOK(k)
    /\ \A l \in late : l.since \subseteq changed

(* An object is named by its address, and comes from a row of the table. *)
ObjectOK(x) ==
    /\ heap[x].ip = x[1]
    /\ heap[x].seq \in had[x[1]]
    /\ heap[x].st = TRUE => x[1] \in changed

HeapOK == IsFiniteSet(DOMAIN heap) /\ \A x \in DOMAIN heap : ObjectOK(x)

HadOK ==
    /\ IsFiniteSet(db) /\ had \in [Ips -> SUBSET Nat]
    /\ \A r \in db : r.seq \in had[r.ip]

(* The last load had every row once, and the list is as long. *)
LoadedOK ==
    /\ loaded \in Seq([seq : Nat, ip : Ips])
    /\ \A a, b \in DOMAIN loaded : loaded[a] = loaded[b] => a = b
    /\ \A a \in DOMAIN loaded : loaded[a].seq \in had[loaded[a].ip]
    /\ Len(devices) = Len(loaded)

(* ListIsLoaded and NeverOlderThanLoad, by the names of the objects. *)
ListOK == torn \/ \A j \in DOMAIN devices : devices[j][1] = loaded[j].ip
OldOK  == \A j \in DOMAIN devices : heap[devices[j]].old => devices[j][1] \in mixed

(* The index that was found is still right, but for a reload since. *)
PlaceOK(k) ==
    job[k].pc = "set" /\ ~job[k].slip /\ ~torn =>
        job[k].j \in DOMAIN devices /\ devices[job[k].j][1] = Current(k)[1]

(* A poll has old objects because it began before the load, or because a poll *)
(* that did had put them back.                                                *)
OldTasksOK(k) ==
    \A x \in TasksOf(k) : heap[x].old => job[k].cross \/ x[1] \in mixed

(* The inductive invariant behind ListIsRight. *)
ListInv ==
    /\ TypeOK /\ JobsOK /\ HeapOK /\ HadOK /\ LoadedOK /\ ListOK /\ OldOK
    /\ \A k \in Jobs : PlaceOK(k) /\ OldTasksOK(k)

-----------------------------------------------------------------------------
(* Numbers and names. *)

LEMMA LeastOf ==
    ASSUME NEW T, T \subseteq Nat, T # {}
    PROVE  Min(T) \in T /\ \A y \in T : Min(T) <= y
<1> DEFINE R == OpToRel(<, Nat)
<1>1. IsWellFoundedOn(R, Nat)
  BY NatLessThanWellFounded, Zenon
<1>2. PICK x \in T : \A y \in T : ~ (<<y, x>> \in R)
  <2> HIDE DEF R
  <2> QED BY <1>1, WFMin, Zenon
<1>3. \A y \in T : <<y, x>> \in R <=> y < x
  BY Zenon DEF OpToRel
<1>4. \A y \in T : ~(y < x)
  BY <1>2, <1>3, Zenon
<1>5. x \in Nat /\ \A y \in T : y \in Nat
  OBVIOUS
<1>6. \A y \in T : x =< y
  BY <1>4, <1>5
<1> QED BY <1>6 DEF Min

Below(R, S, x) == {y \in S : <<y, x>> \in R}

Orders(R, S) ==
    /\ \A x \in S : <<x, x>> \notin R
    /\ \A x, y, z \in S : <<x, y>> \in R /\ <<y, z>> \in R => <<x, z>> \in R
    /\ \A x, y \in S : x # y => <<x, y>> \in R \/ <<y, x>> \in R

(* In a finite ordered set each has its own rank, and every rank is taken: by *)
(* the pigeonhole principle.                                                  *)
LEMMA RankIs ==
    ASSUME NEW S, IsFiniteSet(S), NEW R, Orders(R, S)
    PROVE  /\ \A i \in 1..Cardinality(S) : \E x \in S : Cardinality(Below(R, S, x)) = i - 1
           /\ \A x, y \in S : Cardinality(Below(R, S, x)) = Cardinality(Below(R, S, y)) => x = y
<1> DEFINE c(x) == Cardinality(Below(R, S, x))
<1>1. \A x \in S : IsFiniteSet(Below(R, S, x)) /\ c(x) \in Nat
  <2> TAKE x \in S
  <2>1. Below(R, S, x) \in SUBSET S
    BY DEF Below
  <2> QED BY <2>1, FS_Subset, FS_CardinalityType
<1>2. ASSUME NEW x \in S, NEW y \in S, <<x, y>> \in R PROVE c(x) < c(y)
  <2>1. /\ Below(R, S, x) \in SUBSET Below(R, S, y)
        /\ x \in Below(R, S, y) /\ x \notin Below(R, S, x)
    BY <1>2, Zenon DEF Below, Orders
  <2>2. Below(R, S, x) # Below(R, S, y)
    BY <2>1
  <2>3. c(x) <= c(y) /\ (c(x) = c(y) => Below(R, S, x) = Below(R, S, y))
    BY <1>1, <2>1, FS_Subset
  <2> QED BY <1>1, <2>2, <2>3
<1>3. \A x, y \in S : c(x) = c(y) => x = y
  <2> SUFFICES ASSUME NEW x \in S, NEW y \in S, c(x) = c(y), x # y PROVE FALSE
    OBVIOUS
  <2>1. c(x) \in Nat /\ c(y) \in Nat
    BY <1>1
  <2>2. <<x, y>> \in R \/ <<y, x>> \in R
    BY DEF Orders
  <2> HIDE DEF c
  <2> QED BY <1>2, <2>1, <2>2
<1>4. Cardinality(S) \in Nat
  BY FS_CardinalityType
<1>5. \A x \in S : c(x) \in 0..(Cardinality(S) - 1)
  <2> TAKE x \in S
  <2>1. Below(R, S, x) \in SUBSET S /\ x \notin Below(R, S, x)
    BY DEF Below, Orders
  <2>2. c(x) <= Cardinality(S) /\ (c(x) = Cardinality(S) => Below(R, S, x) = S)
    BY <2>1, FS_Subset
  <2>3. c(x) # Cardinality(S) /\ c(x) \in Nat
    BY <1>1, <2>1, <2>2
  <2> HIDE DEF c
  <2> QED BY <1>4, <2>2, <2>3
<1>6. ASSUME NEW i \in 1..Cardinality(S), \A x \in S : c(x) # i - 1 PROVE FALSE
  <2> DEFINE T == 0..(Cardinality(S) - 1)
             f == [x \in S |-> c(x)]
  <2>1. IsFiniteSet(T) /\ Cardinality(T) = Cardinality(S)
    <3>1. 0 \in Int /\ Cardinality(S) - 1 \in Int /\ ~(0 > Cardinality(S) - 1)
      BY <1>4
    <3>2. IsFiniteSet(T) /\ Cardinality(T) = (Cardinality(S) - 1) - 0 + 1
      BY <3>1, FS_Interval, Zenon
    <3> QED BY <1>4, <3>2
  <2>2. i - 1 \in T
    BY <1>4
  <2>3. IsFiniteSet(T \ {i - 1}) /\ Cardinality(T \ {i - 1}) = Cardinality(S) - 1
    <3> HIDE DEF T
    <3>1. IsFiniteSet(T \ {i - 1}) /\ Cardinality(T \ {i - 1}) = Cardinality(T) - 1
      BY <2>1, <2>2, FS_RemoveElement
    <3> QED BY <2>1, <3>1
  <2>4. Cardinality(T \ {i - 1}) < Cardinality(S)
    BY <1>4, <2>3
  <2>5. f \in [S -> T \ {i - 1}]
    BY <1>5, <1>6, Zenon
  <2>6. \E x, y \in S : x # y /\ f[x] = f[y]
    <3> HIDE DEF T, f
    <3> QED BY <2>3, <2>4, <2>5, FS_PigeonHole, Zenon
  <2> QED BY <1>3, <2>6
<1> HIDE DEF c
<1>7. \A i \in 1..Cardinality(S) : \E x \in S : c(x) = i - 1
  BY <1>6
<1> QED BY <1>3, <1>7 DEF c

LEMMA GreatestOf ==
    ASSUME NEW S, S \subseteq Nat, IsFiniteSet(S), S # {}
    PROVE  Max(S) \in S /\ \A y \in S : y <= Max(S)
<1> DEFINE R == {p \in S \X S : p[1] < p[2]}
<1>1. \A x, y \in S : <<x, y>> \in R <=> x < y
  OBVIOUS
<1>2. \A x \in S : x \in Nat
  OBVIOUS
<1> HIDE DEF R
<1>3. Orders(R, S)
  BY <1>1, <1>2 DEF Orders
<1>4. Cardinality(S) \in Nat /\ Cardinality(S) # 0
  BY FS_CardinalityType, FS_EmptySet
<1>5. Cardinality(S) \in 1..Cardinality(S)
  BY <1>4
<1>6. PICK x \in S : Cardinality(Below(R, S, x)) = Cardinality(S) - 1
  <2>1. \A i \in 1..Cardinality(S) : \E x \in S : Cardinality(Below(R, S, x)) = i - 1
    BY ONLY IsFiniteSet(S), <1>3, RankIs
  <2> QED BY <1>5, <2>1
<1>7. Below(R, S, x) \in SUBSET (S \ {x})
  BY <1>3 DEF Below, Orders
<1>8. IsFiniteSet(S \ {x}) /\ Cardinality(S \ {x}) = Cardinality(S) - 1
  BY FS_RemoveElement, Zenon
<1>9. Below(R, S, x) = S \ {x}
  BY <1>6, <1>7, <1>8, FS_Subset
<1>10. \A y \in S : y # x => <<y, x>> \in R
  BY <1>9 DEF Below
<1>11. \A y \in S : x >= y
  <2> TAKE y \in S
  <2>1. y = x \/ y < x
    BY <1>1, <1>10
  <2>2. x \in Nat /\ y \in Nat
    BY <1>2
  <2> QED BY <2>1, <2>2
<1>12. Max(S) \in S /\ \A y \in S : Max(S) >= y
  BY <1>11 DEF Max
<1> QED BY <1>2, <1>12

(* A fresh name is none of those in use. *)
LEMMA FreshIs ==
    ASSUME NEW r \in [seq : Nat, ip : Ips], NEW used, IsFiniteSet(used)
    PROVE  /\ Fresh(r, used) \in Ids /\ Fresh(r, used) \notin used
           /\ Fresh(r, used)[1] = r.ip /\ Fresh(r, used)[2] = r.seq
<1> DEFINE N == 1..(1 + Cardinality(used))
           Free == {n \in N : <<r.ip, r.seq, n>> \notin used}
           f == [n \in N |-> <<r.ip, r.seq, n>>]
<1>1. Cardinality(used) \in Nat
  BY FS_CardinalityType
<1>2. Free # {}
  <2> SUFFICES ASSUME Free = {} PROVE FALSE
    OBVIOUS
  <2>1. f \in [N -> used]
    OBVIOUS
  <2>2. IsFiniteSet(N) /\ Cardinality(N) = 1 + Cardinality(used)
    <3>1. IsFiniteSet(N) /\ Cardinality(N) = (1 + Cardinality(used)) - 1 + 1
      <4>1. 1 \in Int /\ 1 + Cardinality(used) \in Int /\ ~(1 > 1 + Cardinality(used))
        BY <1>1
      <4> QED BY <4>1, FS_Interval, Zenon
    <3> QED BY <1>1, <3>1
  <2>3. Cardinality(used) < Cardinality(N)
    BY <1>1, <2>2
  <2>4. \E a, b \in N : a # b /\ f[a] = f[b]
    <3>1. IsFiniteSet(used) /\ IsFiniteSet(N)
      BY <2>2
    <3> HIDE DEF N, f, Free
    <3> QED BY <2>1, <2>3, <3>1, FS_PigeonHole, SMT
  <2> QED BY <2>4
<1>3. Free \subseteq Nat
  OBVIOUS
<1>4. Min(Free) \in Free
  <2> HIDE DEF Free
  <2> QED BY <1>2, <1>3, LeastOf
<1>5. Fresh(r, used) = <<r.ip, r.seq, Min(Free)>>
  BY DEF Fresh
<1>6. Min(Free) \in Nat \ {0} /\ <<r.ip, r.seq, Min(Free)>> \notin used
  BY <1>4
<1>7. r.ip \in Ips /\ r.seq \in Nat
  OBVIOUS
<1> HIDE DEF Free
<1> QED BY <1>5, <1>6, <1>7 DEF Ids

(* The table: finitely many rows, a number each. *)
TableOK == /\ db \subseteq [seq : Nat, ip : Ips] /\ IsFiniteSet(db)
           /\ \A a, b \in db : a.seq = b.seq => a = b
           /\ checked \in Seq([seq : Nat, ip : Ips])

LEMMA TableIs ==
    ASSUME TableOK
    PROVE  IsFiniteSet(db) /\ Cardinality(db) \in Nat
BY FS_CardinalityType DEF TableOK

(* The order of getDeviceList, as a set of pairs. *)
Precedes == {p \in db \X db : Before(p[1], p[2])}

LEMMA PrecedesIs ==
    ASSUME TableOK
    PROVE  /\ Orders(Precedes, db)
           /\ \A r \in db : {x \in db : Before(x, r)} = Below(Precedes, db, r)
<1>1. \A x, y \in db : <<x, y>> \in Precedes <=> Before(x, y)
  BY DEF Precedes
<1>2. \A r \in db : r.seq \in Nat /\ r.ip \in Nat
  BY SnmpConstants DEF TableOK
<1>3. \A x, y \in db : <<x, y>> \in Precedes <=>
         x.ip < y.ip \/ (x.ip = y.ip /\ x.seq > y.seq)
  BY <1>1 DEF Before
<1>4. \A x, y \in db : x.seq = y.seq => x = y
  BY DEF TableOK
<1>5. \A x \in db : <<x, x>> \notin Precedes
  BY <1>2, <1>3
<1>6. \A x, y, z \in db :
         <<x, y>> \in Precedes /\ <<y, z>> \in Precedes => <<x, z>> \in Precedes
  BY <1>2, <1>3
<1>7. \A x, y \in db : x # y => <<x, y>> \in Precedes \/ <<y, x>> \in Precedes
  BY <1>2, <1>3, <1>4
<1>8. \A r \in db : {x \in db : Before(x, r)} = Below(Precedes, db, r)
  BY <1>1 DEF Below
<1> QED BY <1>5, <1>6, <1>7, <1>8 DEF Orders

LEMMA RowsIs ==
    ASSUME TableOK
    PROVE  /\ Rows \in Seq(db) /\ DOMAIN Rows = 1..Cardinality(db)
           /\ \A i \in DOMAIN Rows : Rows[i] \in db
           /\ \A a, b \in DOMAIN Rows : Rows[a] = Rows[b] => a = b
<1> DEFINE rank(r) == Cardinality({x \in db : Before(x, r)})
           row(i) == CHOOSE r \in db : rank(r) = i - 1
<1>1. IsFiniteSet(db) /\ Cardinality(db) \in Nat
  BY TableIs
<1>2. \A i \in 1..Cardinality(db) : \E r \in db : rank(r) = i - 1
  <2> TAKE i \in 1..Cardinality(db)
  <2>1. PICK r \in db : Cardinality(Below(Precedes, db, r)) = i - 1
    BY <1>1, PrecedesIs, RankIs
  <2> QED BY <2>1, PrecedesIs
<1>3. Rows = [i \in 1..Cardinality(db) |-> row(i)]
  BY DEF Rows
<1> HIDE DEF rank
<1>4. \A i \in 1..Cardinality(db) : row(i) \in db /\ rank(row(i)) = i - 1
  BY <1>2
<1> HIDE DEF row
<1>5. Rows \in Seq(db) /\ DOMAIN Rows = 1..Cardinality(db)
  BY <1>1, <1>3, <1>4
<1>6. \A i \in DOMAIN Rows : Rows[i] \in db /\ rank(Rows[i]) = i - 1
  BY <1>3, <1>4
<1>7. \A a, b \in DOMAIN Rows : Rows[a] = Rows[b] => a = b
  <2> SUFFICES ASSUME NEW a \in DOMAIN Rows, NEW b \in DOMAIN Rows, Rows[a] = Rows[b]
               PROVE  a = b
    OBVIOUS
  <2>1. a - 1 = b - 1
    BY <1>6
  <2>2. a \in Nat /\ b \in Nat
    BY <1>1, <1>5
  <2> QED BY <2>1, <2>2
<1> QED BY <1>5, <1>6, <1>7

LEMMA ElementOf ==
    ASSUME NEW T, NEW s \in Seq(T)
    PROVE  /\ \A j \in DOMAIN s : s[j] \in T
           /\ DOMAIN s = 1..Len(s) /\ Len(s) \in Nat /\ DOMAIN s \subseteq Nat \ {0}
OBVIOUS

LEMMA SequenceOf ==
    ASSUME NEW S, NEW T, NEW s \in Seq(S), \A i \in DOMAIN s : s[i] \in T
    PROVE  s \in Seq(T)
<1>1. DOMAIN s = 1..Len(s) /\ Len(s) \in Nat /\ s = [i \in 1..Len(s) |-> s[i]]
  OBVIOUS
<1> QED BY <1>1

LEMMA PutIs ==
    ASSUME NEW T, NEW s \in Seq(T), NEW j \in DOMAIN s, NEW e \in T
    PROVE  [s EXCEPT ![j] = e] \in Seq(T) /\ Len([s EXCEPT ![j] = e]) = Len(s)
<1> DEFINE t == [s EXCEPT ![j] = e]
<1>1. DOMAIN s = 1..Len(s) /\ Len(s) \in Nat /\ \A i \in DOMAIN s : s[i] \in T
  BY ElementOf
<1>2. DOMAIN t = DOMAIN s /\ \A i \in DOMAIN s : t[i] = IF i = j THEN e ELSE s[i]
  OBVIOUS
<1>3. t = [i \in 1..Len(s) |-> t[i]]
  BY <1>1
<1> HIDE DEF t
<1>4. \A i \in 1..Len(s) : t[i] \in T
  BY <1>1, <1>2
<1>5. t \in Seq(T) /\ Len(t) = Len(s)
  BY <1>1, <1>3, <1>4
<1> QED BY <1>5 DEF t

LEMMA NextSeqIs ==
    ASSUME TableOK
    PROVE  NextSeq \in Nat /\ \A r \in db : r.seq # NextSeq
<1> DEFINE S == {r.seq : r \in db}
           f == [r \in db |-> r.seq]
<1>1. f \in [db -> S] /\ \A t \in S : \E r \in db : f[r] = t
  OBVIOUS
<1>2. f \in Surjection(db, S)
  BY <1>1 DEF Surjection
<1>3. IsFiniteSet(S)
  <2> HIDE DEF S, f
  <2> QED BY <1>2, FS_Surjection, TableIs
<1>4. {0} \cup S \subseteq Nat
  BY DEF TableOK
<1>5. IsFiniteSet({0} \cup S)
  <2> HIDE DEF S
  <2>1. IsFiniteSet(S \cup {0})
    BY <1>3, FS_AddElement
  <2>2. S \cup {0} = {0} \cup S
    OBVIOUS
  <2> QED BY <2>1, <2>2
<1>6. Max({0} \cup S) \in {0} \cup S /\ \A y \in {0} \cup S : y <= Max({0} \cup S)
  <2>1. {0} \cup S # {}
    OBVIOUS
  <2> HIDE DEF S
  <2> QED BY <1>4, <1>5, <2>1, GreatestOf
<1>7. Max({0} \cup S) \in Nat
  BY <1>4, <1>6
<1>8. \A r \in db : r.seq \in Nat /\ r.seq <= Max({0} \cup S)
  BY <1>4, <1>6
<1> HIDE DEF S
<1>9. NextSeq = 1 + Max({0} \cup S)
  BY DEF NextSeq, S
<1>10. PICK m \in Nat : m = Max({0} \cup S)
  BY <1>7
<1>11. NextSeq = 1 + m /\ \A r \in db : r.seq \in Nat /\ r.seq <= m
  BY <1>8, <1>9, <1>10
<1>12. \A r \in db : r.seq # 1 + m
  BY <1>11
<1> QED BY <1>11, <1>12

-----------------------------------------------------------------------------
(* What the pieces of a step do to the pollers. *)

ObjType == [seq : Nat, ip : Ips, st : BOOLEAN \cup {None}, old : BOOLEAN]

(* Where the loop of a poll stands. *)
LoopOK(k) == /\ job[k].j \in Nat \ {0}
             /\ job[k].tasks # <<>> => job[k].i \in DOMAIN job[k].tasks

LEMMA Facts ==
    ASSUME ListInv
    PROVE  /\ DOMAIN job = Jobs /\ TableOK
           /\ \A k \in Jobs : job[k] \in JobType /\ LoopOK(k) /\ JobOK(k)
           /\ \A k \in Jobs : TasksOf(k) \subseteq DOMAIN heap
           /\ \A j \in DOMAIN devices : devices[j] \in DOMAIN heap
           /\ \A l \in late : l.obj \in DOMAIN heap /\ l.since \subseteq Ips
           /\ \A x \in DOMAIN heap : /\ x \in Ids /\ x[1] \in Ips
                                     /\ heap[x] \in ObjType /\ ObjectOK(x)
<1>1. DOMAIN job = Jobs /\ TableOK /\ \A k \in Jobs : job[k] \in JobType /\ LoopOK(k) /\ JobOK(k)
  BY DEF ListInv, TypeOK, JobsOK, TableOK, LoopOK, HadOK
<1>2. DOMAIN heap = Held(job, late) \cup ToSet(devices)
  BY DEF ListInv, TypeOK
<1>3. \A k \in Jobs : TasksOf(k) \subseteq DOMAIN heap
  BY <1>2 DEF Held, TasksOf
<1>4. \A j \in DOMAIN devices : devices[j] \in DOMAIN heap
  BY <1>2 DEF ToSet
<1>5. \A l \in late : l.obj \in DOMAIN heap /\ l.since \subseteq Ips
  BY DEF ListInv, TypeOK
<1>6. \A x \in DOMAIN heap : x \in Ids /\ heap[x] \in ObjType /\ ObjectOK(x)
  BY DEF ListInv, TypeOK, HeapOK, ObjType
<1>7. \A x \in Ids : x[1] \in Ips
  BY DEF Ids
<1> QED BY <1>1, <1>3, <1>4, <1>5, <1>6, <1>7

LEMMA IdleIs ==
    /\ Idle \in JobType /\ [Idle EXCEPT !.pc = "over"] \in JobType
    /\ Idle.pc = "idle" /\ Idle.tasks = <<>> /\ Idle.w = <<>> /\ Idle.since = {}
    /\ Idle.i = 1 /\ Idle.j = 1 /\ ~Idle.cross /\ ~Idle.slip /\ ~Idle.beside
<1>1. <<>> \in Seq(Ids) /\ <<>> \in Seq(Results)
  OBVIOUS
<1> QED BY <1>1 DEF Idle, JobType, Pcs

(* The addresses of the objects of a poll are the ones they are named by. *)
LEMMA AddressesAre ==
    ASSUME ListInv
    PROVE  /\ \A k \in Jobs : IpsOf(k) = Addresses(k)
           /\ \A x \in DOMAIN heap : IpOf(x) = x[1]
<1>1. \A x \in DOMAIN heap : IpOf(x) = x[1]
  BY Facts DEF IpOf, ObjectOK
<1> QED BY <1>1, Facts DEF IpsOf, Addresses

LEMMA JobIs ==
    ASSUME NEW o \in JobType
    PROVE  o = [pc |-> o.pc, tasks |-> o.tasks, w |-> o.w, since |-> o.since, i |-> o.i, j |-> o.j,
                cross |-> o.cross, slip |-> o.slip, beside |-> o.beside]
BY DEF JobType

LEMMA ResultIs ==
    ASSUME NEW o \in JobType, NEW v, NEW p
    PROVE  [o EXCEPT !.w = v, !.pc = p] =
             [pc |-> p, tasks |-> o.tasks, w |-> v, since |-> o.since,
              i |-> o.i, j |-> o.j, cross |-> o.cross, slip |-> o.slip, beside |-> o.beside]
<1>1. o = [pc |-> o.pc, tasks |-> o.tasks, w |-> o.w, since |-> o.since, i |-> o.i, j |-> o.j,
           cross |-> o.cross, slip |-> o.slip, beside |-> o.beside]
  BY JobIs
<1>2. ASSUME NEW q, q = [o EXCEPT !.w = v, !.pc = p]
      PROVE  q = [pc |-> p, tasks |-> o.tasks, w |-> v, since |-> o.since,
              i |-> o.i, j |-> o.j, cross |-> o.cross, slip |-> o.slip, beside |-> o.beside]
  BY <1>1, <1>2
<1> QED BY <1>2, Zenon

(* One poll changes. *)
LEMMA JobExcept ==
    ASSUME ListInv, NEW k \in Jobs, NEW q \in JobType, job' = [job EXCEPT ![k] = q]
    PROVE  /\ job' \in [Jobs -> JobType] /\ job'[k] = q
           /\ \A m \in Jobs \ {k} : job'[m] = job[m]
<1>1. job \in [Jobs -> JobType]
  BY DEF ListInv, JobsOK
<1> QED BY <1>1

LEMMA WorkerIs ==
    ASSUME ListInv, NEW k \in Jobs, NEW i \in DOMAIN job[k].w, NEW v \in Final, Worker(k, i, v),
           job[k].pc = "poll", job[k].w[i] = "asks"
    PROVE  /\ job' \in [Jobs -> JobType] /\ \A m \in Jobs \ {k} : job'[m] = job[m]
           /\ job'[k].pc \in {"poll", "change"}
           /\ UNCHANGED <<job[k].tasks, job[k].since, job[k].i, job[k].j, job[k].cross,
                          job[k].slip, job[k].beside>>
           /\ job'[k].w = [job[k].w EXCEPT ![i] = v]
           /\ job'[k].pc = "change" => \A m \in DOMAIN job[k].w : job'[k].w[m] \in Final
<1>1. job[k] \in JobType /\ DOMAIN job = Jobs
  BY Facts
<1> DEFINE p == IF \A m \in DOMAIN job[k].w \ {i} : job[k].w[m] \in Final
                THEN "change" ELSE job[k].pc
           w == [job[k].w EXCEPT ![i] = v]
           q == [pc |-> p, tasks |-> job[k].tasks, w |-> w, since |-> job[k].since,
                 i |-> job[k].i, j |-> job[k].j, cross |-> job[k].cross,
                 slip |-> job[k].slip, beside |-> job[k].beside]
<1>3. job' = [job EXCEPT ![k] = q]
  <2>1. job' = [job EXCEPT ![k] = [job[k] EXCEPT !.w = w, !.pc = p]]
    BY Zenon DEF Worker
  <2> HIDE DEF p, w
  <2>2. [job[k] EXCEPT !.w = w, !.pc = p] = q
    BY <1>1, ResultIs, Zenon
  <2> QED BY <2>1, <2>2
<1>4. w \in Seq(Results) /\ DOMAIN w = DOMAIN job[k].w
  <2>1. job[k].w \in Seq(Results) /\ v \in Results
    BY <1>1 DEF JobType, Final, Results
  <2> QED BY <2>1
<1>5. \A m \in DOMAIN w : w[m] = IF m = i THEN v ELSE job[k].w[m]
  OBVIOUS
<1>6. p = "change" => \A m \in DOMAIN job[k].w : w[m] \in Final
  BY <1>4, <1>5
<1>7. p \in {"poll", "change"}
  OBVIOUS
<1> HIDE DEF p, w
<1>8. q \in JobType
  BY <1>1, <1>4, <1>7 DEF JobType, Pcs
<1>9. /\ job' \in [Jobs -> JobType] /\ job'[k] = q
      /\ \A m \in Jobs \ {k} : job'[m] = job[m]
  BY <1>3, <1>8, JobExcept
<1> QED BY <1>6, <1>7, <1>8, <1>9 DEF w

LEMMA GoesOnIs ==
    ASSUME NEW o \in JobType, NEW n
    PROVE  [o EXCEPT !.pc = "change", !.i = n, !.slip = FALSE] =
              [pc |-> "change", tasks |-> o.tasks, w |-> o.w, since |-> o.since, i |->
               n, j |-> o.j, cross |-> o.cross, slip |-> FALSE, beside |-> o.beside]
<1>1. o =
         [pc |-> o.pc, tasks |-> o.tasks, w |-> o.w, since |-> o.since, i |-> o.i, j
          |-> o.j, cross |-> o.cross, slip |-> o.slip, beside |-> o.beside]
  BY JobIs
<1>2. ASSUME NEW q, q = [o EXCEPT !.pc = "change", !.i = n, !.slip = FALSE]
      PROVE  q =
                [pc |-> "change", tasks |-> o.tasks, w |-> o.w, since |-> o.since, i
                 |-> n, j |-> o.j, cross |-> o.cross, slip |-> FALSE, beside |->
                 o.beside]
  BY <1>1, <1>2
<1> QED BY <1>2, Zenon

LEMMA FoundIs ==
    ASSUME NEW o \in JobType, NEW n
    PROVE  [o EXCEPT !.pc = "set", !.j = n] =
              [pc |-> "set", tasks |-> o.tasks, w |-> o.w, since |-> o.since, i |->
               o.i, j |-> n, cross |-> o.cross, slip |-> o.slip, beside |-> o.beside]
<1>1. o =
         [pc |-> o.pc, tasks |-> o.tasks, w |-> o.w, since |-> o.since, i |-> o.i, j
          |-> o.j, cross |-> o.cross, slip |-> o.slip, beside |-> o.beside]
  BY JobIs
<1>2. ASSUME NEW q, q = [o EXCEPT !.pc = "set", !.j = n]
      PROVE  q =
                [pc |-> "set", tasks |-> o.tasks, w |-> o.w, since |-> o.since, i |->
                 o.i, j |-> n, cross |-> o.cross, slip |-> o.slip, beside |-> o.beside]
  BY <1>1, <1>2
<1> QED BY <1>2, Zenon

LEMMA CutIs ==
    ASSUME NEW o \in JobType, NEW v
    PROVE  [o EXCEPT !.pc = "change", !.w = v] =
              [pc |-> "change", tasks |-> o.tasks, w |-> v, since |-> o.since, i |->
               o.i, j |-> o.j, cross |-> o.cross, slip |-> o.slip, beside |-> o.beside]
<1>1. o =
         [pc |-> o.pc, tasks |-> o.tasks, w |-> o.w, since |-> o.since, i |-> o.i, j
          |-> o.j, cross |-> o.cross, slip |-> o.slip, beside |-> o.beside]
  BY JobIs
<1>2. ASSUME NEW q, q = [o EXCEPT !.pc = "change", !.w = v]
      PROVE  q =
                [pc |-> "change", tasks |-> o.tasks, w |-> v, since |-> o.since, i |->
                 o.i, j |-> o.j, cross |-> o.cross, slip |-> o.slip, beside |->
                 o.beside]
  BY <1>1, <1>2
<1> QED BY <1>2, Zenon

LEMMA CrossedIs ==
    ASSUME NEW o \in JobType, NEW b
    PROVE  [o EXCEPT !.cross = TRUE, !.slip = b] =
              [pc |-> o.pc, tasks |-> o.tasks, w |-> o.w, since |-> o.since, i |-> o.i,
               j |-> o.j, cross |-> TRUE, slip |-> b, beside |-> o.beside]
<1>1. o =
         [pc |-> o.pc, tasks |-> o.tasks, w |-> o.w, since |-> o.since, i |-> o.i, j
          |-> o.j, cross |-> o.cross, slip |-> o.slip, beside |-> o.beside]
  BY JobIs
<1>2. ASSUME NEW q, q = [o EXCEPT !.cross = TRUE, !.slip = b]
      PROVE  q =
                [pc |-> o.pc, tasks |-> o.tasks, w |-> o.w, since |-> o.since, i |->
                 o.i, j |-> o.j, cross |-> TRUE, slip |-> b, beside |-> o.beside]
  BY <1>1, <1>2
<1> QED BY <1>2, Zenon

LEMMA BesideIs ==
    ASSUME NEW o \in JobType
    PROVE  [o EXCEPT !.beside = TRUE] =
              [pc |-> o.pc, tasks |-> o.tasks, w |-> o.w, since |-> o.since, i |-> o.i,
               j |-> o.j, cross |-> o.cross, slip |-> o.slip, beside |-> TRUE]
<1>1. o =
         [pc |-> o.pc, tasks |-> o.tasks, w |-> o.w, since |-> o.since, i |-> o.i, j
          |-> o.j, cross |-> o.cross, slip |-> o.slip, beside |-> o.beside]
  BY JobIs
<1>2. ASSUME NEW q, q = [o EXCEPT !.beside = TRUE]
      PROVE  q =
                [pc |-> o.pc, tasks |-> o.tasks, w |-> o.w, since |-> o.since, i |->
                 o.i, j |-> o.j, cross |-> o.cross, slip |-> o.slip, beside |-> TRUE]
  BY <1>1, <1>2
<1> QED BY <1>2, Zenon

LEMMA TakenIs ==
    ASSUME NEW s, NEW c, NEW v, NEW b
    PROVE  [Idle EXCEPT !.pc = "poll", !.tasks = s, !.since = c, !.w = v, !.beside = b] =
             [pc |-> "poll", tasks |-> s, w |-> v, since |-> c, i |-> 1, j |-> 1,
              cross |-> FALSE, slip |-> FALSE, beside |-> b]
<1>1. ASSUME NEW q,
             q = [Idle EXCEPT !.pc = "poll", !.tasks = s, !.since = c, !.w = v, !.beside = b]
      PROVE  q = [pc |-> "poll", tasks |-> s, w |-> v, since |-> c, i |-> 1, j |-> 1,
              cross |-> FALSE, slip |-> FALSE, beside |-> b]
  BY <1>1 DEF Idle
<1> QED BY <1>1, Zenon

LEMMA NextTaskIs ==
    ASSUME ListInv, NEW k \in Jobs, job[k].pc \in {"change", "set"}, NextTask(k)
    PROVE  /\ job' \in [Jobs -> JobType] /\ \A m \in Jobs \ {k} : job'[m] = job[m]
           /\ \/ /\ job'[k].pc \in {"idle", "over"} /\ job'[k].tasks = <<>> /\ job'[k].w = <<>>
                 /\ job'[k].since = {} /\ job'[k].j = 1 /\ ~job'[k].slip /\ ~job'[k].cross
              \/ /\ job'[k].pc = "change" /\ ~job'[k].slip
                 /\ UNCHANGED <<job[k].tasks, job[k].w, job[k].since, job[k].j, job[k].cross,
                                job[k].beside>>
                 /\ job'[k].i = job[k].i + 1 /\ job'[k].i \in DOMAIN job[k].tasks
<1>1. job[k] \in JobType /\ DOMAIN job = Jobs /\ job[k].i \in DOMAIN job[k].tasks
  BY Facts DEF LoopOK, JobOK, Active
<1>2. job[k].tasks \in Seq(Ids) /\ job[k].i \in Nat
  BY <1>1 DEF JobType
<1>3. CASE job[k].i = Len(job[k].tasks)
  <2>1. job' = [job EXCEPT ![k] = Ended(k)]
    BY <1>3 DEF NextTask
  <2>3. /\ Ended(k) \in JobType /\ Ended(k).pc \in {"idle", "over"}
        /\ Ended(k).tasks = <<>> /\ Ended(k).w = <<>> /\ Ended(k).since = {}
        /\ Ended(k).j = 1 /\ ~Ended(k).slip /\ ~Ended(k).cross
    <3>1. \A p \in {"idle", "over"} :
            [Idle EXCEPT !.pc = p] = [pc |-> p, tasks |-> <<>>, w |-> <<>>, since |-> {},
                 i |-> 1, j |-> 1, cross |-> FALSE, slip |-> FALSE, beside |-> FALSE]
      <4> TAKE p \in {"idle", "over"}
      <4>1. ASSUME NEW q, q = [Idle EXCEPT !.pc = p]
            PROVE  q = [pc |-> p, tasks |-> <<>>, w |-> <<>>, since |-> {},
                 i |-> 1, j |-> 1, cross |-> FALSE, slip |-> FALSE, beside |-> FALSE]
        BY <4>1 DEF Idle
      <4> QED BY <4>1, Zenon
    <3>2. PICK p \in {"idle", "over"} : Ended(k) = [Idle EXCEPT !.pc = p]
      BY DEF Ended
    <3>3. Ended(k) = [pc |-> p, tasks |-> <<>>, w |-> <<>>, since |-> {},
                 i |-> 1, j |-> 1, cross |-> FALSE, slip |-> FALSE, beside |-> FALSE]
      BY <3>1, <3>2, Zenon
    <3>4. <<>> \in Seq(Ids) /\ <<>> \in Seq(Results) /\ p \in Pcs
      BY DEF Pcs
    <3> QED BY <3>3, <3>4 DEF JobType
  <2> HIDE DEF Ended
  <2>4. /\ job' \in [Jobs -> JobType] /\ job'[k] = Ended(k)
        /\ \A m \in Jobs \ {k} : job'[m] = job[m]
    BY <2>1, <2>3, JobExcept
  <2> QED BY <2>3, <2>4
<1>4. CASE job[k].i # Len(job[k].tasks)
  <2> DEFINE n == job[k].i + 1
  <2>1. n \in Nat /\ n \in DOMAIN job[k].tasks
    BY <1>1, <1>2, <1>4
  <2>2. job' = [job EXCEPT ![k] = [job[k] EXCEPT !.pc = "change", !.i = n, !.slip = FALSE]]
    BY <1>4, Zenon DEF NextTask
  <2> HIDE DEF n
  <2>3. job'[k] = [job[k] EXCEPT !.pc = "change", !.i = n, !.slip = FALSE]
        /\ DOMAIN job' = Jobs /\ \A m \in Jobs \ {k} : job'[m] = job[m]
    BY <1>1, <2>2, Zenon
  <2>4. job'[k] = [pc |-> "change", tasks |-> job[k].tasks, w |-> job[k].w,
                   since |-> job[k].since, i |-> n, j |-> job[k].j, cross |-> job[k].cross,
                   slip |-> FALSE, beside |-> job[k].beside]
    BY <1>1, <2>3, GoesOnIs, Zenon
  <2>5. job'[k] \in JobType
    BY <1>1, <2>1, <2>4 DEF JobType, Pcs
  <2>6. job' \in [Jobs -> JobType]
    <3>1. job' = [job EXCEPT ![k] = job'[k]]
      BY <2>2, <2>3, Zenon
    <3> QED BY <2>5, <3>1, JobExcept
  <2> QED BY <2>1, <2>3, <2>4, <2>6 DEF n
<1> QED BY <1>3, <1>4

LEMMA TimeoutIs ==
    ASSUME ListInv, NEW k \in Jobs, Timeout(k)
    PROVE  /\ job' \in [Jobs -> JobType] /\ \A m \in Jobs \ {k} : job'[m] = job[m]
           /\ job'[k].pc = "change"
           /\ UNCHANGED <<job[k].tasks, job[k].since, job[k].i, job[k].j, job[k].cross,
                          job[k].slip, job[k].beside>>
           /\ DOMAIN job'[k].w = DOMAIN job[k].w
           /\ \A i \in DOMAIN job[k].w :
                 job'[k].w[i] = IF job[k].w[i] \in Final THEN job[k].w[i] ELSE "cut"
<1> DEFINE cut == {i \in DOMAIN job[k].w : job[k].w[i] \notin Final}
           v == [i \in DOMAIN job[k].w |-> IF i \in cut THEN "cut" ELSE job[k].w[i]]
<1>1. job[k] \in JobType /\ DOMAIN job = Jobs
  BY Facts
<1>2. job' = [job EXCEPT ![k] = [job[k] EXCEPT !.pc = "change", !.w = v]]
  BY Zenon DEF Timeout
<1>3. v \in Seq(Results) /\ DOMAIN v = DOMAIN job[k].w
  <2>1. job[k].w \in Seq(Results)
    BY <1>1 DEF JobType
  <2>2. \A i \in DOMAIN v : v[i] \in Results
    BY <2>1 DEF Results
  <2>3. DOMAIN v = 1..Len(job[k].w) /\ Len(job[k].w) \in Nat
    BY <2>1
  <2> HIDE DEF v
  <2>4. v = [i \in 1..Len(job[k].w) |-> v[i]]
    BY <2>3 DEF v
  <2> QED BY <2>1, <2>2, <2>3, <2>4
<1>4. \A i \in DOMAIN job[k].w :
         v[i] = IF job[k].w[i] \in Final THEN job[k].w[i] ELSE "cut"
  OBVIOUS
<1> HIDE DEF v, cut
<1>5. /\ job'[k] = [job[k] EXCEPT !.pc = "change", !.w = v]
      /\ DOMAIN job' = Jobs /\ \A m \in Jobs \ {k} : job'[m] = job[m]
  BY <1>1, <1>2, Zenon
<1>6. job'[k] = [pc |-> "change", tasks |-> job[k].tasks, w |-> v,
                 since |-> job[k].since, i |-> job[k].i, j |-> job[k].j, cross |-> job[k].cross,
                 slip |-> job[k].slip, beside |-> job[k].beside]
  BY <1>1, <1>5, CutIs, Zenon
<1>7. job'[k] \in JobType
  BY <1>1, <1>3, <1>6 DEF JobType, Pcs
<1>8. job' \in [Jobs -> JobType]
  <2>1. job' = [job EXCEPT ![k] = job'[k]]
    BY <1>2, <1>5, Zenon
  <2> QED BY <1>7, <2>1, JobExcept
<1> QED BY <1>3, <1>4, <1>5, <1>6, <1>8

LEMMA FoundTaskIs ==
    ASSUME ListInv, NEW k \in Jobs, NEW n \in Nat,
           job' = [job EXCEPT ![k] = [job[k] EXCEPT !.pc = "set", !.j = n]]
    PROVE  /\ job' \in [Jobs -> JobType] /\ \A m \in Jobs \ {k} : job'[m] = job[m]
           /\ job'[k].pc = "set" /\ job'[k].j = n
           /\ UNCHANGED <<job[k].tasks, job[k].w, job[k].since, job[k].i, job[k].cross,
                          job[k].slip, job[k].beside>>
<1>1. job[k] \in JobType /\ DOMAIN job = Jobs
  BY Facts
<1>2. /\ job'[k] = [job[k] EXCEPT !.pc = "set", !.j = n]
      /\ DOMAIN job' = Jobs /\ \A m \in Jobs \ {k} : job'[m] = job[m]
  BY <1>1, Zenon
<1>3. job'[k] = [pc |-> "set", tasks |-> job[k].tasks, w |-> job[k].w,
                 since |-> job[k].since, i |-> job[k].i, j |-> n, cross |-> job[k].cross,
                 slip |-> job[k].slip, beside |-> job[k].beside]
  BY <1>1, <1>2, FoundIs, Zenon
<1>4. job'[k] \in JobType
  BY <1>1, <1>3 DEF JobType, Pcs
<1>5. job' \in [Jobs -> JobType]
  <2>1. job' = [job EXCEPT ![k] = job'[k]]
    BY <1>2, Zenon
  <2> QED BY <1>4, <2>1, JobExcept
<1> QED BY <1>2, <1>3, <1>5

LEMMA ReloadedIs ==
    ASSUME ListInv, Reloaded
    PROVE  /\ job' \in [Jobs -> JobType]
           /\ \A k \in Jobs :
                 /\ job'[k] \in JobType
                 /\ UNCHANGED <<job[k].pc, job[k].tasks, job[k].w, job[k].since, job[k].i,
                                job[k].j, job[k].beside>>
                 /\ Active(k) => job'[k].cross /\ (job'[k].slip <=> job[k].pc = "set")
                 /\ ~Active(k) => job'[k] = job[k]
<1>1. job' = [k \in Jobs |->
          IF job[k].pc \in {"idle", "over"} THEN job[k]
          ELSE [job[k] EXCEPT !.cross = TRUE, !.slip = (job[k].pc = "set")]]
  BY DEF Reloaded
<1>2. DOMAIN job' = Jobs /\ job' = [m \in Jobs |-> job'[m]]
  BY <1>1
<1>3. ASSUME NEW k \in Jobs
      PROVE  /\ job'[k] \in JobType
             /\ UNCHANGED <<job[k].pc, job[k].tasks, job[k].w, job[k].since, job[k].i,
                            job[k].j, job[k].beside>>
             /\ Active(k) => job'[k].cross /\ (job'[k].slip <=> job[k].pc = "set")
             /\ ~Active(k) => job'[k] = job[k]
  <2>1. job[k] \in JobType
    BY Facts
  <2>2. Active(k) <=> job[k].pc \notin {"idle", "over"}
    BY <2>1 DEF JobType, Pcs, Active
  <2>3. CASE ~Active(k)
    <3>1. job'[k] = job[k]
      BY <1>1, <2>2, <2>3
    <3> QED BY <2>1, <2>3, <3>1
  <2>4. CASE Active(k)
    <3>1. job'[k] = [job[k] EXCEPT !.cross = TRUE, !.slip = (job[k].pc = "set")]
      BY <1>1, <2>2, <2>4
    <3>2. PICK b \in BOOLEAN : b = (job[k].pc = "set")
      OBVIOUS
    <3>3. job'[k] = [pc |-> job[k].pc, tasks |-> job[k].tasks, w |-> job[k].w,
                     since |-> job[k].since, i |-> job[k].i, j |-> job[k].j, cross |-> TRUE,
                     slip |-> b, beside |-> job[k].beside]
      <4>1. job'[k] = [job[k] EXCEPT !.cross = TRUE, !.slip = b]
        BY <3>1, <3>2, Zenon
      <4> QED BY <2>1, <4>1, CrossedIs, Zenon
    <3>4. job'[k] \in JobType
      BY <2>1, <3>3 DEF JobType, Pcs
    <3>5. job'[k].slip = b /\ job'[k].cross = TRUE
      BY <3>3
    <3>6. job'[k].slip <=> job[k].pc = "set"
      BY <3>2, <3>5, Zenon
    <3>7. UNCHANGED <<job[k].pc, job[k].tasks, job[k].w, job[k].since, job[k].i,
                      job[k].j, job[k].beside>>
      BY <3>3
    <3> QED BY <2>4, <3>4, <3>5, <3>6, <3>7, Zenon
  <2> QED BY <2>3, <2>4
<1> QED BY <1>2, <1>3

LEMMA TakeIs ==
    ASSUME ListInv, NEW k \in Jobs, NEW s \in Seq(Ids), NEW ips, Take(k, s, ips)
    PROVE  /\ job' \in [Jobs -> JobType]
           /\ \A m \in Jobs \ {k} :
                 /\ job'[m] \in JobType
                 /\ UNCHANGED <<job[m].pc, job[m].tasks, job[m].w, job[m].since, job[m].i,
                                job[m].j, job[m].cross, job[m].slip>>
                 /\ job[m].beside \/ IpsOf(m) \cap ips # {} => job'[m].beside
           /\ job'[k] \in JobType
           /\ job'[k].pc = "poll" /\ job'[k].tasks = s /\ job'[k].since = changed
           /\ DOMAIN job'[k].w = DOMAIN s /\ \A i \in DOMAIN s : job'[k].w[i] = "asks"
           /\ job'[k].i = 1 /\ job'[k].j = 1 /\ ~job'[k].cross /\ ~job'[k].slip
           /\ (\E l \in late : IpOf(l.obj) \in ips)
                 \/ (\E m \in Jobs \ {k} : IpsOf(m) \cap ips # {}) => job'[k].beside
<1> DEFINE beside(m) == m # k /\ IpsOf(m) \cap ips # {}
           after == \E l \in late : IpOf(l.obj) \in ips
           v == [i \in DOMAIN s |-> "asks"]
<1>1. job' = [m \in Jobs |->
          IF m = k THEN [Idle EXCEPT !.pc = "poll", !.tasks = s, !.since = changed, !.w = v,
                                     !.beside = after \/ \E n \in Jobs : beside(n)]
          ELSE IF beside(m) THEN [job[m] EXCEPT !.beside = TRUE] ELSE job[m]]
  BY Zenon DEF Take
<1>2. DOMAIN job' = Jobs /\ job' = [m \in Jobs |-> job'[m]]
  BY <1>1
<1>3. ASSUME NEW m \in Jobs \ {k}
      PROVE  /\ job'[m] \in JobType
             /\ UNCHANGED <<job[m].pc, job[m].tasks, job[m].w, job[m].since, job[m].i,
                            job[m].j, job[m].cross, job[m].slip>>
             /\ job[m].beside \/ IpsOf(m) \cap ips # {} => job'[m].beside
  <2>1. job[m] \in JobType
    BY Facts
  <2>2. CASE beside(m)
    <3>1. job'[m] = [job[m] EXCEPT !.beside = TRUE]
      BY <1>1, <2>2, Zenon
    <3>2. job'[m] = [pc |-> job[m].pc, tasks |-> job[m].tasks, w |-> job[m].w,
                     since |-> job[m].since, i |-> job[m].i, j |-> job[m].j,
                     cross |-> job[m].cross, slip |-> job[m].slip, beside |-> TRUE]
      BY <2>1, <3>1, BesideIs, Zenon
    <3>3. job'[m] \in JobType
      BY <2>1, <3>2 DEF JobType, Pcs
    <3> QED BY <3>2, <3>3
  <2>3. CASE ~beside(m)
    <3>1. job'[m] = job[m]
      BY <1>1, <2>3, Zenon
    <3> QED BY <2>1, <2>3, <3>1
  <2> QED BY <2>2, <2>3
<1>4. PICK b \in BOOLEAN : b = (after \/ \E n \in Jobs : beside(n))
  OBVIOUS
<1>5. v \in Seq(Results) /\ DOMAIN v = DOMAIN s /\ \A i \in DOMAIN s : v[i] = "asks"
  BY DEF Results
<1>6. job'[k] = [pc |-> "poll", tasks |-> s, w |-> v, since |-> changed, i |-> 1, j |-> 1,
                 cross |-> FALSE, slip |-> FALSE, beside |-> b]
  <2> HIDE DEF v
  <2>1. job'[k] = [Idle EXCEPT !.pc = "poll", !.tasks = s, !.since = changed, !.w = v,
                               !.beside = b]
    BY <1>1, <1>4, Zenon
  <2>2. \A x : [Idle EXCEPT !.pc = "poll", !.tasks = s, !.since = changed, !.w = v,
                            !.beside = x] =
             [pc |-> "poll", tasks |-> s, w |-> v, since |-> changed, i |-> 1, j |-> 1,
              cross |-> FALSE, slip |-> FALSE, beside |-> x]
    BY TakenIs, Zenon
  <2> QED BY <2>1, <2>2, Zenon
<1>7. changed \in SUBSET Ips
  BY DEF ListInv, TypeOK
<1> HIDE DEF v
<1>8. job'[k] \in JobType
  BY <1>5, <1>6, <1>7 DEF JobType, Pcs
<1>9. after \/ (\E m \in Jobs \ {k} : IpsOf(m) \cap ips # {}) => b
  BY <1>4
<1>10. job' \in [Jobs -> JobType]
  <2>1. \A m \in Jobs : job'[m] \in JobType
    BY <1>3, <1>8
  <2> QED BY <1>2, <2>1
<1>11. /\ job'[k].pc = "poll" /\ job'[k].tasks = s /\ job'[k].since = changed
       /\ job'[k].w = v /\ job'[k].i = 1 /\ job'[k].j = 1 /\ ~job'[k].cross /\ ~job'[k].slip
       /\ job'[k].beside = b
  BY <1>6
<1> QED BY <1>3, <1>5, <1>8, <1>9, <1>10, <1>11

-----------------------------------------------------------------------------
(* The list. *)

LEMMA ListInvImpliesRight == ListInv => ListIsRight
<1> SUFFICES ASSUME ListInv PROVE ListIsRight
  OBVIOUS
<1>1. \A j \in DOMAIN devices : IpOf(devices[j]) = devices[j][1]
  BY Facts, AddressesAre
<1>2. ListIsLoaded
  <2> SUFFICES ASSUME ~torn
               PROVE  [j \in DOMAIN devices |-> IpOf(devices[j])]
                        = [j \in DOMAIN loaded |-> loaded[j].ip]
    BY DEF ListIsLoaded
  <2>1. DOMAIN devices = DOMAIN loaded
    BY DEF ListInv, TypeOK, LoadedOK
  <2>2. \A j \in DOMAIN devices : IpOf(devices[j]) = loaded[j].ip
    BY <1>1 DEF ListInv, ListOK
  <2> QED BY <2>1, <2>2
<1>3. NeverOlderThanLoad
  BY <1>1 DEF ListInv, OldOK, NeverOlderThanLoad
<1>4. DeviceIsInPlace
  <2> SUFFICES ASSUME ~torn, NEW j \in DOMAIN devices, NEW d, d = heap[devices[j]],
                      ~Doubled(j), loaded[j].ip \notin mixed,
                      d.old \/ [seq |-> d.seq, ip |-> d.ip] \in ToSet(loaded)
               PROVE  d.seq = loaded[j].seq
    BY Zenon DEF DeviceIsInPlace
  <2>1. j \in DOMAIN loaded
    BY DEF ListInv, TypeOK, LoadedOK
  <2>2. d.ip = loaded[j].ip /\ devices[j][1] = loaded[j].ip
    BY <1>1 DEF ListInv, ListOK, IpOf
  <2>3. ~d.old
    BY <2>2 DEF ListInv, OldOK
  <2>4. PICK i \in DOMAIN loaded : loaded[i] = [seq |-> d.seq, ip |-> d.ip]
    BY <2>3 DEF ToSet
  <2>5. loaded[i].ip = loaded[j].ip /\ loaded[i].seq = d.seq
    BY <2>2, <2>4
  <2>6. i = j
    BY <2>1, <2>5 DEF Doubled
  <2> QED BY <2>5, <2>6
<1> QED BY <1>2, <1>3, <1>4 DEF ListIsRight, ListInv

(* A step that leaves the list alone, and the objects but for their status. *)
Calm ==
    /\ TableOK' /\ HadOK' /\ left' \in LeftType
    /\ changed \subseteq changed' /\ changed' \subseteq Ips
    /\ \A ip \in Ips : had[ip] \subseteq had'[ip]
    /\ UNCHANGED <<devices, seen>>
    /\ DOMAIN heap' = Held(job', late') \cup ToSet(devices)
    /\ \A x \in DOMAIN heap' :
          /\ x \in DOMAIN heap /\ heap'[x] \in ObjType
          /\ UNCHANGED <<heap[x].seq, heap[x].ip, heap[x].old>>
          /\ heap'[x].st = TRUE => x[1] \in changed'
    /\ late' \subseteq [obj : DOMAIN heap', since : SUBSET Ips]
    /\ JobsOK'
    /\ \A k \in Jobs :
          /\ LoopOK(k)' /\ PlaceOK(k)'
          /\ job'[k].tasks = <<>> \/ UNCHANGED <<job[k].tasks, job[k].cross>>

LEMMA CalmKeeps ==
    ASSUME ListInv, Calm
    PROVE  ListInv'
<1>1. /\ UNCHANGED <<devices, loaded, mixed, torn>>
      /\ \A j \in DOMAIN devices : devices[j] \in DOMAIN heap'
  BY DEF Calm, seen, ToSet
<1>2. LoadedOK' /\ ListOK' /\ OldOK'
  <2>1. \A j \in DOMAIN devices : heap'[devices[j]].old = heap[devices[j]].old
    BY <1>1 DEF Calm
  <2>2. \A a \in DOMAIN loaded : loaded[a].ip \in Ips
    <3>1. \A a \in DOMAIN loaded : loaded[a] \in [seq : Nat, ip : Ips]
      BY ElementOf DEF ListInv, LoadedOK
    <3> QED BY <3>1
  <2>3. LoadedOK'
    BY <1>1, <2>2 DEF ListInv, LoadedOK, Calm
  <2> QED BY <1>1, <2>1, <2>3 DEF ListInv, ListOK, OldOK
<1>3. HeapOK'
  <2>1. DOMAIN heap' \in SUBSET DOMAIN heap
    BY DEF Calm
  <2>2. IsFiniteSet(DOMAIN heap')
    BY <2>1, FS_Subset DEF ListInv, HeapOK
  <2>3. ASSUME NEW x \in DOMAIN heap' PROVE ObjectOK(x)'
    <3>1. ObjectOK(x) /\ x[1] \in Ips
      BY <2>1, Facts
    <3> QED BY <3>1 DEF Calm, ObjectOK
  <2> QED BY <2>2, <2>3 DEF HeapOK
<1>4. TypeOK'
  <2>1. DOMAIN heap' \subseteq Ids /\ \A x \in DOMAIN heap' : heap'[x] \in ObjType
    BY DEF Calm, ListInv, TypeOK
  <2>2. devices' \in Seq(Ids)
    BY <1>1 DEF ListInv, TypeOK
  <2> QED BY <1>1, <2>1, <2>2 DEF Calm, TypeOK, TableOK, LoopOK, ObjType, LeftType
<1>5. \A k \in Jobs : OldTasksOK(k)'
  <2> SUFFICES ASSUME NEW k \in Jobs, NEW x \in TasksOf(k)', heap'[x].old
               PROVE  job'[k].cross \/ x[1] \in mixed'
    BY DEF OldTasksOK
  <2>1. job'[k].tasks # <<>>
    BY DEF TasksOf, ToSet
  <2>2. TasksOf(k)' = TasksOf(k) /\ job'[k].cross = job[k].cross
    BY <2>1 DEF Calm, TasksOf
  <2>3. x \in DOMAIN heap'
    BY DEF Calm, Held, TasksOf
  <2>4. heap[x].old
    BY <2>3 DEF Calm
  <2> QED BY <1>1, <2>2, <2>4 DEF ListInv, OldTasksOK
<1> QED BY <1>2, <1>3, <1>4, <1>5 DEF ListInv, Calm

LEMMA MemberOfHeld ==
    ASSUME NEW jobs, NEW ls, NEW x
    PROVE  x \in Held(jobs, ls) <=>
             (\E k \in Jobs : x \in ToSet(jobs[k].tasks)) \/ \E l \in ls : x = l.obj
<1> DEFINE P == {ToSet(jobs[k].tasks) : k \in Jobs}
           Q == {l.obj : l \in ls}
<1>1. x \in UNION P <=> \E S \in P : x \in S
  OBVIOUS
<1>2. (\E S \in P : x \in S) <=> \E k \in Jobs : x \in ToSet(jobs[k].tasks)
  OBVIOUS
<1>3. x \in Q <=> \E l \in ls : x = l.obj
  OBVIOUS
<1>4. Held(jobs, ls) = (UNION P) \cup Q
  BY Zenon DEF Held
<1> HIDE DEF P, Q
<1> QED BY <1>1, <1>2, <1>3, <1>4

LEMMA HeldIs ==
    ASSUME NEW x
    PROVE  /\ x \in Held(job, late) <=> (\E k \in Jobs : x \in TasksOf(k)) \/ \E l \in late : x = l.obj
           /\ x \in Held(job', late') <=>
                (\E k \in Jobs : x \in TasksOf(k)') \/ \E l \in late' : x = l.obj
<1>1. \A k \in Jobs : TasksOf(k) = ToSet(job[k].tasks) /\ TasksOf(k)' = ToSet(job'[k].tasks)
  BY DEF TasksOf
<1> QED BY <1>1, MemberOfHeld

(* The table is edited, or a device changes. *)
LEMMA TableKeeps ==
    ASSUME ListInv, UNCHANGED <<heap, devices, job, late, seen>>,
           TableOK', HadOK', left' \in LeftType,
           changed \subseteq changed', changed' \subseteq Ips,
           \A ip \in Ips : had[ip] \subseteq had'[ip]
    PROVE  ListInv'
<1>1. DOMAIN heap' = Held(job', late') \cup ToSet(devices)
  BY DEF ListInv, TypeOK
<1>2. ASSUME NEW x \in DOMAIN heap'
      PROVE  /\ x \in DOMAIN heap /\ heap'[x] \in ObjType
             /\ UNCHANGED <<heap[x].seq, heap[x].ip, heap[x].old>>
             /\ heap'[x].st = TRUE => x[1] \in changed'
  BY Facts DEF ObjectOK
<1>3. late' \subseteq [obj : DOMAIN heap', since : SUBSET Ips]
  BY DEF ListInv, TypeOK
<1>4. JobsOK'
  <2>1. ASSUME NEW k \in Jobs PROVE JobOK(k)'
    <3>1. JobOK(k) /\ job' = job /\ changed \subseteq changed'
      BY Facts
    <3> QED BY <3>1 DEF JobOK, Active
  <2>2. \A l \in late' : l.since \subseteq changed'
    BY DEF ListInv, JobsOK
  <2> QED BY <2>1, <2>2 DEF ListInv, JobsOK
<1>5. ASSUME NEW k \in Jobs
      PROVE  /\ LoopOK(k)' /\ PlaceOK(k)'
             /\ job'[k].tasks = <<>> \/ UNCHANGED <<job[k].tasks, job[k].cross>>
  <2>1. LoopOK(k)'
    BY Facts DEF LoopOK
  <2>2. PlaceOK(k)'
    BY DEF ListInv, PlaceOK, Current, seen
  <2> QED BY <2>1, <2>2
<1>6. Calm
  BY <1>1, <1>2, <1>3, <1>4, <1>5 DEF Calm
<1> QED BY <1>6, CalmKeeps

LEMMA SpendIs ==
    ASSUME ListInv, NEW b \in {"edits", "deletes", "changes", "faults", "polls"}, Spend(b)
    PROVE  left' \in LeftType
<1>1. left \in LeftType
  BY DEF ListInv, TypeOK, LeftType
<1>2. left[b] \in Nat
  BY <1>1 DEF LeftType
<1>3. PICK n \in Nat : n = left[b] - 1
  BY <1>2 DEF Spend
<1>4. left' = [left EXCEPT ![b] = n]
  BY <1>3 DEF Spend
<1> QED BY <1>1, <1>3, <1>4 DEF LeftType

LEMMA EditKeeps ==
    ASSUME ListInv, NEW rows \in SUBSET [seq : Nat, ip : Ips], IsFiniteSet(rows), Edit(rows),
           \A a, b \in rows : a.seq = b.seq => a = b,
           left' \in LeftType, checked' \in Seq([seq : Nat, ip : Ips])
    PROVE  ListInv'
<1>1. TableOK'
  BY DEF Edit, TableOK
<1>2. HadOK' /\ \A ip \in Ips : had[ip] \subseteq had'[ip]
  <2>1. had \in [Ips -> SUBSET Nat]
    BY DEF ListInv, HadOK
  <2>2. had' = [ip \in Ips |-> had[ip] \cup {r.seq : r \in {x \in rows : x.ip = ip}}]
    BY DEF Edit
  <2>3. \A ip \in Ips : had[ip] \subseteq had'[ip] /\ had'[ip] \subseteq Nat
    BY <2>1, <2>2
  <2>4. \A r \in rows : r.ip \in Ips /\ r.seq \in had'[r.ip]
    BY <2>2
  <2>5. had' \in [Ips -> SUBSET Nat]
    BY <2>2, <2>3
  <2> QED BY <2>3, <2>4, <2>5 DEF HadOK, Edit
<1>3. UNCHANGED <<changed, heap, devices, job, late, seen>> /\ changed \subseteq Ips
  BY DEF Edit, ListInv, TypeOK
<1> QED BY <1>1, <1>2, <1>3, TableKeeps

(* A write of DeviceController is done with the address that was looked for. *)
LEMMA CheckedIs ==
    ASSUME ListInv, NEW n \in DOMAIN checked
    PROVE  /\ checked[n] \in [seq : Nat, ip : Ips]
           /\ RemoveAt(checked, n) \in Seq([seq : Nat, ip : Ips])
<1> DEFINE T == [seq : Nat, ip : Ips]
<1>1. checked \in Seq(T)
  BY DEF ListInv, TypeOK
<1> HIDE DEF T
<1>2. checked[n] \in T /\ n \in 1..Len(checked) /\ Len(checked) \in Nat
  BY <1>1, ElementOf
<1>3. RemoveAt(checked, n) = SubSeq(checked, 1, n - 1) \o SubSeq(checked, n + 1, Len(checked))
  BY DEF RemoveAt
<1>4. SubSeq(checked, 1, n - 1) \in Seq(T) /\ SubSeq(checked, n + 1, Len(checked)) \in Seq(T)
  BY <1>1, <1>2
<1>5. RemoveAt(checked, n) \in Seq(T)
  BY <1>3, <1>4
<1> QED BY <1>2, <1>5 DEF T

(* What changes the table and the devices. *)
TableStep ==
    \/ \E q \in {0} \cup {r.seq : r \in db}, ip \in Ips : CheckIp(q, ip)
    \/ \E n \in DOMAIN checked : InsertDevice(n) \/ UpdateDevice(n)
    \/ DeleteDevice
    \/ \E ip \in Ips : Change(ip)

LEMMA TableStepKeeps ==
    ASSUME ListInv, TableStep
    PROVE  ListInv'
<1>1. /\ TableOK /\ left \in LeftType /\ changed \subseteq Ips
      /\ db \in SUBSET [seq : Nat, ip : Ips] /\ IsFiniteSet(db)
      /\ \A a, b \in db : a.seq = b.seq => a = b
  BY Facts DEF TableOK, ListInv, TypeOK, LeftType
<1>2. ASSUME NEW q \in {0} \cup {r.seq : r \in db}, NEW ip \in Ips, CheckIp(q, ip)
      PROVE  ListInv'
  <2>1. /\ Spend("edits") /\ UNCHANGED <<db, had, changed, heap, devices, job, late, seen>>
        /\ checked' = Append(checked, [seq |-> q, ip |-> ip])
    BY <1>2 DEF CheckIp
  <2>2. q \in Nat
    BY <1>1
  <2>3. [seq |-> q, ip |-> ip] \in [seq : Nat, ip : Ips]
    BY <2>2
  <2>4. checked' \in Seq([seq : Nat, ip : Ips])
    <3> DEFINE T == [seq : Nat, ip : Ips]
    <3>1. checked \in Seq(T) /\ [seq |-> q, ip |-> ip] \in T
      BY <1>1, <2>3 DEF TableOK
    <3> HIDE DEF T
    <3>2. checked' \in Seq(T)
      BY <2>1, <3>1
    <3> QED BY <3>2 DEF T
  <2>5. left' \in LeftType
    BY <2>1, SpendIs
  <2>6. TableOK' /\ HadOK'
    BY <1>1, <2>1, <2>4 DEF ListInv, TableOK, HadOK
  <2> QED BY <1>1, <2>1, <2>5, <2>6, TableKeeps
<1>3. ASSUME NEW n \in DOMAIN checked, InsertDevice(n) PROVE ListInv'
  <2> DEFINE rows == db \cup {[seq |-> NextSeq, ip |-> checked[n].ip]}
  <2>1. Edit(rows) /\ checked' = RemoveAt(checked, n) /\ left' = left
    BY <1>3 DEF InsertDevice
  <2>2. NextSeq \in Nat /\ (\A r \in db : r.seq # NextSeq) /\ checked[n].ip \in Ips
        /\ checked' \in Seq([seq : Nat, ip : Ips])
    BY <1>1, <2>1, NextSeqIs, CheckedIs
  <2>3. rows \in SUBSET [seq : Nat, ip : Ips]
    BY <1>1, <2>2
  <2>4. IsFiniteSet(rows)
    <3>1. PICK e : e = [seq |-> NextSeq, ip |-> checked[n].ip]
      OBVIOUS
    <3>2. IsFiniteSet(db \cup {e})
      BY <1>1, FS_AddElement
    <3> QED BY <3>1, <3>2
  <2>5. \A a, b \in rows : a.seq = b.seq => a = b
    BY <1>1, <2>2
  <2> HIDE DEF rows
  <2> QED BY <1>1, <2>1, <2>2, <2>3, <2>4, <2>5, EditKeeps
<1>4. ASSUME NEW n \in DOMAIN checked, UpdateDevice(n) PROVE ListInv'
  <2> DEFINE new(r) == IF r.seq = checked[n].seq THEN [r EXCEPT !.ip = checked[n].ip] ELSE r
             rows == {new(r) : r \in db}
  <2>1. Edit(rows) /\ checked' = RemoveAt(checked, n) /\ left' = left
    BY <1>4 DEF UpdateDevice
  <2>2. checked[n].ip \in Ips /\ checked' \in Seq([seq : Nat, ip : Ips])
    BY <2>1, CheckedIs
  <2>3. \A r \in db : new(r) \in [seq : Nat, ip : Ips] /\ new(r).seq = r.seq
    <3> TAKE r \in db
    <3>1. r \in [seq : Nat, ip : Ips]
      BY <1>1
    <3> QED BY <2>2, <3>1
  <2> HIDE DEF new
  <2>4. rows \in SUBSET [seq : Nat, ip : Ips]
    BY <2>3
  <2>5. \A a, b \in rows : a.seq = b.seq => a = b
    BY <1>1, <2>3
  <2>6. IsFiniteSet(rows)
    <3> DEFINE f == [r \in db |-> new(r)]
    <3>1. f \in [db -> rows] /\ \A x \in rows : \E r \in db : f[r] = x
      OBVIOUS
    <3>2. f \in Surjection(db, rows)
      BY <3>1 DEF Surjection
    <3> HIDE DEF rows, f
    <3> QED BY <1>1, <3>2, FS_Surjection
  <2> HIDE DEF rows
  <2> QED BY <1>1, <2>1, <2>2, <2>4, <2>5, <2>6, EditKeeps
<1>5. CASE DeleteDevice
  <2>1. PICK r \in db : Edit(db \ {r}) /\ Spend("deletes") /\ checked' = checked
    BY <1>5 DEF DeleteDevice
  <2>2. left' \in LeftType /\ checked' \in Seq([seq : Nat, ip : Ips])
    BY <1>1, <2>1, SpendIs DEF TableOK
  <2>3. /\ db \ {r} \in SUBSET [seq : Nat, ip : Ips] /\ IsFiniteSet(db \ {r})
        /\ \A a, b \in db \ {r} : a.seq = b.seq => a = b
    BY <1>1, FS_RemoveElement
  <2> QED BY <2>1, <2>2, <2>3, EditKeeps
<1>6. ASSUME NEW ip \in Ips, Change(ip) PROVE ListInv'
  <2>1. /\ UNCHANGED <<db, checked, had, heap, devices, job, late, seen>>
        /\ changed' = changed \cup {ip}
    BY <1>6 DEF Change, table
  <2>2. left' \in LeftType
    BY <1>6, SpendIs DEF Change
  <2>3. TableOK' /\ HadOK'
    BY <1>1, <2>1 DEF ListInv, TableOK, HadOK
  <2> QED BY <1>1, <2>1, <2>2, <2>3, TableKeeps
<1> QED BY <1>2, <1>3, <1>4, <1>5, <1>6 DEF TableStep

(* A step of one poller that keeps its tasks. *)
LEMMA PollerKeeps ==
    ASSUME ListInv, NEW k \in Jobs, UNCHANGED <<table, changed, devices, seen>>,
           left' \in LeftType,
           DOMAIN heap' = DOMAIN heap,
           \A x \in DOMAIN heap :
              /\ heap'[x] \in ObjType /\ UNCHANGED <<heap[x].seq, heap[x].ip, heap[x].old>>
              /\ heap'[x].st = TRUE => x[1] \in changed,
           job' \in [Jobs -> JobType], \A m \in Jobs \ {k} : job'[m] = job[m],
           UNCHANGED <<job[k].tasks, job[k].cross>>,
           LoopOK(k)', JobOK(k)', PlaceOK(k)',
           late \subseteq late',
           \A l \in late' : \/ l \in late
                            \/ \E x \in TasksOf(k) : l = [obj |-> x, since |-> job[k].since]
    PROVE  ListInv'
<1>1. \A m \in Jobs : TasksOf(m)' = TasksOf(m) /\ job'[m] \in JobType
                      /\ UNCHANGED <<job[m].tasks, job[m].cross>>
  BY Facts DEF TasksOf
<1>2. DOMAIN heap' = Held(job', late') \cup ToSet(devices)
  <2>1. ASSUME NEW x PROVE x \in Held(job', late') <=> x \in Held(job, late)
    <3>1. \A l \in late' : l \in late \/ l.obj \in TasksOf(k)
      OBVIOUS
    <3> QED BY <1>1, <3>1, HeldIs
  <2>2. DOMAIN heap = Held(job, late) \cup ToSet(devices)
    BY DEF ListInv, TypeOK
  <2> QED BY <2>1, <2>2
<1>3. late' \subseteq [obj : DOMAIN heap', since : SUBSET Ips]
  <2>1. late \subseteq [obj : DOMAIN heap, since : SUBSET Ips]
    BY DEF ListInv, TypeOK
  <2>2. job[k].since \in SUBSET Ips /\ TasksOf(k) \subseteq DOMAIN heap
    BY Facts DEF JobType
  <2> QED BY <2>1, <2>2
<1>4. JobsOK'
  <2>1. ASSUME NEW m \in Jobs \ {k} PROVE JobOK(m)'
    <3>1. JobOK(m) /\ job'[m] = job[m] /\ changed' = changed
      BY Facts
    <3> QED BY <3>1 DEF JobOK, Active
  <2>2. \A l \in late' : l.since \subseteq changed'
    <3>1. job[k].since \subseteq changed
      BY Facts DEF JobOK
    <3> QED BY <3>1 DEF ListInv, JobsOK
  <2> QED BY <2>1, <2>2 DEF JobsOK
<1>5. ASSUME NEW m \in Jobs PROVE LoopOK(m)' /\ PlaceOK(m)'
  <2>1. CASE m = k
    BY <2>1
  <2>2. CASE m # k
    <3>1. job'[m] = job[m] /\ LoopOK(m) /\ PlaceOK(m)
      BY <2>2, Facts DEF ListInv
    <3>2. torn' = torn /\ devices' = devices
      BY DEF seen
    <3> QED BY <3>1, <3>2 DEF LoopOK, PlaceOK, Current
  <2> QED BY <2>1, <2>2
<1>6. TableOK' /\ HadOK' /\ changed' \subseteq Ips /\ \A ip \in Ips : had[ip] \subseteq had'[ip]
  BY Facts DEF ListInv, TypeOK, TableOK, HadOK, table, LeftType
<1>7. Calm
  BY <1>1, <1>2, <1>3, <1>4, <1>5, <1>6 DEF Calm
<1> QED BY <1>7, CalmKeeps

LEMMA WorkerKeeps ==
    ASSUME ListInv, NEW k \in Jobs, NEW i \in DOMAIN job[k].w, NEW v \in Final, Worker(k, i, v),
           job[k].pc = "poll", job[k].w[i] = "asks", UNCHANGED <<changed, devices, seen>>
    PROVE  /\ LoopOK(k)' /\ JobOK(k)' /\ PlaceOK(k)'
           /\ job' \in [Jobs -> JobType] /\ \A m \in Jobs \ {k} : job'[m] = job[m]
           /\ UNCHANGED <<job[k].tasks, job[k].cross>>
<1>1. job[k] \in JobType /\ LoopOK(k) /\ JobOK(k)
  BY Facts
<1>2. /\ job' \in [Jobs -> JobType] /\ \A m \in Jobs \ {k} : job'[m] = job[m]
      /\ job'[k].pc \in {"poll", "change"}
      /\ UNCHANGED <<job[k].tasks, job[k].since, job[k].i, job[k].j, job[k].cross,
                     job[k].slip, job[k].beside>>
      /\ job'[k].w = [job[k].w EXCEPT ![i] = v]
      /\ job'[k].pc = "change" => \A m \in DOMAIN job[k].w : job'[k].w[m] \in Final
  BY WorkerIs
<1>3. DOMAIN job'[k].w = DOMAIN job[k].w
      /\ \A m \in DOMAIN job[k].w : job'[k].w[m] = IF m = i THEN v ELSE job[k].w[m]
  BY <1>2
<1>4. LoopOK(k)' /\ PlaceOK(k)'
  BY <1>1, <1>2 DEF LoopOK, PlaceOK
<1>5. JobOK(k)'
  <2>1. Active(k) /\ Active(k)'
    BY <1>2 DEF Active
  <2>2. v # "cut"
    BY DEF Final
  <2>3. \A m \in DOMAIN job'[k].w : job'[k].w[m] # "cut"
    BY <1>1, <1>3, <2>2 DEF JobOK
  <2>4. job'[k].pc = "change" => \A m \in DOMAIN job'[k].w : job'[k].w[m] # "asks"
    BY <1>2, <1>3 DEF Final
  <2>5. job'[k].pc # "set"
    BY <1>2
  <2> QED BY <1>1, <1>2, <1>3, <2>1, <2>3, <2>4, <2>5 DEF JobOK
<1> QED BY <1>2, <1>4, <1>5

LEMMA MembershipIs ==
    ASSUME NEW x, NEW S
    PROVE  \E b \in BOOLEAN : b = (x \in S)
<1>1. CASE x \in S
  <2>1. TRUE = (x \in S)
    BY <1>1, SMT
  <2> QED BY <2>1, Zenon
<1>2. CASE x \notin S
  <2>1. FALSE = (x \in S)
    BY <1>2, SMT
  <2> QED BY <2>1, Zenon
<1> QED BY <1>1, <1>2

(* A status that a device may have been in. *)
StatusOK(st, x) == st \in BOOLEAN /\ (st = TRUE => x[1] \in changed)

(* What a device says: the state it is in, or has been in since the start. *)
LEMMA ReadingIs ==
    ASSUME ListInv, NEW x \in DOMAIN heap, NEW since \in SUBSET changed, NEW st \in Readings(x, since)
    PROVE  StatusOK(st, x) /\ (x[1] \in since => st = TRUE)
<1>1. IpOf(x) = x[1]
  BY AddressesAre
<1>2. PICK a \in BOOLEAN : a = (x[1] \in since)
  BY MembershipIs, Zenon
<1>3. PICK b \in BOOLEAN : b = (x[1] \in changed)
  BY MembershipIs, Zenon
<1>4. st = a \/ st = b
  <2>1. Readings(x, since) = {(x[1] \in since), (x[1] \in changed)}
    BY <1>1, Zenon DEF Readings
  <2>2. Readings(x, since) = {a, b}
    BY <1>2, <1>3, <2>1, Zenon
  <2> QED BY <2>2
<1>5. a = TRUE <=> x[1] \in since
  BY <1>2, Zenon
<1>6. b = TRUE <=> x[1] \in changed
  BY <1>3, Zenon
<1>7. a = TRUE => b = TRUE
  BY <1>5, <1>6
<1>8. st \in BOOLEAN /\ (st = TRUE => b = TRUE) /\ (a = TRUE => st = TRUE)
  BY <1>4, <1>7
<1> QED BY <1>5, <1>6, <1>8 DEF StatusOK

(* The objects when x gets a status. *)
WithStatus(x, st) == [heap EXCEPT ![x] = [heap[x] EXCEPT !.st = st]]

LEMMA StatusIs ==
    ASSUME ListInv, NEW x \in DOMAIN heap, NEW st, StatusOK(st, x)
    PROVE  LET h == WithStatus(x, st) IN
           /\ DOMAIN h = DOMAIN heap
           /\ \A y \in DOMAIN heap :
                 /\ h[y] \in ObjType
                 /\ h[y].seq = heap[y].seq /\ h[y].ip = heap[y].ip /\ h[y].old = heap[y].old
                 /\ h[y].st = TRUE => y[1] \in changed
                 /\ y # x => h[y] = heap[y]
<1> DEFINE h == WithStatus(x, st)
<1>1. h = [heap EXCEPT ![x] = [heap[x] EXCEPT !.st = st]]
  BY DEF WithStatus
<1> HIDE DEF h
<1>2. heap[x] \in ObjType
  BY Facts
<1>3. \A b \in BOOLEAN : [heap[x] EXCEPT !.st = b] =
         [seq |-> heap[x].seq, ip |-> heap[x].ip, st |-> b, old |-> heap[x].old]
  BY <1>2 DEF ObjType
<1>4. DOMAIN h = DOMAIN heap /\ \A y \in DOMAIN heap \ {x} : h[y] = heap[y]
  BY <1>1, Zenon
<1> st \in BOOLEAN /\ (st = TRUE => x[1] \in changed)
  BY DEF StatusOK
<1>5. h[x] = [seq |-> heap[x].seq, ip |-> heap[x].ip, st |-> st, old |-> heap[x].old]
  BY <1>1, <1>3, Zenon
<1>6. /\ h[x] \in ObjType /\ h[x].st = st
      /\ h[x].seq = heap[x].seq /\ h[x].ip = heap[x].ip /\ h[x].old = heap[x].old
  BY <1>2, <1>5 DEF ObjType
<1>7. \A y \in DOMAIN heap \ {x} :
         /\ h[y] \in ObjType
         /\ h[y].seq = heap[y].seq /\ h[y].ip = heap[y].ip /\ h[y].old = heap[y].old
         /\ h[y].st = TRUE => y[1] \in changed
  BY <1>4, Facts DEF ObjectOK
<1> QED BY <1>4, <1>6, <1>7 DEF h

(* The results of a poll lie beside its tasks. *)
LEMMA FailKeeps ==
    ASSUME ListInv, NEW k \in Jobs, NEW i \in DOMAIN job[k].w, Fail(k, i)
    PROVE  ListInv'
<1>1. /\ job[k].pc = "poll" /\ job[k].w[i] = "asks" /\ Worker(k, i, "fails")
      /\ UNCHANGED <<table, changed, heap, devices, late, seen>>
      /\ left' \in LeftType
  BY SpendIs DEF Fail, ListInv, TypeOK, LeftType
<1>2. "fails" \in Final
  BY DEF Final
<1>3. /\ LoopOK(k)' /\ JobOK(k)' /\ PlaceOK(k)'
      /\ job' \in [Jobs -> JobType] /\ \A m \in Jobs \ {k} : job'[m] = job[m]
      /\ UNCHANGED <<job[k].tasks, job[k].cross>>
  BY <1>1, <1>2, WorkerKeeps
<1>4. \A x \in DOMAIN heap :
         /\ heap'[x] \in ObjType /\ UNCHANGED <<heap[x].seq, heap[x].ip, heap[x].old>>
         /\ heap'[x].st = TRUE => x[1] \in changed
  BY <1>1, Facts DEF ObjectOK
<1> QED BY <1>1, <1>3, <1>4, PollerKeeps

LEMMA AnswerKeeps ==
    ASSUME ListInv, NEW k \in Jobs, NEW i \in DOMAIN job[k].w, Answer(k, i)
    PROVE  ListInv'
<1> DEFINE x == job[k].tasks[i]
<1>1. /\ job[k].pc = "poll" /\ job[k].w[i] = "asks" /\ Worker(k, i, "done")
      /\ UNCHANGED <<table, left, changed, devices, late, seen>>
      /\ left' \in LeftType
  BY DEF Answer, ListInv, TypeOK, LeftType
<1>2. "done" \in Final
  BY DEF Final
<1>3. /\ LoopOK(k)' /\ JobOK(k)' /\ PlaceOK(k)'
      /\ job' \in [Jobs -> JobType] /\ \A m \in Jobs \ {k} : job'[m] = job[m]
      /\ UNCHANGED <<job[k].tasks, job[k].cross>>
  BY <1>1, <1>2, WorkerKeeps
<1>4. PICK st \in Readings(x, job[k].since) : heap' = WithStatus(x, st)
  BY DEF Answer, WithStatus
<1>5. x \in TasksOf(k) /\ x \in DOMAIN heap
  BY Facts DEF JobOK, TasksOf, ToSet
<1>6. StatusOK(st, x)
  <2>1. job[k].since \in SUBSET changed
    BY Facts DEF JobOK
  <2> HIDE DEF x
  <2> QED BY <1>4, <1>5, <2>1, ReadingIs
<1>7. DOMAIN heap' = DOMAIN heap /\
      \A y \in DOMAIN heap :
         /\ heap'[y] \in ObjType
         /\ heap'[y].seq = heap[y].seq /\ heap'[y].ip = heap[y].ip /\ heap'[y].old = heap[y].old
         /\ heap'[y].st = TRUE => y[1] \in changed
  <2> HIDE DEF x
  <2> QED BY <1>4, <1>5, <1>6, StatusIs
<1> QED BY <1>1, <1>3, <1>7, PollerKeeps

LEMMA TimeoutKeeps ==
    ASSUME ListInv, NEW k \in Jobs, Timeout(k)
    PROVE  ListInv'
<1> DEFINE cut == {i \in DOMAIN job[k].w : job[k].w[i] \notin Final}
<1>1. /\ job[k].pc = "poll" /\ UNCHANGED <<table, changed, heap, devices, seen>>
      /\ left' \in LeftType
  BY DEF Timeout, ListInv, TypeOK, LeftType
<1>2. /\ job' \in [Jobs -> JobType] /\ \A m \in Jobs \ {k} : job'[m] = job[m]
      /\ job'[k].pc = "change"
      /\ UNCHANGED <<job[k].tasks, job[k].since, job[k].i, job[k].j, job[k].cross,
                     job[k].slip, job[k].beside>>
      /\ DOMAIN job'[k].w = DOMAIN job[k].w
      /\ \A i \in DOMAIN job[k].w :
            job'[k].w[i] = IF job[k].w[i] \in Final THEN job[k].w[i] ELSE "cut"
  BY TimeoutIs
<1>3. PICK S \in SUBSET cut :
         late' = late \cup {[obj |-> job[k].tasks[i], since |-> job[k].since] : i \in S}
  BY DEF Timeout
<1>4. late \subseteq late' /\
      \A l \in late' : l \in late \/ \E x \in TasksOf(k) : l = [obj |-> x, since |-> job[k].since]
  <2>1. \A i \in cut : job[k].tasks[i] \in TasksOf(k)
    BY Facts DEF JobOK, TasksOf, ToSet
  <2> HIDE DEF cut
  <2> QED BY <1>3, <2>1
<1>5. LoopOK(k)' /\ PlaceOK(k)'
  BY <1>2, Facts DEF LoopOK, PlaceOK
<1>6. JobOK(k)'
  <2>1. JobOK(k)
    BY Facts
  <2>2. Active(k) /\ Active(k)'
    BY <1>1, <1>2 DEF Active
  <2>3. \A i \in DOMAIN job'[k].w : job'[k].w[i] # "asks"
    BY <1>2 DEF Final
  <2> QED BY <1>1, <1>2, <2>1, <2>2, <2>3 DEF JobOK
<1>7. \A x \in DOMAIN heap :
         /\ heap'[x] \in ObjType /\ UNCHANGED <<heap[x].seq, heap[x].ip, heap[x].old>>
         /\ heap'[x].st = TRUE => x[1] \in changed
  BY <1>1, Facts DEF ObjectOK
<1> HIDE DEF cut
<1> QED BY <1>1, <1>2, <1>4, <1>5, <1>6, <1>7, PollerKeeps

(* The entries with the address of a task, by name. *)
LEMMA PlacesAre ==
    ASSUME ListInv, NEW k \in Jobs, job[k].pc \in {"change", "set"}
    PROVE  /\ job[k].i \in DOMAIN job[k].tasks /\ job[k].i \in DOMAIN job[k].w
           /\ Current(k) \in TasksOf(k) /\ Current(k) \in DOMAIN heap
           /\ Places(k) = {j \in DOMAIN devices : devices[j][1] = Current(k)[1]}
<1>1. JobOK(k) /\ LoopOK(k)
  BY Facts
<1>2. job[k].i \in DOMAIN job[k].tasks /\ job[k].i \in DOMAIN job[k].w
  BY <1>1 DEF JobOK, LoopOK, Active
<1>3. Current(k) \in TasksOf(k) /\ Current(k) \in DOMAIN heap
  BY <1>2, Facts DEF Current, TasksOf, ToSet
<1>4. \A j \in DOMAIN devices : IpOf(devices[j]) = devices[j][1]
  BY Facts, AddressesAre
<1>5. IpOf(Current(k)) = Current(k)[1]
  BY <1>3, AddressesAre
<1> QED BY <1>2, <1>3, <1>4, <1>5 DEF Places

(* What Find leaves in j. *)
LEMMA FirstPlaceIs ==
    ASSUME ListInv, NEW k \in Jobs, job[k].pc \in {"change", "set"}, Places(k) # {}
    PROVE  /\ Min(Places(k)) \in DOMAIN devices /\ Min(Places(k)) \in Nat \ {0}
           /\ devices[Min(Places(k))][1] = Current(k)[1]
<1>1. Places(k) = {j \in DOMAIN devices : devices[j][1] = Current(k)[1]}
  BY PlacesAre
<1>2. devices \in Seq(Ids) /\ loaded \in Seq([seq : Nat, ip : Ips])
  BY DEF ListInv, TypeOK, LoadedOK
<1>3. DOMAIN devices \subseteq Nat \ {0}
  BY <1>2, ElementOf DEF ListInv, LoadedOK
<1>4. Min(Places(k)) \in Places(k)
  BY <1>1, <1>3, LeastOf
<1> QED BY <1>1, <1>3, <1>4

LEMMA FoundKeeps ==
    ASSUME ListInv, NEW k \in Jobs, Changing(k), job[k].w[job[k].i] # "fails", Places(k) # {},
           UNCHANGED <<table, left, changed, heap, devices, late, seen>>,
           job' = [job EXCEPT ![k] = [job[k] EXCEPT !.pc = "set", !.j = Min(Places(k))]]
    PROVE  ListInv'
<1>1. PICK n \in Nat : n = Min(Places(k))
  BY FirstPlaceIs DEF Changing
<1>2. n \in Nat \ {0} /\ n \in DOMAIN devices /\ devices[n][1] = Current(k)[1]
  BY <1>1, FirstPlaceIs DEF Changing
<1>3. job' = [job EXCEPT ![k] = [job[k] EXCEPT !.pc = "set", !.j = n]]
  BY <1>1, Zenon
<1>4. /\ job' \in [Jobs -> JobType] /\ \A m \in Jobs \ {k} : job'[m] = job[m]
      /\ job'[k].pc = "set" /\ job'[k].j = n
      /\ UNCHANGED <<job[k].tasks, job[k].w, job[k].since, job[k].i, job[k].cross,
                     job[k].slip, job[k].beside>>
  BY <1>3, FoundTaskIs
<1>5. JobOK(k) /\ LoopOK(k)
  BY Facts
<1>6. LoopOK(k)'
  BY <1>2, <1>4, <1>5 DEF LoopOK
<1>7. JobOK(k)'
  <2>1. Active(k) /\ Active(k)'
    BY <1>5 DEF Active, Changing
  <2> QED BY <1>4, <1>5, <2>1 DEF JobOK, Changing
<1>8. PlaceOK(k)'
  <2>1. Current(k)' = Current(k)
    BY <1>4 DEF Current
  <2> QED BY <1>2, <1>4, <2>1 DEF PlaceOK
<1>9. \A x \in DOMAIN heap :
         /\ heap'[x] \in ObjType /\ UNCHANGED <<heap[x].seq, heap[x].ip, heap[x].old>>
         /\ heap'[x].st = TRUE => x[1] \in changed
  BY Facts DEF ObjectOK
<1>10. left' \in LeftType /\ DOMAIN heap' = DOMAIN heap
       /\ late \subseteq late' /\ \A l \in late' : l \in late
  BY DEF ListInv, TypeOK, LeftType
<1> QED BY <1>4, <1>6, <1>7, <1>8, <1>9, <1>10, PollerKeeps

(* The collector keeps what is referred to, as it is. *)
LEMMA OnlyIs ==
    ASSUME NEW h, NEW ids, ids \subseteq DOMAIN h
    PROVE  DOMAIN Only(h, ids) = ids /\ \A x \in ids : Only(h, ids)[x] = h[x]
<1>1. Only(h, ids) = [x \in ids \cap DOMAIN h |-> h[x]]
  BY Zenon DEF Only, Restrict
<1>2. ids \cap DOMAIN h = ids
  OBVIOUS
<1> QED BY <1>1, <1>2

(* What the end of one turn of the loop leaves, whatever was put in the list. *)
LEMMA NextTaskKeeps ==
    ASSUME ListInv, NEW k \in Jobs, job[k].pc \in {"change", "set"}, NextTask(k),
           UNCHANGED <<changed, late>>,
           ToSet(devices') \subseteq ToSet(devices) \cup TasksOf(k)
    PROVE  /\ JobsOK' /\ \A m \in Jobs : LoopOK(m)' /\ job'[k].pc # "set"
           /\ \A m \in Jobs : job'[m].tasks = <<>> \/ UNCHANGED <<job[m].tasks, job[m].cross>>
           /\ DOMAIN heap' = Held(job', late') \cup ToSet(devices')
           /\ \A x \in DOMAIN heap' : x \in DOMAIN heap /\ heap'[x] = heap[x]
           /\ late' \subseteq [obj : DOMAIN heap', since : SUBSET Ips]
<1>1. /\ job' \in [Jobs -> JobType] /\ \A m \in Jobs \ {k} : job'[m] = job[m]
      /\ \/ /\ job'[k].pc \in {"idle", "over"} /\ job'[k].tasks = <<>> /\ job'[k].w = <<>>
            /\ job'[k].since = {} /\ job'[k].j = 1 /\ ~job'[k].slip /\ ~job'[k].cross
         \/ /\ job'[k].pc = "change" /\ ~job'[k].slip
            /\ UNCHANGED <<job[k].tasks, job[k].w, job[k].since, job[k].j, job[k].cross,
                           job[k].beside>>
            /\ job'[k].i = job[k].i + 1 /\ job'[k].i \in DOMAIN job[k].tasks
  BY NextTaskIs
<1>2. JobOK(k) /\ LoopOK(k)
  BY Facts
<1>3. JobOK(k)' /\ LoopOK(k)' /\ job'[k].pc # "set"
  <2>1. CASE /\ job'[k].pc \in {"idle", "over"} /\ job'[k].tasks = <<>> /\ job'[k].w = <<>>
             /\ job'[k].since = {} /\ job'[k].j = 1 /\ ~job'[k].slip /\ ~job'[k].cross
    <3>2. LoopOK(k)'
      BY <2>1 DEF LoopOK
    <3>3. DOMAIN job'[k].w = DOMAIN job'[k].tasks
      BY <2>1
    <3>4. ~Active(k)'
      BY <2>1 DEF Active
    <3> QED BY <2>1, <3>2, <3>3, <3>4 DEF JobOK
  <2>2. CASE /\ job'[k].pc = "change" /\ ~job'[k].slip
             /\ UNCHANGED <<job[k].tasks, job[k].w, job[k].since, job[k].j, job[k].cross,
                            job[k].beside>>
             /\ job'[k].i = job[k].i + 1 /\ job'[k].i \in DOMAIN job[k].tasks
    <3>1. LoopOK(k)'
      BY <1>2, <2>2 DEF LoopOK
    <3>2. Active(k) /\ Active(k)'
      BY <2>2 DEF Active
    <3> QED BY <1>2, <2>2, <3>1, <3>2 DEF JobOK
  <2> QED BY <1>1, <2>1, <2>2
<1>4. ASSUME NEW m \in Jobs
      PROVE  /\ JobOK(m)' /\ LoopOK(m)'
             /\ job'[m].tasks = <<>> \/ UNCHANGED <<job[m].tasks, job[m].cross>>
  <2>1. CASE m = k
    BY <1>1, <1>3, <2>1
  <2>2. CASE m # k
    <3>1. job'[m] = job[m] /\ JobOK(m) /\ LoopOK(m) /\ changed' = changed
      BY <1>1, <2>2, Facts
    <3> QED BY <3>1 DEF JobOK, LoopOK, Active
  <2> QED BY <2>1, <2>2
<1>5. JobsOK'
  BY <1>1, <1>4 DEF ListInv, JobsOK
<1> DEFINE ids == Held(job', late) \cup ToSet(devices')
<1>6. heap' = Only(heap, ids)
  BY DEF NextTask
<1>7. \A m \in Jobs : TasksOf(m)' \subseteq TasksOf(m)
  BY <1>4 DEF TasksOf, ToSet
<1>8. ids \subseteq DOMAIN heap
  <2>1. ASSUME NEW x \in Held(job', late') PROVE x \in DOMAIN heap
    BY <1>7, HeldIs DEF ListInv, TypeOK
  <2>2. ToSet(devices') \subseteq DOMAIN heap
    BY Facts DEF ListInv, TypeOK
  <2> QED BY <2>1, <2>2
<1>9. DOMAIN heap' = ids /\ \A x \in ids : heap'[x] = heap[x]
  <2> HIDE DEF ids
  <2> QED BY <1>6, <1>8, OnlyIs
<1>10. late' \subseteq [obj : DOMAIN heap', since : SUBSET Ips]
  <2>1. \A l \in late : l.obj \in ids
    BY HeldIs
  <2>2. late \subseteq [obj : DOMAIN heap, since : SUBSET Ips]
    BY DEF ListInv, TypeOK
  <2> HIDE DEF ids
  <2> QED BY <1>9, <2>1, <2>2
<1> QED BY <1>3, <1>4, <1>5, <1>8, <1>9, <1>10

LEMMA SkipKeeps ==
    ASSUME ListInv, NEW k \in Jobs, job[k].pc \in {"change", "set"}, NextTask(k),
           UNCHANGED <<table, left, changed, devices, late, seen>>
    PROVE  ListInv'
<1>1. job[k].pc \in {"change", "set"} /\ ToSet(devices') \subseteq ToSet(devices) \cup TasksOf(k)
  OBVIOUS
<1>2. /\ JobsOK' /\ \A m \in Jobs : LoopOK(m)' /\ job'[k].pc # "set"
      /\ \A m \in Jobs : job'[m].tasks = <<>> \/ UNCHANGED <<job[m].tasks, job[m].cross>>
      /\ DOMAIN heap' = Held(job', late') \cup ToSet(devices')
      /\ \A x \in DOMAIN heap' : x \in DOMAIN heap /\ heap'[x] = heap[x]
      /\ late' \subseteq [obj : DOMAIN heap', since : SUBSET Ips]
  BY <1>1, NextTaskKeeps
<1>3. \A m \in Jobs : PlaceOK(m)'
  <2>1. \A m \in Jobs \ {k} : job'[m] = job[m]
    BY <1>1, NextTaskIs
  <2> QED BY <1>2, <2>1 DEF PlaceOK, Current, ListInv, seen
<1>4. \A x \in DOMAIN heap' :
         /\ x \in DOMAIN heap /\ heap'[x] \in ObjType
         /\ UNCHANGED <<heap[x].seq, heap[x].ip, heap[x].old>>
         /\ heap'[x].st = TRUE => x[1] \in changed'
  BY <1>2, Facts DEF ObjectOK
<1>5. /\ TableOK' /\ HadOK' /\ changed' \subseteq Ips
      /\ left' \in LeftType
      /\ \A ip \in Ips : had[ip] \subseteq had'[ip]
  BY Facts DEF ListInv, TypeOK, TableOK, HadOK, table, LeftType
<1>6. Calm
  BY <1>2, <1>3, <1>4, <1>5 DEF Calm
<1> QED BY <1>6, CalmKeeps

LEMMA LateKeeps ==
    ASSUME ListInv, NEW l \in late, LateAnswer(l) \/ LateDies(l)
    PROVE  ListInv'
<1> DEFINE ids == Held(job, late') \cup ToSet(devices)
<1>1. late' = late \ {l} /\ UNCHANGED <<table, left, changed, devices, job, seen>>
  BY DEF LateAnswer, LateDies
<1>2. PICK h : /\ heap' = Only(h, ids) /\ DOMAIN h = DOMAIN heap
               /\ \A x \in DOMAIN heap :
                     /\ h[x] \in ObjType
                     /\ h[x].seq = heap[x].seq /\ h[x].ip = heap[x].ip /\ h[x].old = heap[x].old
                     /\ h[x].st = TRUE => x[1] \in changed
  <2>1. CASE LateDies(l)
    <3>1. \A x \in DOMAIN heap : heap[x] \in ObjType /\ (heap[x].st = TRUE => x[1] \in changed)
      BY Facts DEF ObjectOK
    <3> QED BY <2>1, <3>1 DEF LateDies
  <2>2. CASE LateAnswer(l)
    <3>1. PICK st \in Readings(l.obj, l.since) :
             heap' = Only(WithStatus(l.obj, st), ids)
      BY <2>2 DEF LateAnswer, WithStatus
    <3>2. l.obj \in DOMAIN heap /\ l.since \in SUBSET changed
      BY Facts DEF ListInv, JobsOK
    <3>3. StatusOK(st, l.obj)
      BY <3>2, ReadingIs
    <3> DEFINE h == WithStatus(l.obj, st)
    <3>4. /\ DOMAIN h = DOMAIN heap
          /\ \A x \in DOMAIN heap :
                /\ h[x] \in ObjType
                /\ h[x].seq = heap[x].seq /\ h[x].ip = heap[x].ip /\ h[x].old = heap[x].old
                /\ h[x].st = TRUE => x[1] \in changed
      BY <3>2, <3>3, StatusIs
    <3> HIDE DEF h
    <3>5. heap' = Only(h, ids)
      BY <3>1 DEF h
    <3> QED BY <3>4, <3>5
  <2> QED BY <2>1, <2>2
<1>3. ids \subseteq DOMAIN heap
  <2>1. ASSUME NEW x \in Held(job', late') PROVE x \in DOMAIN heap
    <3>1. late' \subseteq late /\ \A k \in Jobs : TasksOf(k)' = TasksOf(k)
      BY <1>1 DEF TasksOf
    <3>2. x \in Held(job, late)
      BY <3>1, HeldIs
    <3> QED BY <3>2 DEF ListInv, TypeOK
  <2>2. Held(job', late') = Held(job, late')
    BY <1>1
  <2>3. ToSet(devices) \subseteq DOMAIN heap
    BY DEF ListInv, TypeOK
  <2> QED BY <2>1, <2>2, <2>3
<1>4. DOMAIN heap' = ids /\ \A x \in ids : heap'[x] = h[x]
  <2> HIDE DEF ids
  <2> QED BY <1>2, <1>3, OnlyIs
<1>5. DOMAIN heap' = Held(job', late') \cup ToSet(devices)
  BY <1>1, <1>4
<1>6. \A x \in DOMAIN heap' :
         /\ x \in DOMAIN heap /\ heap'[x] \in ObjType
         /\ UNCHANGED <<heap[x].seq, heap[x].ip, heap[x].old>>
         /\ heap'[x].st = TRUE => x[1] \in changed'
  <2> HIDE DEF ids
  <2> QED BY <1>1, <1>2, <1>3, <1>4
<1>7. late' \subseteq [obj : DOMAIN heap', since : SUBSET Ips]
  <2>1. \A m \in late' : m.obj \in DOMAIN heap'
    BY <1>5, HeldIs
  <2>2. late \subseteq [obj : DOMAIN heap, since : SUBSET Ips]
    BY DEF ListInv, TypeOK
  <2> QED BY <1>1, <2>1, <2>2
<1>8. JobsOK'
  <2>1. ASSUME NEW k \in Jobs PROVE JobOK(k)'
    <3>1. JobOK(k) /\ job' = job /\ changed' = changed
      BY <1>1, Facts
    <3> QED BY <3>1 DEF JobOK, Active
  <2> QED BY <1>1, <2>1 DEF ListInv, JobsOK
<1>9. \A k \in Jobs : /\ LoopOK(k)' /\ PlaceOK(k)'
                      /\ job'[k].tasks = <<>> \/ UNCHANGED <<job[k].tasks, job[k].cross>>
  <2>1. \A k \in Jobs : LoopOK(k) /\ PlaceOK(k)
    BY Facts DEF ListInv
  <2>2. job' = job /\ devices' = devices /\ torn' = torn
    BY <1>1 DEF seen
  <2> QED BY <2>1, <2>2 DEF LoopOK, PlaceOK, Current
<1>10. /\ TableOK' /\ HadOK' /\ changed \subseteq changed' /\ changed' \subseteq Ips
       /\ left' \in LeftType
       /\ \A ip \in Ips : had[ip] \subseteq had'[ip]
  BY <1>1, Facts DEF ListInv, TypeOK, TableOK, HadOK, table, LeftType
<1>11. Calm
  BY <1>1, <1>5, <1>6, <1>7, <1>8, <1>9, <1>10 DEF Calm
<1> QED BY <1>11, CalmKeeps

(* What devices.set does to the list. *)
LEMMA SetIs ==
    ASSUME ListInv, NEW k \in Jobs, job[k].pc = "set", job[k].j <= Len(devices),
           devices' = [devices EXCEPT ![job[k].j] = Current(k)]
    PROVE  /\ Current(k) \in TasksOf(k) /\ job[k].j \in DOMAIN devices
           /\ DOMAIN devices' = DOMAIN devices /\ devices'[job[k].j] = Current(k)
           /\ \A i \in DOMAIN devices \ {job[k].j} : devices'[i] = devices[i]
           /\ ToSet(devices') \subseteq ToSet(devices) \cup {Current(k)}
           /\ ~job[k].slip /\ ~torn => devices[job[k].j][1] = Current(k)[1]
<1>1. PICK c, n : c = Current(k) /\ n = job[k].j
  OBVIOUS
<1>2. c \in TasksOf(k)
  BY <1>1, PlacesAre
<1>3. n \in DOMAIN devices
  <2>1. n \in Nat \ {0}
    BY <1>1, Facts DEF LoopOK
  <2>2. DOMAIN devices = 1..Len(devices) /\ Len(devices) \in Nat
    BY ElementOf DEF ListInv, TypeOK
  <2> QED BY <1>1, <2>1, <2>2
<1>4. /\ DOMAIN devices' = DOMAIN devices /\ devices'[n] = c
      /\ \A i \in DOMAIN devices \ {n} : devices'[i] = devices[i]
  BY <1>1, <1>3, Zenon
<1>5. ToSet(devices') \subseteq ToSet(devices) \cup {c}
  BY <1>4 DEF ToSet
<1>6. ~job[k].slip /\ ~torn => devices[n][1] = c[1]
  BY <1>1 DEF ListInv, PlaceOK
<1> QED BY <1>1, <1>2, <1>3, <1>4, <1>5, <1>6

(* A step that keeps the objects there are, and puts others of the same      *)
(* addresses into the list at most, unless torn.                             *)
LEMMA SetKeeps ==
    ASSUME ListInv, NEW k \in Jobs, job[k].pc = "set", NextTask(k),
           UNCHANGED <<table, left, changed, late, loaded>>,
           job[k].j <= Len(devices),
           devices' = [devices EXCEPT ![job[k].j] = Current(k)],
           mixed' = IF job[k].cross THEN mixed \cup {IpOf(Current(k))} ELSE mixed,
           torn' = (torn \/ job[k].slip)
    PROVE  ListInv'
<1> DEFINE c == Current(k)
           n == job[k].j
<1>1. c \in TasksOf(k) /\ c \in DOMAIN heap /\ IpOf(c) = c[1] /\ c \in Ids
  BY PlacesAre, AddressesAre, Facts
<1>2. devices \in Seq(Ids) /\ n \in DOMAIN devices
  BY SetIs DEF ListInv, TypeOK
<1>3. /\ devices' \in Seq(Ids) /\ DOMAIN devices' = DOMAIN devices /\ Len(devices') = Len(devices)
      /\ devices'[n] = c /\ \A i \in DOMAIN devices \ {n} : devices'[i] = devices[i]
  <2> HIDE DEF c, n
  <2>1. devices' = [devices EXCEPT ![n] = c]
    BY DEF c, n
  <2>2. c \in Ids /\ devices \in Seq(Ids) /\ n \in DOMAIN devices
    BY <1>1, <1>2
  <2>3. devices' \in Seq(Ids) /\ Len(devices') = Len(devices)
    <3>1. [devices EXCEPT ![n] = c] \in Seq(Ids)
          /\ Len([devices EXCEPT ![n] = c]) = Len(devices)
      BY <2>2, PutIs
    <3> QED BY <2>1, <3>1
  <2>4. /\ DOMAIN devices' = DOMAIN devices /\ devices'[n] = c
        /\ \A i \in DOMAIN devices \ {n} : devices'[i] = devices[i]
    BY <2>1, <2>2, Zenon
  <2> QED BY <2>3, <2>4
<1>4. ToSet(devices') \subseteq ToSet(devices) \cup TasksOf(k)
  <2> HIDE DEF c, n
  <2> QED BY <1>1, <1>3 DEF ToSet
<1>5. /\ JobsOK' /\ \A m \in Jobs : LoopOK(m)' /\ job'[k].pc # "set"
      /\ \A m \in Jobs : job'[m].tasks = <<>> \/ UNCHANGED <<job[m].tasks, job[m].cross>>
      /\ DOMAIN heap' = Held(job', late') \cup ToSet(devices')
      /\ \A x \in DOMAIN heap' : x \in DOMAIN heap /\ heap'[x] = heap[x]
      /\ late' \subseteq [obj : DOMAIN heap', since : SUBSET Ips]
  BY <1>4, NextTaskKeeps
<1>6. ASSUME ~torn'
      PROVE  ~torn /\ \A i \in DOMAIN devices : devices'[i][1] = devices[i][1]
  <2>1. ~torn /\ ~job[k].slip
    BY <1>6
  <2>2. devices[n][1] = c[1]
    BY <2>1 DEF ListInv, PlaceOK
  <2> HIDE DEF c, n
  <2> QED BY <1>3, <2>1, <2>2
<1>7. mixed \subseteq mixed' /\ (job[k].cross => c[1] \in mixed')
  BY <1>1
<1>8. LoadedOK' /\ ListOK'
  <2>1. LoadedOK'
    BY <1>3 DEF ListInv, LoadedOK, table
  <2>2. ~torn' => \A i \in DOMAIN devices' : devices'[i][1] = loaded'[i].ip
    BY <1>3, <1>6 DEF ListInv, ListOK
  <2> QED BY <2>1, <2>2 DEF ListOK
<1>9. OldOK'
  <2> SUFFICES ASSUME NEW i \in DOMAIN devices', heap'[devices'[i]].old
               PROVE  devices'[i][1] \in mixed'
    BY DEF OldOK
  <2>1. devices'[i] \in DOMAIN heap'
    BY <1>5 DEF ToSet
  <2>2. heap[devices'[i]].old
    BY <1>5, <2>1
  <2>3. CASE i = n
    <3>1. heap[c].old /\ OldTasksOK(k)
      BY <1>3, <2>2, <2>3 DEF ListInv
    <3>2. job[k].cross \/ c[1] \in mixed
      BY <1>1, <3>1 DEF OldTasksOK
    <3> HIDE DEF c, n
    <3> QED BY <1>3, <1>7, <2>3, <3>2
  <2>4. CASE i # n
    <3> HIDE DEF c, n
    <3>1. i \in DOMAIN devices /\ devices'[i] = devices[i]
      BY <1>3, <2>4
    <3> QED BY <1>7, <2>2, <3>1 DEF ListInv, OldOK
  <2> QED BY <2>3, <2>4
<1>10. HeapOK'
  <2>1. IsFiniteSet(DOMAIN heap')
    <3>1. DOMAIN heap' \in SUBSET DOMAIN heap
      BY <1>5
    <3> QED BY <3>1, FS_Subset DEF ListInv, HeapOK
  <2>2. ASSUME NEW x \in DOMAIN heap' PROVE ObjectOK(x)'
    <3>1. ObjectOK(x) /\ heap'[x] = heap[x] /\ had' = had /\ changed' = changed
      BY <1>5, Facts DEF table
    <3> QED BY <3>1 DEF ObjectOK
  <2> QED BY <2>1, <2>2 DEF HeapOK
<1>11. ASSUME NEW m \in Jobs PROVE PlaceOK(m)' /\ OldTasksOK(m)'
  <2>1. PlaceOK(m)'
    <3>1. CASE m = k
      BY <1>5, <3>1 DEF PlaceOK
    <3>2. CASE m # k
      <4>1. job'[m] = job[m] /\ PlaceOK(m) /\ Current(m)' = Current(m)
        BY <3>2, NextTaskIs DEF ListInv, Current
      <4> QED BY <1>3, <1>6, <4>1 DEF PlaceOK
    <3> QED BY <3>1, <3>2
  <2>2. OldTasksOK(m)'
    <3> SUFFICES ASSUME NEW x \in TasksOf(m)', heap'[x].old
                 PROVE  job'[m].cross \/ x[1] \in mixed'
      BY DEF OldTasksOK
    <3>1. job'[m].tasks # <<>>
      BY DEF TasksOf, ToSet
    <3>2. TasksOf(m)' = TasksOf(m) /\ job'[m].cross = job[m].cross
      BY <1>5, <3>1 DEF TasksOf
    <3>3. x \in DOMAIN heap'
      BY <1>5, HeldIs
    <3>4. heap[x].old
      BY <1>5, <3>3
    <3> QED BY <1>7, <3>2, <3>4 DEF ListInv, OldTasksOK
  <2> QED BY <2>1, <2>2
<1>12. TypeOK'
  <2>1. DOMAIN heap' \subseteq Ids /\ \A x \in DOMAIN heap' : heap'[x] \in ObjType
    BY <1>5, Facts
  <2>2. UNCHANGED <<db, checked, left, changed>>
    BY DEF table
  <2>3. \A m \in Jobs : /\ job'[m].j \in Nat \ {0}
                        /\ job'[m].tasks # <<>> => job'[m].i \in DOMAIN job'[m].tasks
    BY <1>5 DEF LoopOK
  <2> QED BY <1>3, <1>5, <2>1, <2>2, <2>3 DEF ListInv, TypeOK, ObjType
<1>13. HadOK'
  BY DEF ListInv, HadOK, table
<1> QED BY <1>5, <1>8, <1>9, <1>10, <1>11, <1>12, <1>13 DEF ListInv

(* statusChange, one step of it. *)
LEMMA StatusChangeKeeps ==
    ASSUME ListInv, NEW k \in Jobs, StatusChange(k)
    PROVE  ListInv'
<1>1. CASE SkipFailed(k)
  BY <1>1, SkipKeeps DEF SkipFailed, Changing
<1>2. CASE Find(k)
  <2>1. Changing(k) /\ UNCHANGED <<table, left, changed, devices, late, seen>>
    BY <1>2 DEF Find
  <2>2. CASE Places(k) = {} /\ NextTask(k)
    BY <2>1, <2>2, SkipKeeps DEF Changing
  <2>3. CASE /\ Places(k) # {}
             /\ job' = [job EXCEPT ![k] =
                   [job[k] EXCEPT !.pc = "set", !.j = Min(Places(k))]]
             /\ UNCHANGED heap
    <3>1. job[k].w[job[k].i] # "fails"
      BY <1>2 DEF Find
    <3> QED BY <2>1, <2>3, <3>1, FoundKeeps
  <2> QED BY <1>2, <2>2, <2>3 DEF Find
<1>3. CASE Set(k)
  <2>1. job[k].pc = "set" /\ NextTask(k) /\ UNCHANGED <<table, left, changed, late>>
    BY <1>3 DEF Set
  <2>2. CASE job[k].j > Len(devices) /\ UNCHANGED <<devices, seen>>
    BY <2>1, <2>2, SkipKeeps
  <2>3. CASE /\ job[k].j <= Len(devices)
             /\ devices' = [devices EXCEPT ![job[k].j] = Current(k)]
             /\ mixed' = IF job[k].cross THEN mixed \cup {IpOf(Current(k))} ELSE mixed
             /\ torn' = (torn \/ job[k].slip)
             /\ UNCHANGED loaded
    BY <2>1, <2>3, SetKeeps
  <2> QED BY <1>3, <2>2, <2>3 DEF Set
<1> QED BY <1>1, <1>2, <1>3 DEF StatusChange

(* A poll begins, with objects of the list or one loaded for it. *)
LEMMA TakeKeeps ==
    ASSUME ListInv, NEW k \in Jobs, job[k].pc = "idle", NEW s \in Seq(Ids), s # <<>>,
           NEW ips, Take(k, s, ips), k \in Web => DOMAIN s = {1},
           UNCHANGED <<table, changed, devices, late, seen>>, left' \in LeftType,
           IsFiniteSet(DOMAIN heap'), DOMAIN heap' = DOMAIN heap \cup ToSet(s),
           \A x \in DOMAIN heap : heap'[x] = heap[x],
           \A x \in DOMAIN heap' : heap'[x] \in ObjType /\ ObjectOK(x)',
           \A x \in ToSet(s) : heap'[x].old => x[1] \in mixed
    PROVE  ListInv'
<1>1. /\ job' \in [Jobs -> JobType]
      /\ \A m \in Jobs \ {k} :
            UNCHANGED <<job[m].pc, job[m].tasks, job[m].w, job[m].since, job[m].i,
                        job[m].j, job[m].cross, job[m].slip>>
      /\ job'[k].pc = "poll" /\ job'[k].tasks = s /\ job'[k].since = changed
      /\ DOMAIN job'[k].w = DOMAIN s /\ \A i \in DOMAIN s : job'[k].w[i] = "asks"
      /\ job'[k].i = 1 /\ job'[k].j = 1 /\ ~job'[k].cross /\ ~job'[k].slip
  BY TakeIs
<1>2. \A m \in Jobs : LoopOK(m) /\ JobOK(m) /\ PlaceOK(m) /\ OldTasksOK(m)
  BY Facts DEF ListInv
<1>3. UNCHANGED <<db, checked, changed, devices, late, loaded, mixed, torn, had>>
  BY DEF table, seen
<1>4. TasksOf(k) = {} /\ TasksOf(k)' = ToSet(s) /\ \A m \in Jobs \ {k} : TasksOf(m)' = TasksOf(m)
  <2>1. job[k].tasks = <<>>
    BY <1>2 DEF JobOK, Active
  <2> QED BY <1>1, <2>1 DEF TasksOf, ToSet
<1>5. ToSet(s) \subseteq Ids /\ DOMAIN s = 1..Len(s) /\ Len(s) \in Nat /\ 1 \in DOMAIN s
  <2>1. DOMAIN s = 1..Len(s) /\ Len(s) \in Nat /\ \A i \in DOMAIN s : s[i] \in Ids
    BY ElementOf
  <2>2. Len(s) # 0
    OBVIOUS
  <2> QED BY <2>1, <2>2 DEF ToSet
<1>6. DOMAIN heap' = Held(job', late') \cup ToSet(devices')
  <2>1. ASSUME NEW x PROVE x \in Held(job', late') <=> x \in Held(job, late) \/ x \in ToSet(s)
    BY <1>3, <1>4, HeldIs
  <2>2. DOMAIN heap = Held(job, late) \cup ToSet(devices)
    BY DEF ListInv, TypeOK
  <2> QED BY <1>3, <2>1, <2>2
<1>7. ASSUME NEW m \in Jobs PROVE JobOK(m)' /\ LoopOK(m)' /\ PlaceOK(m)' /\ OldTasksOK(m)'
  <2>1. CASE m = k
    <3>1. LoopOK(k)'
      BY <1>1, <1>5 DEF LoopOK
    <3>2. Active(k)'
      BY <1>1 DEF Active
    <3>3. JobOK(k)'
      BY <1>1, <1>3, <3>2 DEF JobOK
    <3>4. PlaceOK(k)' /\ OldTasksOK(k)'
      BY <1>1, <1>3, <1>4 DEF PlaceOK, OldTasksOK
    <3> QED BY <2>1, <3>1, <3>3, <3>4
  <2>2. CASE m # k
    <3>1. JobOK(m)' /\ LoopOK(m)'
      BY <1>1, <1>2, <1>3, <2>2 DEF JobOK, LoopOK, Active
    <3>2. PlaceOK(m)'
      BY <1>1, <1>2, <1>3, <2>2 DEF PlaceOK, Current
    <3>3. OldTasksOK(m)'
      <4>1. \A x \in TasksOf(m) : heap'[x] = heap[x]
        BY Facts
      <4> QED BY <1>1, <1>2, <1>3, <1>4, <2>2, <4>1 DEF OldTasksOK
    <3> QED BY <3>1, <3>2, <3>3
  <2> QED BY <2>1, <2>2
<1>8. JobsOK'
  BY <1>1, <1>3, <1>7 DEF JobsOK, ListInv
<1>9. TypeOK'
  <2>1. DOMAIN heap' \subseteq Ids
    BY <1>5, Facts
  <2>2. late' \subseteq [obj : DOMAIN heap', since : SUBSET Ips]
    <3>1. late \subseteq [obj : DOMAIN heap, since : SUBSET Ips] /\ DOMAIN heap \subseteq DOMAIN heap'
      BY DEF ListInv, TypeOK
    <3> QED BY <1>3, <3>1
  <2>3. \A m \in Jobs : /\ job'[m].j \in Nat \ {0}
                        /\ job'[m].tasks # <<>> => job'[m].i \in DOMAIN job'[m].tasks
    BY <1>7 DEF LoopOK
  <2> QED BY <1>3, <1>6, <2>1, <2>2, <2>3 DEF ListInv, TypeOK, ObjType, LeftType
<1>10. LoadedOK' /\ ListOK' /\ HadOK' /\ HeapOK'
  BY <1>3 DEF ListInv, LoadedOK, ListOK, HadOK, HeapOK
<1>11. OldOK'
  <2>1. \A j \in DOMAIN devices : heap'[devices[j]] = heap[devices[j]]
    BY Facts
  <2> QED BY <1>3, <2>1 DEF ListInv, OldOK
<1> QED BY <1>7, <1>8, <1>9, <1>10, <1>11 DEF ListInv

LEMMA CollectKeeps == ASSUME ListInv, Collect PROVE ListInv'
<1> DEFINE ips == {IpOf(devices[i]) : i \in DOMAIN devices}
<1>1. /\ job[Scheduled].pc = "idle" /\ devices # <<>> /\ Take(Scheduled, devices, ips)
      /\ UNCHANGED <<table, left, changed, heap, devices, late, seen>>
  BY DEF Collect
<1>2. Scheduled \in Jobs /\ Scheduled \notin Web /\ devices \in Seq(Ids) /\ left' \in LeftType
  BY <1>1, SnmpConstants DEF Jobs, ListInv, TypeOK, LeftType
<1>3. /\ IsFiniteSet(DOMAIN heap') /\ DOMAIN heap' = DOMAIN heap \cup ToSet(devices)
      /\ \A x \in DOMAIN heap : heap'[x] = heap[x]
  BY <1>1 DEF ListInv, HeapOK, TypeOK
<1>4. \A x \in DOMAIN heap' : heap'[x] \in ObjType /\ ObjectOK(x)'
  BY <1>1, Facts DEF ObjectOK, table
<1>5. \A x \in ToSet(devices) : heap'[x].old => x[1] \in mixed
  BY <1>1 DEF ListInv, OldOK, ToSet
<1> HIDE DEF ips
<1> QED BY <1>1, <1>2, <1>3, <1>4, <1>5, TakeKeeps

LEMMA GetDeviceInfoKeeps ==
    ASSUME ListInv, NEW k \in Web, NEW r \in db, GetDeviceInfo(k, r)
    PROVE  ListInv'
<1>0. PICK x : x = Fresh(r, DOMAIN heap)
  OBVIOUS
<1>1. /\ job[k].pc = "idle" /\ Take(k, <<x>>, {r.ip})
      /\ heap' = [y \in DOMAIN heap \cup {x} |-> IF y = x THEN Object(r) ELSE heap[y]]
      /\ UNCHANGED <<table, changed, devices, late, seen>> /\ left' \in LeftType
  BY <1>0, SpendIs DEF GetDeviceInfo
<1>2. k \in Jobs /\ r \in [seq : Nat, ip : Ips] /\ r.seq \in had[r.ip]
  BY Facts DEF Jobs, TableOK, ListInv, HadOK
<1>3. x \in Ids /\ x \notin DOMAIN heap /\ x[1] = r.ip
  BY <1>0, <1>2, FreshIs DEF ListInv, HeapOK
<1>4. /\ DOMAIN heap' = DOMAIN heap \cup {x} /\ heap'[x] = Object(r)
      /\ \A y \in DOMAIN heap : heap'[y] = heap[y]
  BY <1>1, <1>3
<1>5. IsFiniteSet(DOMAIN heap')
  BY <1>4, FS_AddElement DEF ListInv, HeapOK
<1>6. heap'[x] \in ObjType /\ ObjectOK(x)' /\ ~heap'[x].old
  <2>1. heap'[x] = [seq |-> r.seq, ip |-> r.ip, st |-> None, old |-> FALSE]
    BY <1>4 DEF Object
  <2>2. None # TRUE
    BY SnmpConstants
  <2>3. had' = had
    BY <1>1 DEF table
  <2>4. heap'[x] \in ObjType /\ ~heap'[x].old
    BY <1>2, <2>1 DEF ObjType
  <2>5. heap'[x].st = None /\ heap'[x].ip = x[1] /\ heap'[x].seq \in had'[x[1]]
    BY <1>2, <1>3, <2>1, <2>3
  <2>6. ObjectOK(x)'
    <3>1. heap'[x].st # TRUE
      BY <2>2, <2>5, Zenon
    <3> QED BY <2>5, <3>1 DEF ObjectOK
  <2> QED BY <2>4, <2>6
<1>7. \A y \in DOMAIN heap : heap'[y] \in ObjType /\ ObjectOK(y)'
  <2>1. \A y \in DOMAIN heap : heap[y] \in ObjType /\ ObjectOK(y)
    BY Facts
  <2> QED BY <1>1, <1>4, <2>1 DEF ObjectOK, table
<1>8. <<x>> \in Seq(Ids) /\ <<x>> # <<>> /\ DOMAIN <<x>> = {1} /\ ToSet(<<x>>) = {x}
  BY <1>3 DEF ToSet
<1> DEFINE s == <<x>>
<1> HIDE DEF s
<1>9. /\ s \in Seq(Ids) /\ s # <<>> /\ DOMAIN s = {1} /\ ToSet(s) = {x}
      /\ Take(k, s, {r.ip})
  BY <1>1, <1>8 DEF s
<1>10. DOMAIN heap' = DOMAIN heap \cup ToSet(s)
  BY <1>4, <1>9
<1>11. \A y \in DOMAIN heap' : heap'[y] \in ObjType /\ ObjectOK(y)'
  BY <1>4, <1>6, <1>7 DEF ObjectOK
<1>12. \A y \in ToSet(s) : heap'[y].old => y[1] \in mixed
  BY <1>6, <1>9
<1>13. \A y \in DOMAIN heap : heap'[y] = heap[y]
  BY <1>4
<1> QED BY <1>1, <1>2, <1>5, <1>9, <1>10, <1>11, <1>12, <1>13, TakeKeeps

(* The list that is loaded has every row. *)
LEMMA EveryRowIs ==
    ASSUME TableOK
    PROVE  \A r \in db : \E i \in DOMAIN Rows : Rows[i] = r
<1> DEFINE n == Cardinality(db)
<1>1. /\ DOMAIN Rows = 1..n /\ \A i \in DOMAIN Rows : Rows[i] \in db
      /\ \A a, b \in DOMAIN Rows : Rows[a] = Rows[b] => a = b
  BY RowsIs
<1>2. Rows = [i \in 1..n |-> Rows[i]]
  <2> DEFINE row(i) == CHOOSE r \in db : Cardinality({x \in db : Before(x, r)}) = i - 1
  <2>1. Rows = [i \in 1..n |-> row(i)]
    BY DEF Rows
  <2> HIDE DEF row
  <2> QED BY <2>1
<1>3. Rows \in Injection(1..n, db)
  <2>1. \A a, b \in DOMAIN Rows : Rows[a] = Rows[b] => a = b
    BY <1>1
  <2>2. Rows \in [1..n -> db]
    BY <1>1, <1>2
  <2> QED BY <2>1, <2>2 DEF Injection, IsInjective
<1>4. n \in Nat /\ IsFiniteSet(db)
  BY TableIs
<1>5. Cardinality(1..n) = n
  <2>1. CASE n = 0
    <3>1. 1..n = {}
      BY <2>1
    <3> QED BY <2>1, <3>1, FS_EmptySet
  <2>2. CASE n > 0
    <3>1. 1 \in Int /\ n \in Int /\ ~(1 > n)
      BY <1>4, <2>2
    <3> HIDE DEF n
    <3>2. Cardinality(1..n) = n - 1 + 1
      BY <3>1, FS_Interval, Zenon
    <3> QED BY <1>4, <3>2
  <2> QED BY <1>4, <2>1, <2>2
<1>6. Rows \in Surjection(1..n, db)
  BY <1>3, <1>4, <1>5, FS_Injection
<1> QED BY <1>1, <1>6 DEF Surjection

(* init: fresh objects in the list, and what polls hold is marked. *)
LEMMA LoadIs ==
    ASSUME ListInv, Load
    PROVE  /\ devices' \in Seq(Ids) /\ Len(devices') = Len(Rows) /\ DOMAIN devices' = DOMAIN Rows
           /\ loaded' = Rows
           /\ DOMAIN heap' = Held(job, late) \cup ToSet(devices') /\ IsFiniteSet(DOMAIN heap')
           /\ \A x \in Held(job, late) :
                 heap'[x] = [seq |-> heap[x].seq, ip |-> heap[x].ip, st |-> heap[x].st, old |-> TRUE]
           /\ \A i \in DOMAIN Rows :
                 /\ devices'[i] \in Ids /\ devices'[i] \notin Held(job, late)
                 /\ devices'[i][1] = Rows[i].ip
                 /\ heap'[devices'[i]] = Object(Rows[i])
<1> DEFINE kept == Held(job, late)
           name(r) == Fresh(r, kept)
           names == {name(r) : r \in db}
<1>1. /\ devices' = [i \in DOMAIN Rows |-> name(Rows[i])] /\ loaded' = Rows
      /\ heap' = [x \in kept \cup names |->
            IF x \in kept THEN [heap[x] EXCEPT !.old = TRUE]
            ELSE Object(CHOOSE r \in db : name(r) = x)]
  BY Zenon DEF Load
<1>0. kept = Held(job, late)
  OBVIOUS
<1> HIDE DEF kept
<1>2. kept \subseteq DOMAIN heap /\ IsFiniteSet(kept)
  <2>1. kept \in SUBSET DOMAIN heap /\ IsFiniteSet(DOMAIN heap)
    BY <1>0 DEF ListInv, TypeOK, HeapOK
  <2> QED BY <2>1, FS_Subset
<1>3. TableOK /\ \A r \in db : r \in [seq : Nat, ip : Ips]
  BY Facts DEF TableOK
<1>4. \A r \in db : /\ name(r) \in Ids /\ name(r) \notin kept
                     /\ name(r)[1] = r.ip /\ name(r)[2] = r.seq
  BY <1>2, <1>3, FreshIs
<1>5. \A r, q \in db : name(r) = name(q) => r = q
  <2> SUFFICES ASSUME NEW r \in db, NEW q \in db, name(r) = name(q) PROVE r = q
    OBVIOUS
  <2>1. r.seq = q.seq
    BY <1>4
  <2> QED BY <1>3, <2>1 DEF TableOK
<1>6. \A r \in db : (CHOOSE q \in db : name(q) = name(r)) = r
  BY <1>5
<1> HIDE DEF name
<1>7. /\ Rows \in Seq(db) /\ \A i \in DOMAIN Rows : Rows[i] \in db
      /\ DOMAIN Rows = 1..Cardinality(db) /\ Cardinality(db) \in Nat
  BY <1>3, RowsIs, TableIs
<1>8. /\ devices' \in Seq(Ids) /\ Len(devices') = Len(Rows) /\ DOMAIN devices' = DOMAIN Rows
      /\ \A i \in DOMAIN Rows : devices'[i] = name(Rows[i])
  <2>1. DOMAIN Rows = 1..Len(Rows) /\ Len(Rows) \in Nat
    BY <1>7, ElementOf
  <2>2. \A i \in DOMAIN Rows : name(Rows[i]) \in Ids
    BY <1>4, <1>7
  <2> QED BY <1>1, <2>1, <2>2
<1>9. ToSet(devices') = names
  <2>1. \A r \in db : \E i \in DOMAIN Rows : Rows[i] = r
    BY <1>3, EveryRowIs
  <2> QED BY <1>7, <1>8, <2>1 DEF ToSet
<1>10. IsFiniteSet(names)
  <2> DEFINE f == [r \in db |-> name(r)]
  <2>1. f \in [db -> names] /\ \A x \in names : \E r \in db : f[r] = x
    OBVIOUS
  <2>2. f \in Surjection(db, names)
    BY <2>1 DEF Surjection
  <2> HIDE DEF names, f
  <2> QED BY <2>2, <1>3, TableIs, FS_Surjection
<1>11. DOMAIN heap' = kept \cup names /\ IsFiniteSet(DOMAIN heap')
  <2>1. DOMAIN heap' = kept \cup names
    BY <1>1
  <2> HIDE DEF names
  <2> QED BY <1>2, <1>10, <2>1, FS_Union
<1>12. \A x \in kept :
          heap'[x] = [seq |-> heap[x].seq, ip |-> heap[x].ip, st |-> heap[x].st, old |-> TRUE]
  <2> TAKE x \in kept
  <2>1. heap'[x] = [heap[x] EXCEPT !.old = TRUE]
    BY <1>1
  <2>2. heap[x] \in ObjType
    BY <1>2, Facts
  <2> QED BY <2>1, <2>2 DEF ObjType
<1>13. \A i \in DOMAIN Rows : heap'[devices'[i]] = Object(Rows[i])
  <2> TAKE i \in DOMAIN Rows
  <2>1. devices'[i] = name(Rows[i]) /\ Rows[i] \in db
    BY <1>7, <1>8
  <2>2. name(Rows[i]) \in names /\ name(Rows[i]) \notin kept
    BY <1>4, <2>1
  <2>3. heap'[name(Rows[i])] = Object(CHOOSE r \in db : name(r) = name(Rows[i]))
    BY <1>1, <2>2
  <2> QED BY <1>6, <2>1, <2>3
<1> QED BY <1>0, <1>1, <1>4, <1>7, <1>8, <1>9, <1>11, <1>12, <1>13

LEMMA ReloadKeeps == ASSUME ListInv, Reload PROVE ListInv'
<1>1. Load /\ Reloaded
  BY DEF Reload
<1>2. /\ devices' \in Seq(Ids) /\ Len(devices') = Len(Rows) /\ DOMAIN devices' = DOMAIN Rows
      /\ loaded' = Rows
      /\ DOMAIN heap' = Held(job, late) \cup ToSet(devices') /\ IsFiniteSet(DOMAIN heap')
      /\ \A x \in Held(job, late) :
            heap'[x] = [seq |-> heap[x].seq, ip |-> heap[x].ip, st |-> heap[x].st, old |-> TRUE]
      /\ \A i \in DOMAIN Rows :
            /\ devices'[i] \in Ids /\ devices'[i] \notin Held(job, late)
            /\ devices'[i][1] = Rows[i].ip
            /\ heap'[devices'[i]] = Object(Rows[i])
  BY <1>1, LoadIs
<1>3. /\ job' \in [Jobs -> JobType]
      /\ \A k \in Jobs :
            /\ UNCHANGED <<job[k].pc, job[k].tasks, job[k].w, job[k].since, job[k].i,
                           job[k].j, job[k].beside>>
            /\ Active(k) => job'[k].cross /\ (job'[k].slip <=> job[k].pc = "set")
            /\ ~Active(k) => job'[k] = job[k]
  BY <1>1, ReloadedIs
<1>4. UNCHANGED <<db, checked, had, left, changed, late>> /\ mixed' = {} /\ torn' = FALSE
  BY <1>1 DEF Reloaded, table
<1>5. TableOK /\ \A m \in Jobs : JobOK(m) /\ LoopOK(m)
  BY Facts
<1>6. /\ Rows \in Seq(db) /\ \A i \in DOMAIN Rows : Rows[i] \in db
      /\ \A a, b \in DOMAIN Rows : Rows[a] = Rows[b] => a = b
  BY <1>5, RowsIs
<1>7. \A i \in DOMAIN Rows : Rows[i] \in [seq : Nat, ip : Ips] /\ Rows[i].seq \in had[Rows[i].ip]
  BY <1>5, <1>6 DEF TableOK, ListInv, HadOK
<1>8. LoadedOK' /\ ListOK'
  <2>1. Rows \in Seq([seq : Nat, ip : Ips])
    BY <1>6, <1>7, SequenceOf
  <2> QED BY <1>2, <1>4, <1>6, <1>7, <2>1 DEF LoadedOK, ListOK
<1>9. ASSUME NEW x \in DOMAIN heap'
      PROVE  heap'[x] \in ObjType /\ ObjectOK(x)' /\ x \in Ids
             /\ (x \in ToSet(devices') => ~heap'[x].old)
  <2>1. CASE x \in Held(job, late)
    <3>1. x \in DOMAIN heap
      BY <2>1 DEF ListInv, TypeOK
    <3>2. heap[x] \in ObjType /\ ObjectOK(x) /\ x \in Ids
      BY <3>1, Facts
    <3>3. heap'[x] = [seq |-> heap[x].seq, ip |-> heap[x].ip, st |-> heap[x].st, old |-> TRUE]
      BY <1>2, <2>1
    <3>4. heap'[x] \in ObjType
      BY <3>2, <3>3 DEF ObjType
    <3>5. ObjectOK(x)'
      BY <1>4, <3>2, <3>3 DEF ObjectOK
    <3>6. x \notin ToSet(devices')
      BY <1>2, <2>1 DEF ToSet
    <3> QED BY <3>2, <3>4, <3>5, <3>6
  <2>2. CASE x \notin Held(job, late)
    <3>1. PICK i \in DOMAIN Rows : x = devices'[i]
      BY <1>2, <2>2 DEF ToSet
    <3>2. /\ x \in Ids /\ x[1] = Rows[i].ip
          /\ heap'[x] = [seq |-> Rows[i].seq, ip |-> Rows[i].ip, st |-> None, old |-> FALSE]
      BY <1>2, <3>1 DEF Object
    <3>3. heap'[x] \in ObjType /\ ~heap'[x].old
      BY <1>7, <3>2 DEF ObjType
    <3>4. heap'[x].ip = x[1] /\ heap'[x].seq \in had'[x[1]] /\ heap'[x].st = None
      BY <1>4, <1>7, <3>2
    <3>5. heap'[x].st # TRUE
      BY <3>4, SnmpConstants, Zenon
    <3>6. ObjectOK(x)'
      BY <3>4, <3>5 DEF ObjectOK
    <3> QED BY <3>2, <3>3, <3>6
  <2> QED BY <2>1, <2>2
<1>10. HeapOK' /\ HadOK'
  BY <1>2, <1>4, <1>9 DEF ListInv, HeapOK, HadOK
<1>11. OldOK'
  <2>1. \A j \in DOMAIN devices' : devices'[j] \in DOMAIN heap' /\ devices'[j] \in ToSet(devices')
    BY <1>2 DEF ToSet
  <2> QED BY <1>9, <2>1 DEF OldOK
<1>12. ASSUME NEW m \in Jobs PROVE JobOK(m)' /\ LoopOK(m)' /\ PlaceOK(m)' /\ OldTasksOK(m)'
  <2>1. Active(m)' <=> Active(m)
    BY <1>3 DEF Active
  <2>2. LoopOK(m)'
    BY <1>3, <1>5 DEF LoopOK
  <2>3. JobOK(m)'
    BY <1>3, <1>4, <1>5, <2>1 DEF JobOK
  <2>4. PlaceOK(m)'
    BY <1>3 DEF PlaceOK, Active
  <2>5. OldTasksOK(m)'
    <3>1. Active(m) => job'[m].cross
      BY <1>3
    <3>2. ~Active(m) => TasksOf(m)' = {}
      BY <1>3, <1>5 DEF JobOK, TasksOf, ToSet
    <3> QED BY <3>1, <3>2 DEF OldTasksOK
  <2> QED BY <2>2, <2>3, <2>4, <2>5
<1>13. DOMAIN heap' = Held(job', late') \cup ToSet(devices')
  <2>1. \A m \in Jobs : TasksOf(m)' = TasksOf(m)
    BY <1>3 DEF TasksOf
  <2>2. ASSUME NEW x PROVE x \in Held(job', late') <=> x \in Held(job, late)
    BY <1>4, <2>1, HeldIs
  <2> QED BY <1>2, <2>2
<1>14. late' \subseteq [obj : DOMAIN heap', since : SUBSET Ips]
  <2>1. \A l \in late' : l.obj \in DOMAIN heap'
    BY <1>13, HeldIs
  <2>2. late \subseteq [obj : DOMAIN heap, since : SUBSET Ips]
    BY DEF ListInv, TypeOK
  <2> QED BY <1>4, <2>1, <2>2
<1>15. JobsOK'
  BY <1>3, <1>4, <1>12 DEF JobsOK, ListInv
<1>16. TypeOK'
  <2>1. \A m \in Jobs : /\ job'[m].j \in Nat \ {0}
                        /\ job'[m].tasks # <<>> => job'[m].i \in DOMAIN job'[m].tasks
    BY <1>12 DEF LoopOK
  <2> QED BY <1>2, <1>4, <1>9, <1>13, <1>14, <2>1 DEF ListInv, TypeOK, ObjType
<1> QED BY <1>8, <1>10, <1>11, <1>12, <1>15, <1>16 DEF ListInv

LEMMA ListInvInit == Init => ListInv
<1> SUFFICES ASSUME Init PROVE ListInv
  OBVIOUS
<1>1. /\ db = {[seq |-> ip, ip |-> ip] : ip \in First}
      /\ checked = <<>> /\ left \in Budgets /\ changed = {} /\ late = {}
      /\ devices = [i \in DOMAIN Rows |-> <<Rows[i].ip, Rows[i].seq, 1>>]
      /\ heap = [x \in ToSet(devices) |-> Object(CHOOSE r \in db : r.ip = x[1])]
      /\ job = [k \in Jobs |-> Idle]
      /\ loaded = Rows /\ mixed = {} /\ torn = FALSE
      /\ had = [ip \in Ips |-> {r.seq : r \in {x \in db : x.ip = ip}}]
  BY DEF Init
<1>2. First \subseteq Nat /\ First \subseteq Ips
  BY SnmpConstants
<1>3. TableOK
  <2>1. IsFiniteSet(First)
    BY SnmpConstants, <1>2, FS_Subset
  <2> DEFINE f == [ip \in First |-> [seq |-> ip, ip |-> ip]]
  <2>2. f \in Surjection(First, db)
    BY <1>1 DEF Surjection
  <2> HIDE DEF f
  <2>3. IsFiniteSet(db)
    BY <2>1, <2>2, FS_Surjection
  <2> QED BY <1>1, <1>2, <2>3 DEF TableOK
<1>4. /\ Rows \in Seq(db) /\ \A i \in DOMAIN Rows : Rows[i] \in db
      /\ \A a, b \in DOMAIN Rows : Rows[a] = Rows[b] => a = b
      /\ DOMAIN Rows = 1..Len(Rows) /\ Len(Rows) \in Nat
  BY <1>3, RowsIs, ElementOf
<1>5. \A i \in DOMAIN Rows : Rows[i] \in [seq : Nat, ip : Ips]
  BY <1>3, <1>4 DEF TableOK
<1>6. \A i \in DOMAIN Rows : <<Rows[i].ip, Rows[i].seq, 1>> \in Ids
  <2>1. \A ip \in Ips, q \in Nat : <<ip, q, 1>> \in Ids
    BY DEF Ids
  <2>2. \A i \in DOMAIN Rows : Rows[i].ip \in Ips /\ Rows[i].seq \in Nat
    BY <1>5
  <2> QED BY <2>1, <2>2
<1>7. /\ devices \in Seq(Ids) /\ DOMAIN devices = DOMAIN Rows /\ Len(devices) = Len(Rows)
      /\ \A i \in DOMAIN Rows : devices[i] = <<Rows[i].ip, Rows[i].seq, 1>> /\ devices[i][1] = Rows[i].ip
  BY <1>1, <1>4, <1>6
<1>8. HadOK
  <2>1. \A r \in db : r.seq \in Nat /\ r.ip \in Ips
    BY <1>3 DEF TableOK
  <2> QED BY <1>1, <1>3, <2>1 DEF HadOK, TableOK
<1>9. LoadedOK /\ ListOK
  <2>1. Rows \in Seq([seq : Nat, ip : Ips])
    BY <1>4, <1>5, SequenceOf
  <2>2. \A i \in DOMAIN Rows : Rows[i].seq \in had[Rows[i].ip]
    BY <1>4, <1>8 DEF HadOK
  <2> QED BY <1>1, <1>4, <1>7, <2>1, <2>2 DEF LoadedOK, ListOK
<1>10. ASSUME NEW x \in DOMAIN heap
       PROVE  x \in Ids /\ heap[x] \in ObjType /\ ObjectOK(x) /\ ~heap[x].old
  <2>1. PICK i \in DOMAIN devices : x = devices[i]
    BY <1>1 DEF ToSet
  <2>2. x \in Ids /\ x[1] = Rows[i].ip /\ Rows[i] \in db
    BY <1>4, <1>6, <1>7, <2>1
  <2>3. PICK r \in db : r = (CHOOSE q \in db : q.ip = x[1]) /\ r.ip = x[1]
    BY <2>2
  <2>4. heap[x] = Object(r)
    BY <1>1, <2>3
  <2>5. heap[x] = [seq |-> r.seq, ip |-> r.ip, st |-> None, old |-> FALSE]
    BY <2>4 DEF Object
  <2>6. heap[x] \in ObjType /\ ~heap[x].old
    BY <1>3, <2>5 DEF ObjType, TableOK
  <2>7. heap[x].ip = x[1] /\ heap[x].seq \in had[x[1]] /\ heap[x].st = None
    BY <1>8, <2>3, <2>5 DEF HadOK
  <2>8. heap[x].st # TRUE
    BY <2>7, SnmpConstants, Zenon
  <2>9. ObjectOK(x)
    BY <2>7, <2>8 DEF ObjectOK
  <2> QED BY <2>2, <2>6, <2>9
<1>11. IsFiniteSet(DOMAIN heap)
  <2>1. devices \in Surjection(1..Len(Rows), ToSet(devices)) /\ DOMAIN heap = ToSet(devices)
    <3>1. devices = [i \in 1..Len(Rows) |-> devices[i]]
      BY <1>1, <1>4, <1>7
    <3> QED BY <1>1, <1>4, <1>7, <3>1 DEF Surjection, ToSet
  <2>2. IsFiniteSet(1..Len(Rows))
    BY <1>4, FS_Interval
  <2> QED BY <2>1, <2>2, FS_Surjection
<1>12. \A k \in Jobs : job[k] = Idle
  BY <1>1
<1>13. ASSUME NEW k \in Jobs PROVE JobOK(k) /\ LoopOK(k) /\ PlaceOK(k) /\ OldTasksOK(k)
  <2>2. /\ job[k].pc = "idle" /\ job[k].tasks = <<>> /\ job[k].w = <<>> /\ job[k].since = {}
        /\ job[k].i = 1 /\ job[k].j = 1 /\ ~job[k].cross /\ ~job[k].slip
    BY <1>12, IdleIs
  <2>3. TasksOf(k) = {}
    BY <2>2 DEF TasksOf, ToSet
  <2>4. LoopOK(k) /\ PlaceOK(k) /\ OldTasksOK(k)
    BY <2>2, <2>3 DEF LoopOK, PlaceOK, OldTasksOK
  <2>5. DOMAIN job[k].w = DOMAIN job[k].tasks /\ ~Active(k)
    BY <2>2 DEF Active
  <2> QED BY <2>2, <2>4, <2>5 DEF JobOK
<1>14. JobsOK
  BY <1>1, <1>13, IdleIs DEF JobsOK
<1>15. DOMAIN heap = Held(job, late) \cup ToSet(devices)
  <2>1. ASSUME NEW x PROVE x \notin Held(job, late)
    <3>1. \A k \in Jobs : TasksOf(k) = {}
      BY <1>13, <1>12, IdleIs DEF TasksOf, ToSet
    <3> QED BY <1>1, <3>1, HeldIs
  <2> QED BY <1>1, <2>1
<1>16. TypeOK
  <2>1. left \in LeftType
    BY <1>1, SnmpConstants DEF LeftType
  <2>2. \A k \in Jobs : /\ job[k].j \in Nat \ {0}
                        /\ job[k].tasks # <<>> => job[k].i \in DOMAIN job[k].tasks
    BY <1>13 DEF LoopOK
  <2>3. /\ db \subseteq [seq : Nat, ip : Ips] /\ \A a, b \in db : a.seq = b.seq => a = b
        /\ checked \in Seq([seq : Nat, ip : Ips]) /\ changed \subseteq Ips
        /\ late \subseteq [obj : DOMAIN heap, since : SUBSET Ips]
    BY <1>1, <1>3 DEF TableOK
  <2>4. DOMAIN heap \subseteq Ids /\ \A x \in DOMAIN heap : heap[x] \in ObjType
    BY <1>10
  <2> QED BY <1>7, <1>15, <2>1, <2>2, <2>3, <2>4 DEF TypeOK, ObjType, LeftType
<1>17. OldOK /\ HeapOK
  <2>1. \A j \in DOMAIN devices : devices[j] \in DOMAIN heap
    BY <1>1 DEF ToSet
  <2> QED BY <1>10, <1>11, <2>1 DEF OldOK, HeapOK
<1> QED BY <1>8, <1>9, <1>13, <1>14, <1>16, <1>17 DEF ListInv

LEMMA ListInvStep == ListInv /\ [Next]_vars => ListInv'
<1> SUFFICES ASSUME ListInv, [Next]_vars PROVE ListInv'
  OBVIOUS
<1>1. CASE UNCHANGED vars
  <2>1. /\ TableOK' /\ HadOK'
        /\ left' \in LeftType
    BY <1>1, Facts DEF vars, table, ListInv, TypeOK, TableOK, HadOK, LeftType
  <2>2. /\ UNCHANGED <<heap, devices, job, late, seen, changed, had>> /\ changed \subseteq Ips
    BY <1>1 DEF vars, table, ListInv, TypeOK
  <2> QED BY <2>1, <2>2, TableKeeps
<1>2. CASE TableStep
  BY <1>2, TableStepKeeps
<1>3. CASE Reload
  BY <1>3, ReloadKeeps
<1>4. CASE Collect
  BY <1>4, CollectKeeps
<1>5. ASSUME NEW k \in Web, NEW r \in db, GetDeviceInfo(k, r) PROVE ListInv'
  BY <1>5, GetDeviceInfoKeeps
<1>6. ASSUME NEW k \in Jobs, WorkerStep(k) PROVE ListInv'
  BY <1>6, AnswerKeeps DEF WorkerStep
<1>7. ASSUME NEW k \in Jobs, Timeout(k) PROVE ListInv'
  BY <1>7, TimeoutKeeps
<1>8. ASSUME NEW k \in Jobs, StatusChange(k) PROVE ListInv'
  BY <1>8, StatusChangeKeeps
<1>9. ASSUME NEW k \in Jobs, NEW i \in DOMAIN job[k].w, Fail(k, i) PROVE ListInv'
  BY <1>9, FailKeeps
<1>10. ASSUME NEW l \in late, LateAnswer(l) \/ LateDies(l) PROVE ListInv'
  BY <1>10, LateKeeps
<1> QED BY <1>1, <1>2, <1>3, <1>4, <1>5, <1>6, <1>7, <1>8, <1>9, <1>10 DEF Next, TableStep

LEMMA ListInvHolds == Spec => []ListInv
BY ListInvInit, ListInvStep, PTL DEF Spec

(* The list has one entry for every row of the last load, in its order and   *)
(* of its address, and none older than the load but by a poll that began     *)
(* before it; a device of the load is lost only as DeviceIsInPlace says, for *)
(* any table, with addresses given twice or not, however edits, reloads,     *)
(* rounds, requests, timeouts and late workers interleave.                   *)
(* (deviceReload, statusChange.)                                             *)
THEOREM ListStaysRight == Spec => []ListIsRight
BY ListInvHolds, ListInvImpliesRight, PTL
-----------------------------------------------------------------------------
(* What is shown for a device does not go back. *)

(* The objects that say TRUE, and the ones that say nothing yet. *)
Lit   == {x \in DOMAIN heap : heap[x].st = TRUE}
Blank == {x \in DOMAIN heap : heap[x].st = None}

(* Nothing has come between the poll and the list. *)
Alone(k) == Active(k) /\ ~job[k].beside /\ ~job[k].cross /\ ~torn

(* Two polls of one address know of each other. *)
BesideOK(k) ==
    \A m \in Jobs \ {k} : Addresses(k) \cap Addresses(m) # {} => job[k].beside

(* A worker that is late comes from this very poll, or the poll knows of it. *)
LateOK(k) ==
    \A l \in late : l.obj[1] \in Addresses(k) /\ ~job[k].beside =>
        /\ l.obj \in TasksOf(k) /\ job[k].pc # "poll"
        /\ k \in Web => job[k].w[1] = "cut"

(* A request has an object of its own until it puts it into the list. *)
OwnOK(k) ==
    k \in Web => \A x \in TasksOf(k) :
        x \notin ToSet(devices) /\ \A m \in Jobs \ {k} : x \notin TasksOf(m)

(* The addresses that one device at most ever had. *)
Sole == {ip \in Ips : \A p, q \in had[ip] : p = q}

(* A round that nothing came between works on the list itself, but for the  *)
(* devices that share an address.                                           *)
RoundOK ==
    Alone(Scheduled) =>
        /\ DOMAIN devices = DOMAIN job[Scheduled].tasks
        /\ \A j \in DOMAIN devices :
              /\ devices[j][1] = job[Scheduled].tasks[j][1]
              /\ devices[j][1] \in Sole => devices[j] = job[Scheduled].tasks[j]

(* What the poll has not asked yet says TRUE only if the device had changed  *)
(* when the poll began.                                                      *)
AskedOK(k) ==
    Alone(k) => \A i \in DOMAIN job[k].w :
        job[k].w[i] = "asks" /\ job[k].tasks[i] \in Lit /\ job[k].tasks[i][1] \in Sole
            => job[k].tasks[i][1] \in job[k].since

(* So do the other objects of its addresses. *)
OthersOK(k) ==
    Active(k) /\ ~job[k].beside =>
        \A x \in Lit \ TasksOf(k) : x[1] \in Addresses(k) => x[1] \in job[k].since

(* The answer a request has got is no older than its beginning. *)
DoneOK(k) ==
    k \in Web /\ Active(k) /\ ~job[k].beside /\ job[k].w[1] = "done" =>
        /\ job[k].tasks[1] \notin Blank
        /\ job[k].tasks[1][1] \in job[k].since => job[k].tasks[1] \in Lit

(* The inductive invariant behind GoesBackOnlyIfContended, with ListInv. *)
StatusInv ==
    /\ RoundOK
    /\ \A k \in Jobs : /\ BesideOK(k) /\ LateOK(k) /\ OwnOK(k)
                       /\ AskedOK(k) /\ OthersOK(k) /\ DoneOK(k)

-----------------------------------------------------------------------------
(* An address that a device had stays one that it had. *)
Grows == \A ip \in Ips : had[ip] \subseteq had'[ip]

LEMMA HadGrows == [Next]_vars => Grows
<1>1. ASSUME NEW rows, Edit(rows) PROVE Grows
  BY <1>1 DEF Edit, Grows
<1>2. ASSUME had' = had PROVE Grows
  BY <1>2 DEF Grows
<1>3. ASSUME TableStep PROVE Grows
  BY <1>1, <1>2, <1>3 DEF TableStep, CheckIp, InsertDevice, UpdateDevice, DeleteDevice, Change, table
<1>4. ASSUME NEW k \in Jobs, StatusChange(k) PROVE had' = had
  BY <1>4 DEF StatusChange, SkipFailed, Find, Set, table
<1>5. ASSUME NEW k \in Jobs, NEW i \in DOMAIN job[k].w, Answer(k, i) \/ Fail(k, i) PROVE had' = had
  BY <1>5 DEF Answer, Fail, table
<1>6. ASSUME NEW k \in Jobs, Timeout(k) PROVE had' = had
  BY <1>6 DEF Timeout, table
<1>7. ASSUME NEW l \in late, LateAnswer(l) \/ LateDies(l) PROVE had' = had
  BY <1>7 DEF LateAnswer, LateDies, table
<1>8. ASSUME NEW k \in Web, NEW r \in db, GetDeviceInfo(k, r) PROVE had' = had
  BY <1>8 DEF GetDeviceInfo, table
<1>9. ASSUME Reload \/ Collect PROVE had' = had
  BY <1>9 DEF Reload, Reloaded, Collect, table
<1>10. ASSUME UNCHANGED vars PROVE had' = had
  BY <1>10 DEF vars, table
<1> QED BY <1>2, <1>3, <1>4, <1>5, <1>6, <1>7, <1>8, <1>9, <1>10 DEF Next, TableStep, WorkerStep

LEMMA SoleWas == Grows => Sole' \subseteq Sole
BY DEF Grows, Sole

(* The poll goes on where it was, or it is over. *)
Resumes(k) ==
    \/ job'[k].tasks = <<>>
    \/ /\ UNCHANGED <<job[k].tasks, job[k].since>>
       /\ job[k].beside => job'[k].beside
       /\ Alone(k)' => Alone(k)
       /\ DOMAIN job'[k].w = DOMAIN job[k].w
       /\ \A i \in DOMAIN job[k].w : job'[k].w[i] = "asks" => job[k].w[i] = "asks"
       /\ job'[k].w[1] = "done" => job[k].w[1] = "done"
       /\ job[k].w[1] = "cut" => job'[k].w[1] = "cut"
       /\ job'[k].pc = "poll" => job[k].pc = "poll"

(* Nobody else asked a device of this poll. *)
Unread(k) ==
    /\ \A x \in Lit' : x[1] \in Addresses(k) => x \in Lit
    /\ \A x \in TasksOf(k) : (x \in Lit => x \in Lit') /\ (x \in Blank' => x \in Blank)

LEMMA OverIs ==
    ASSUME ListInv', NEW k \in Jobs, job'[k].tasks = <<>>
    PROVE  /\ ~Active(k)' /\ ~Alone(k)' /\ TasksOf(k)' = {} /\ Addresses(k)' = {}
<1>1. JobOK(k)'
  BY DEF ListInv, JobsOK
<1>2. ~Active(k)'
  BY <1>1 DEF JobOK
<1>3. TasksOf(k)' = {}
  BY DEF TasksOf, ToSet
<1> QED BY <1>2, <1>3 DEF Alone, Addresses

LEMMA StaysActive ==
    ASSUME ListInv, ListInv', NEW k \in Jobs, Resumes(k), job'[k].tasks # <<>>
    PROVE  /\ TasksOf(k)' = TasksOf(k) /\ Addresses(k)' = Addresses(k)
           /\ Active(k) /\ Active(k)'
           /\ UNCHANGED <<job[k].tasks, job[k].since>>
           /\ job[k].beside => job'[k].beside
           /\ Alone(k)' => Alone(k)
<1>1. JobOK(k)' /\ JobOK(k)
  BY DEF ListInv, JobsOK
<1>2. job'[k].tasks = job[k].tasks
  BY DEF Resumes
<1>3. TasksOf(k)' = TasksOf(k)
  BY <1>2 DEF TasksOf
<1> QED BY <1>1, <1>2, <1>3 DEF Resumes, JobOK, Addresses

LEMMA BesideKeeps ==
    ASSUME ListInv, ListInv', StatusInv, \A m \in Jobs : Resumes(m)
    PROVE  \A k \in Jobs : BesideOK(k)'
<1>1. \A m \in Jobs : Addresses(m)' \subseteq Addresses(m)
  BY OverIs, StaysActive
<1>2. ASSUME NEW k \in Jobs, NEW m \in Jobs \ {k}, Addresses(k)' \cap Addresses(m)' # {}
      PROVE  job'[k].beside
  <2>1. Addresses(k) \cap Addresses(m) # {}
    BY <1>1, <1>2
  <2>2. job[k].beside
    BY <2>1 DEF StatusInv, BesideOK
  <2>3. job'[k].tasks # <<>>
    BY <1>2, OverIs
  <2> QED BY <2>2, <2>3, StaysActive
<1> QED BY <1>2 DEF BesideOK

LEMMA LateOKKeeps ==
    ASSUME ListInv, ListInv', StatusInv, NEW k \in Jobs, Resumes(k), late' \subseteq late
    PROVE  LateOK(k)'
<1>1. CASE job'[k].tasks = <<>>
  BY <1>1, OverIs DEF LateOK
<1>2. CASE job'[k].tasks # <<>>
  <2>1. LateOK(k)
    BY DEF StatusInv
  <2>2. TasksOf(k)' = TasksOf(k) /\ Addresses(k)' = Addresses(k)
        /\ (job[k].beside => job'[k].beside)
    BY <1>2, StaysActive
  <2>3. /\ job[k].w[1] = "cut" => job'[k].w[1] = "cut"
        /\ job'[k].pc = "poll" => job[k].pc = "poll"
    BY <1>2 DEF Resumes
  <2> QED BY <2>1, <2>2, <2>3 DEF LateOK
<1> QED BY <1>1, <1>2

LEMMA StatusKeeps ==
    ASSUME ListInv, ListInv', StatusInv, Grows, NEW k \in Jobs, Resumes(k),
           job'[k].tasks # <<>> /\ ~job'[k].beside => Unread(k)
    PROVE  AskedOK(k)' /\ OthersOK(k)' /\ DoneOK(k)'
<1>1. CASE job'[k].tasks = <<>>
  BY <1>1, OverIs DEF AskedOK, OthersOK, DoneOK
<1>2. CASE job'[k].tasks # <<>> /\ job'[k].beside
  BY <1>2 DEF AskedOK, OthersOK, DoneOK, Alone
<1>3. CASE job'[k].tasks # <<>> /\ ~job'[k].beside
  <2>1. AskedOK(k) /\ OthersOK(k) /\ DoneOK(k) /\ JobOK(k)
    BY Facts DEF StatusInv
  <2>2. /\ TasksOf(k)' = TasksOf(k) /\ Addresses(k)' = Addresses(k) /\ Active(k)
        /\ UNCHANGED <<job[k].tasks, job[k].since>>
        /\ ~job[k].beside /\ (Alone(k)' => Alone(k)) /\ Unread(k)
    BY <1>3, StaysActive
  <2>3. /\ DOMAIN job'[k].w = DOMAIN job[k].w
        /\ \A i \in DOMAIN job[k].w : job'[k].w[i] = "asks" => job[k].w[i] = "asks"
        /\ job'[k].w[1] = "done" => job[k].w[1] = "done"
    BY <1>3 DEF Resumes
  <2>4. \A i \in DOMAIN job[k].tasks :
           job[k].tasks[i] \in TasksOf(k) /\ job[k].tasks[i][1] \in Addresses(k)
    BY DEF TasksOf, Addresses, ToSet
  <2>5. AskedOK(k)'
    <3> SUFFICES ASSUME Alone(k)', NEW i \in DOMAIN job'[k].w, job'[k].w[i] = "asks",
                        job'[k].tasks[i] \in Lit', job'[k].tasks[i][1] \in Sole'
                 PROVE  job'[k].tasks[i][1] \in job'[k].since
      BY DEF AskedOK
    <3>1. Alone(k) /\ i \in DOMAIN job[k].w /\ job[k].w[i] = "asks" /\ i \in DOMAIN job[k].tasks
      BY <2>1, <2>2, <2>3 DEF JobOK
    <3>2. job[k].tasks[i] \in Lit
      BY <2>2, <2>4, <3>1 DEF Unread
    <3>3. job[k].tasks[i][1] \in Sole
      <4>1. job[k].tasks[i][1] \in Sole'
        BY <2>2
      <4> QED BY <4>1, SoleWas
    <3>4. job[k].tasks[i][1] \in job[k].since
      BY <2>1, <3>1, <3>2, <3>3 DEF AskedOK
    <3> QED BY <2>2, <3>4
  <2>6. OthersOK(k)'
    <3> SUFFICES ASSUME NEW x \in Lit' \ TasksOf(k)', x[1] \in Addresses(k)'
                 PROVE  x[1] \in job'[k].since
      BY DEF OthersOK
    <3>1. x \in Lit \ TasksOf(k) /\ x[1] \in Addresses(k)
      BY <2>2 DEF Unread
    <3> QED BY <2>1, <2>2, <3>1 DEF OthersOK
  <2>7. DoneOK(k)'
    <3> SUFFICES ASSUME k \in Web, job'[k].w[1] = "done"
                 PROVE  /\ job'[k].tasks[1] \notin Blank'
                        /\ job'[k].tasks[1][1] \in job'[k].since => job'[k].tasks[1] \in Lit'
      BY DEF DoneOK
    <3>1. job[k].w[1] = "done"
      BY <2>3
    <3>2. /\ job[k].tasks[1] \notin Blank
          /\ job[k].tasks[1][1] \in job[k].since => job[k].tasks[1] \in Lit
      BY <1>3, <2>1, <2>2, <3>1 DEF DoneOK
    <3>3. job[k].tasks[1] \in TasksOf(k)
      BY <2>1, <2>2, <2>4 DEF JobOK
    <3> QED BY <2>2, <3>2, <3>3 DEF Unread
  <2> QED BY <2>5, <2>6, <2>7
<1> QED BY <1>1, <1>2, <1>3

LEMMA SameResumes ==
    ASSUME NEW k, job'[k] = job[k], torn => torn'
    PROVE  Resumes(k)
BY DEF Resumes, Alone, Active

LEMMA UnreadIs ==
    ASSUME ListInv', NEW k \in Jobs, job'[k].tasks = job[k].tasks,
           \A x \in DOMAIN heap' : x \in DOMAIN heap /\ heap'[x] = heap[x]
    PROVE  Unread(k)
<1>1. ASSUME NEW x \in TasksOf(k) PROVE x \in DOMAIN heap'
  <2>1. x \in TasksOf(k)'
    BY DEF TasksOf
  <2> QED BY <2>1, HeldIs DEF ListInv, TypeOK
<1> QED BY <1>1 DEF Unread, Lit, Blank

(* The round goes on, and the list is left alone. *)
LEMMA RoundKeeps ==
    ASSUME ListInv, ListInv', RoundOK, Grows, Resumes(Scheduled), devices' = devices
    PROVE  RoundOK'
<1> SUFFICES ASSUME Alone(Scheduled)'
             PROVE  /\ DOMAIN devices' = DOMAIN job'[Scheduled].tasks
                    /\ \A j \in DOMAIN devices' :
                          /\ devices'[j][1] = job'[Scheduled].tasks[j][1]
                          /\ devices'[j][1] \in Sole' => devices'[j] = job'[Scheduled].tasks[j]
  BY DEF RoundOK
<1>1. Scheduled \in Jobs
  BY DEF Jobs
<1>2. job'[Scheduled].tasks # <<>>
  BY <1>1, OverIs
<1>3. Alone(Scheduled) /\ job'[Scheduled].tasks = job[Scheduled].tasks
  BY <1>1, <1>2, StaysActive
<1>4. \A j \in DOMAIN devices : devices[j][1] \in Sole' => devices[j][1] \in Sole
  BY SoleWas
<1> QED BY <1>3, <1>4 DEF RoundOK

(* A step that reads no device, and takes nothing up. *)
LEMMA QuietStatus ==
    ASSUME ListInv, ListInv', StatusInv, Grows, \A k \in Jobs : Resumes(k), devices' = devices,
           \A x \in DOMAIN heap' : x \in DOMAIN heap /\ heap'[x] = heap[x]
    PROVE  /\ RoundOK'
           /\ \A k \in Jobs : /\ BesideOK(k)' /\ OwnOK(k)' /\ AskedOK(k)'
                              /\ OthersOK(k)' /\ DoneOK(k)'
<1>1. \A k \in Jobs : TasksOf(k)' \subseteq TasksOf(k)
  BY OverIs, StaysActive
<1>2. \A k \in Jobs : OwnOK(k)'
  BY <1>1 DEF StatusInv, OwnOK
<1>3. ASSUME NEW k \in Jobs PROVE AskedOK(k)' /\ OthersOK(k)' /\ DoneOK(k)'
  <2>1. job'[k].tasks # <<>> => Unread(k)
    BY StaysActive, UnreadIs
  <2> QED BY <2>1, StatusKeeps
<1>4. RoundOK'
  BY RoundKeeps DEF StatusInv, Jobs
<1> QED BY <1>2, <1>3, <1>4, BesideKeeps

LEMMA QuietKeeps ==
    ASSUME ListInv, ListInv', StatusInv, Grows, \A k \in Jobs : Resumes(k), devices' = devices,
           late' \subseteq late,
           \A x \in DOMAIN heap' : x \in DOMAIN heap /\ heap'[x] = heap[x]
    PROVE  StatusInv'
BY QuietStatus, LateOKKeeps DEF StatusInv

(* A step of one poll that goes on or ends. *)
LEMMA OneResumes ==
    ASSUME NEW k \in Jobs, Resumes(k), \A m \in Jobs \ {k} : job'[m] = job[m], torn => torn'
    PROVE  \A m \in Jobs : Resumes(m)
BY SameResumes

LEMMA FailStatus ==
    ASSUME ListInv, ListInv', StatusInv, Grows, NEW k \in Jobs, NEW i \in DOMAIN job[k].w, Fail(k, i)
    PROVE  StatusInv'
<1>1. /\ job[k].pc = "poll" /\ job[k].w[i] = "asks" /\ Worker(k, i, "fails")
      /\ UNCHANGED <<heap, devices, late, seen>>
  BY DEF Fail
<1>2. /\ job' \in [Jobs -> JobType] /\ \A m \in Jobs \ {k} : job'[m] = job[m]
      /\ UNCHANGED <<job[k].tasks, job[k].since, job[k].cross, job[k].beside>>
      /\ job'[k].w = [job[k].w EXCEPT ![i] = "fails"]
  BY <1>1, WorkerIs DEF Final
<1>3. Resumes(k)
  BY <1>1, <1>2 DEF Resumes, Alone, Active, seen
<1> QED BY <1>1, <1>2, <1>3, OneResumes, QuietKeeps DEF seen

LEMMA FoundStatus ==
    ASSUME ListInv, ListInv', StatusInv, Grows, NEW k \in Jobs, NEW n \in Nat, job[k].pc = "change",
           job' = [job EXCEPT ![k] = [job[k] EXCEPT !.pc = "set", !.j = n]],
           UNCHANGED <<heap, devices, late, seen>>
    PROVE  StatusInv'
<1>1. /\ \A m \in Jobs \ {k} : job'[m] = job[m]
      /\ job'[k].pc = "set"
      /\ UNCHANGED <<job[k].tasks, job[k].w, job[k].since, job[k].cross, job[k].beside>>
  BY FoundTaskIs
<1>2. Resumes(k)
  BY <1>1 DEF Resumes, Alone, Active, seen
<1> QED BY <1>1, <1>2, OneResumes, QuietKeeps DEF seen

LEMMA NextResumes ==
    ASSUME ListInv, NEW k \in Jobs, job[k].pc \in {"change", "set"}, NextTask(k), torn => torn'
    PROVE  \A m \in Jobs : Resumes(m)
<1>1. Resumes(k)
  BY NextTaskIs DEF Resumes, Alone, Active
<1> QED BY <1>1, NextTaskIs, OneResumes

LEMMA SkipStatus ==
    ASSUME ListInv, ListInv', StatusInv, Grows, NEW k \in Jobs, job[k].pc \in {"change", "set"},
           NextTask(k), UNCHANGED <<changed, devices, late, seen>>
    PROVE  StatusInv'
<1>1. \A x \in DOMAIN heap' : x \in DOMAIN heap /\ heap'[x] = heap[x]
  BY NextTaskKeeps DEF seen
<1> QED BY <1>1, NextResumes, QuietKeeps DEF seen

LEMMA TimeoutStatus ==
    ASSUME ListInv, ListInv', StatusInv, Grows, NEW k \in Jobs, Timeout(k)
    PROVE  StatusInv'
<1> DEFINE cut == {i \in DOMAIN job[k].w : job[k].w[i] \notin Final}
<1>1. job[k].pc = "poll" /\ UNCHANGED <<heap, devices, seen>>
  BY DEF Timeout
<1>2. /\ \A m \in Jobs \ {k} : job'[m] = job[m]
      /\ job'[k].pc = "change"
      /\ UNCHANGED <<job[k].tasks, job[k].since, job[k].cross, job[k].beside>>
      /\ DOMAIN job'[k].w = DOMAIN job[k].w
      /\ \A i \in DOMAIN job[k].w :
            job'[k].w[i] = IF job[k].w[i] \in Final THEN job[k].w[i] ELSE "cut"
  BY TimeoutIs
<1>3. JobOK(k) /\ job[k].tasks # <<>>
  BY <1>1, Facts DEF JobOK, Active
<1>4. 1 \in DOMAIN job[k].w
  BY <1>3, Facts, ElementOf DEF JobOK, JobType
<1>5. Resumes(k)
  <2>1. \A i \in DOMAIN job[k].w :
           /\ job'[k].w[i] = "asks" => job[k].w[i] = "asks"
           /\ job'[k].w[i] = "done" => job[k].w[i] = "done"
           /\ job[k].w[i] = "cut" => job'[k].w[i] = "cut"
    BY <1>2 DEF Final
  <2> QED BY <1>1, <1>2, <1>4, <2>1 DEF Resumes, Alone, Active, seen
<1>6. \A m \in Jobs : Resumes(m)
  BY <1>1, <1>2, <1>5, OneResumes DEF seen
<1>7. \A l \in late' \ late : \E i \in cut : l.obj = job[k].tasks[i]
  BY DEF Timeout
<1>8. ASSUME NEW l \in late' \ late
      PROVE  /\ l.obj \in TasksOf(k) /\ l.obj[1] \in Addresses(k)
             /\ k \in Web => job'[k].w[1] = "cut"
  <2>1. PICK i \in cut : l.obj = job[k].tasks[i]
    BY <1>7
  <2>2. l.obj \in TasksOf(k)
    BY <1>3, <2>1 DEF TasksOf, ToSet, JobOK
  <2>3. k \in Web => i = 1
    BY <1>1, <1>3, <2>1 DEF JobOK, Active
  <2> QED BY <1>2, <2>1, <2>2, <2>3 DEF Addresses
<1> HIDE DEF cut
<1>9. ASSUME NEW m \in Jobs PROVE LateOK(m)'
  <2> SUFFICES ASSUME NEW l \in late', l.obj[1] \in Addresses(m)', ~job'[m].beside
               PROVE  /\ l.obj \in TasksOf(m)' /\ job'[m].pc # "poll"
                      /\ m \in Web => job'[m].w[1] = "cut"
    BY DEF LateOK
  <2>1. job'[m].tasks # <<>>
    BY OverIs
  <2>2. /\ TasksOf(m)' = TasksOf(m) /\ Addresses(m)' = Addresses(m)
        /\ ~job[m].beside
    BY <1>6, <2>1, StaysActive
  <2>3. CASE l \in late
    <3>1. /\ l.obj \in TasksOf(m) /\ job[m].pc # "poll"
          /\ m \in Web => job[m].w[1] = "cut"
      BY <2>2, <2>3 DEF StatusInv, LateOK
    <3> QED BY <1>1, <1>2, <2>2, <3>1
  <2>4. CASE l \notin late
    <3>1. m = k
      BY <1>8, <2>2, <2>4 DEF StatusInv, BesideOK
    <3> QED BY <1>2, <1>8, <2>2, <2>4, <3>1
  <2> QED BY <2>3, <2>4
<1> QED BY <1>1, <1>6, <1>9, QuietStatus DEF StatusInv

(* In an undisturbed poll no two tasks have an address that only one device had. *)
LEMMA TasksDiffer ==
    ASSUME ListInv, StatusInv, NEW k \in Jobs, Alone(k),
           NEW a \in DOMAIN job[k].tasks, NEW b \in DOMAIN job[k].tasks,
           job[k].tasks[a][1] = job[k].tasks[b][1], job[k].tasks[a][1] \in Sole
    PROVE  a = b
<1>1. CASE k \in Web
  BY <1>1, Facts DEF JobOK, Alone
<1>2. CASE k = Scheduled
  <2>1. /\ a \in DOMAIN devices /\ b \in DOMAIN devices
        /\ devices[a][1] = job[k].tasks[a][1] /\ devices[b][1] = job[k].tasks[b][1]
    BY <1>2 DEF StatusInv, RoundOK
  <2>2. a \in DOMAIN loaded /\ b \in DOMAIN loaded
    BY <2>1, ElementOf DEF ListInv, LoadedOK, TypeOK
  <2>3. loaded[a].ip = job[k].tasks[a][1] /\ loaded[b].ip = loaded[a].ip
    BY <2>1 DEF ListInv, ListOK, Alone
  <2>4. loaded[a].seq = loaded[b].seq
    BY <2>2, <2>3 DEF ListInv, LoadedOK, Sole
  <2>5. loaded[a] = loaded[b]
    <3>1. /\ loaded[a] \in [seq : Nat, ip : Ips] /\ loaded[b] \in [seq : Nat, ip : Ips]
      BY <2>2, ElementOf DEF ListInv, LoadedOK
    <3> QED BY <2>3, <2>4, <3>1
  <2> QED BY <2>2, <2>5 DEF ListInv, LoadedOK
<1> QED BY <1>1, <1>2 DEF Jobs

(* The status that a reading leaves. *)
LEMMA LitIs ==
    ASSUME ListInv, NEW x \in DOMAIN heap, NEW st, StatusOK(st, x),
           NEW h, h = WithStatus(x, st)
    PROVE  /\ h[x].st \in BOOLEAN /\ h[x].st = st
<1>1. heap[x] \in ObjType
  BY Facts
<1>2. h[x] = [heap[x] EXCEPT !.st = st]
  BY DEF WithStatus
<1>3. h[x].st = st
  BY <1>1, <1>2, Zenon DEF ObjType
<1> QED BY <1>3 DEF StatusOK

LEMMA ReadIs ==
    ASSUME ListInv, NEW x \in DOMAIN heap, NEW since \in SUBSET changed,
           NEW st \in Readings(x, since), heap' = WithStatus(x, st)
    PROVE  /\ x \notin Blank' /\ (x[1] \in since => x \in Lit')
           /\ \A y \in Lit' : y # x => y \in Lit
           /\ \A y \in DOMAIN heap : y # x => (y \in Lit => y \in Lit') /\ (y \in Blank' => y \in Blank)
           /\ DOMAIN heap' = DOMAIN heap
           /\ \A y \in DOMAIN heap : /\ heap'[y].seq = heap[y].seq
                                     /\ y # x => heap'[y] = heap[y]
<1>1. StatusOK(st, x) /\ (x[1] \in since => st = TRUE)
  BY ReadingIs
<1>2. heap'[x].st \in BOOLEAN /\ heap'[x].st = st
  BY <1>1, LitIs
<1>3. DOMAIN heap' = DOMAIN heap /\
      \A y \in DOMAIN heap : /\ heap'[y].seq = heap[y].seq
                             /\ y # x => heap'[y] = heap[y]
  BY <1>1, StatusIs
<1>4. x \notin Blank'
  <2>1. heap'[x].st # None
    BY <1>2, SnmpConstants
  <2> QED BY <2>1 DEF Blank
<1>5. x[1] \in since => x \in Lit'
  BY <1>1, <1>2, <1>3, Zenon DEF Lit
<1> QED BY <1>3, <1>4, <1>5 DEF Lit, Blank

(* A worker answers. *)
LEMMA AnswerStatus ==
    ASSUME ListInv, ListInv', StatusInv, Grows, NEW k \in Jobs, NEW i \in DOMAIN job[k].w, Answer(k, i)
    PROVE  StatusInv'
<1> DEFINE x == job[k].tasks[i]
<1>1. /\ job[k].pc = "poll" /\ job[k].w[i] = "asks" /\ Worker(k, i, "done")
      /\ UNCHANGED <<devices, late, seen>>
  BY DEF Answer
<1>2. /\ \A m \in Jobs \ {k} : job'[m] = job[m]
      /\ UNCHANGED <<job[k].tasks, job[k].since, job[k].cross, job[k].beside>>
      /\ job'[k].w = [job[k].w EXCEPT ![i] = "done"]
  BY <1>1, WorkerIs DEF Final
<1>3. JobOK(k) /\ job[k].since \in SUBSET changed /\ i \in DOMAIN job[k].tasks /\ Active(k)
  BY <1>1, Facts DEF JobOK, Active
<1>4. x \in TasksOf(k) /\ x \in DOMAIN heap /\ x[1] \in Addresses(k)
  BY <1>3, Facts DEF TasksOf, ToSet, Addresses
<1>5. PICK st \in Readings(x, job[k].since) : heap' = WithStatus(x, st)
  BY DEF Answer, WithStatus
<1> HIDE DEF x
<1>6. /\ x \notin Blank' /\ (x[1] \in job[k].since => x \in Lit')
      /\ \A y \in Lit' : y # x => y \in Lit
      /\ \A y \in DOMAIN heap : y # x => (y \in Lit => y \in Lit') /\ (y \in Blank' => y \in Blank)
  BY <1>3, <1>4, <1>5, ReadIs
<1>7. /\ TasksOf(k)' = TasksOf(k) /\ Addresses(k)' = Addresses(k)
      /\ Alone(k)' => Alone(k)
      /\ \A m \in Jobs \ {k} : Resumes(m) /\ TasksOf(m)' = TasksOf(m) /\ Addresses(m)' = Addresses(m)
  <2>1. \A m \in Jobs : TasksOf(m)' = TasksOf(m)
    BY <1>2 DEF TasksOf
  <2>2. \A m \in Jobs : Addresses(m)' = Addresses(m)
    BY <2>1 DEF Addresses
  <2>3. Alone(k)' => Alone(k)
    BY <1>1, <1>2, <1>3 DEF Alone, seen
  <2>4. torn' = torn
    BY <1>1 DEF seen
  <2> QED BY <1>2, <2>1, <2>2, <2>3, <2>4, SameResumes
<1>8. ASSUME NEW m \in Jobs PROVE BesideOK(m)' /\ LateOK(m)' /\ OwnOK(m)'
  <2>1. BesideOK(m)' /\ OwnOK(m)'
    <3>1. job'[m].beside = job[m].beside /\ TasksOf(m)' = TasksOf(m)
          /\ \A n \in Jobs : TasksOf(n)' = TasksOf(n) /\ Addresses(n)' = Addresses(n)
      BY <1>2, <1>7
    <3> QED BY <1>1, <3>1 DEF StatusInv, BesideOK, OwnOK
  <2>2. CASE m # k
    BY <1>1, <1>7, <2>1, <2>2, LateOKKeeps
  <2>3. CASE m = k
    <3>1. LateOK(k)
      BY DEF StatusInv
    <3> QED BY <1>1, <1>2, <1>7, <2>1, <2>3, <3>1 DEF LateOK
  <2> QED BY <2>1, <2>2, <2>3
<1>9. ASSUME NEW m \in Jobs \ {k} PROVE AskedOK(m)' /\ OthersOK(m)' /\ DoneOK(m)'
  <2>1. CASE x[1] \in Addresses(m)
    <3>1. job[m].beside
      BY <1>4, <2>1 DEF StatusInv, BesideOK
    <3> QED BY <1>2, <1>7, <3>1, StatusKeeps
  <2>2. CASE x[1] \notin Addresses(m)
    <3>1. x \notin TasksOf(m) /\ TasksOf(m) \subseteq DOMAIN heap
      BY <2>2, Facts DEF Addresses
    <3>2. Unread(m)
      BY <1>6, <2>2, <3>1 DEF Unread
    <3> QED BY <1>7, <3>2, StatusKeeps
  <2> QED BY <2>1, <2>2
<1>10. AskedOK(k)'
  <2> SUFFICES ASSUME Alone(k), NEW n \in DOMAIN job[k].w, job'[k].w[n] = "asks",
                      job[k].tasks[n] \in Lit', job[k].tasks[n][1] \in Sole'
               PROVE  job[k].tasks[n][1] \in job[k].since
    BY <1>2, <1>7 DEF AskedOK
  <2>1. n # i /\ job[k].w[n] = "asks"
    BY <1>2
  <2>2. n \in DOMAIN job[k].tasks
    BY <1>3 DEF JobOK
  <2>3. job[k].tasks[n][1] \in Sole
    BY SoleWas
  <2>4. job[k].tasks[n] # x
    BY <1>3, <2>1, <2>2, <2>3, TasksDiffer DEF x
  <2>5. job[k].tasks[n] \in Lit
    BY <1>6, <2>4
  <2> QED BY <2>1, <2>3, <2>5 DEF StatusInv, AskedOK
<1>11. OthersOK(k)'
  <2> SUFFICES ASSUME ~job[k].beside, NEW y \in Lit' \ TasksOf(k), y[1] \in Addresses(k)
               PROVE  y[1] \in job[k].since
    BY <1>2, <1>7 DEF OthersOK
  <2>1. y \in Lit
    BY <1>4, <1>6
  <2> QED BY <1>3, <2>1 DEF StatusInv, OthersOK
<1>12. DoneOK(k)'
  <2> SUFFICES ASSUME k \in Web
               PROVE  /\ job[k].tasks[1] \notin Blank'
                      /\ job[k].tasks[1][1] \in job[k].since => job[k].tasks[1] \in Lit'
    BY <1>2 DEF DoneOK
  <2>1. i = 1
    BY <1>3 DEF JobOK
  <2> QED BY <1>6, <2>1 DEF x
<1>13. RoundOK'
  <2>1. Alone(Scheduled)' => Alone(Scheduled) /\ job'[Scheduled].tasks = job[Scheduled].tasks
    <3>1. CASE k = Scheduled
      BY <1>2, <1>7, <3>1
    <3>2. CASE k # Scheduled
      BY <1>1, <1>2, <3>2 DEF Jobs, seen, Alone, Active
    <3> QED BY <3>1, <3>2
  <2>2. \A j \in DOMAIN devices : devices[j][1] \in Sole' => devices[j][1] \in Sole
    BY SoleWas
  <2> QED BY <1>1, <2>1, <2>2 DEF StatusInv, RoundOK
<1> QED BY <1>8, <1>9, <1>10, <1>11, <1>12, <1>13 DEF StatusInv

LEMMA LateDiesStatus ==
    ASSUME ListInv, ListInv', StatusInv, Grows, NEW l \in late, LateDies(l)
    PROVE  StatusInv'
<1>1. late' = late \ {l} /\ UNCHANGED <<devices, job, seen>>
      /\ heap' = Only(heap, Held(job, late') \cup ToSet(devices))
  BY DEF LateDies
<1>2. DOMAIN heap' = Held(job, late') \cup ToSet(devices)
  BY <1>1 DEF ListInv, TypeOK
<1>3. \A x \in DOMAIN heap' : x \in DOMAIN heap
  <2>1. late' \subseteq late /\ \A k \in Jobs : TasksOf(k)' = TasksOf(k)
    BY <1>1 DEF TasksOf
  <2>2. \A x \in Held(job', late') : x \in Held(job, late)
    BY <2>1, HeldIs
  <2> QED BY <1>1, <1>2, <2>2 DEF ListInv, TypeOK
<1>4. \A x \in DOMAIN heap' : heap'[x] = heap[x]
  <2>1. Held(job, late') \cup ToSet(devices) \subseteq DOMAIN heap
    BY <1>2, <1>3
  <2> QED BY <1>1, <1>2, <2>1, OnlyIs
<1>5. \A k \in Jobs : Resumes(k)
  BY <1>1, SameResumes DEF seen
<1> QED BY <1>1, <1>3, <1>4, <1>5, QuietKeeps

LEMMA LateAnswerStatus ==
    ASSUME ListInv, ListInv', StatusInv, Grows, NEW l \in late, LateAnswer(l)
    PROVE  StatusInv'
<1> DEFINE x == l.obj
           ids == Held(job, late') \cup ToSet(devices)
<1>1. late' = late \ {l} /\ UNCHANGED <<devices, job, seen>>
  BY DEF LateAnswer
<1>2. PICK st \in Readings(x, l.since) : heap' = Only(WithStatus(x, st), ids)
  BY DEF LateAnswer, WithStatus
<1>3. x \in DOMAIN heap /\ l.since \in SUBSET changed
  BY Facts DEF ListInv, JobsOK
<1>4. DOMAIN heap' = ids
  BY <1>1 DEF ListInv, TypeOK
<1>5. ids \subseteq DOMAIN heap
  <2>1. late' \subseteq late /\ \A k \in Jobs : TasksOf(k)' = TasksOf(k)
    BY <1>1 DEF TasksOf
  <2>2. \A y \in Held(job', late') : y \in Held(job, late)
    BY <2>1, HeldIs
  <2> QED BY <1>1, <2>2 DEF ListInv, TypeOK
<1>6. \A y \in DOMAIN heap' : y \in DOMAIN heap /\ (y # x => heap'[y] = heap[y])
  <2>1. StatusOK(st, x)
    BY <1>2, <1>3, ReadingIs
  <2> DEFINE h == WithStatus(x, st)
  <2>2. DOMAIN h = DOMAIN heap /\ \A y \in DOMAIN heap : y # x => h[y] = heap[y]
    <3> HIDE DEF x
    <3> QED BY <1>3, <2>1, StatusIs
  <2> HIDE DEF h, ids
  <2>3. heap' = Only(h, ids)
    BY <1>2 DEF h
  <2>4. \A y \in ids : heap'[y] = h[y]
    BY <1>5, <2>2, <2>3, OnlyIs
  <2> QED BY <1>4, <1>5, <2>2, <2>4
<1>7. \A k \in Jobs : /\ Resumes(k) /\ job'[k] = job[k]
                      /\ TasksOf(k)' = TasksOf(k) /\ Addresses(k)' = Addresses(k)
  BY <1>1, SameResumes DEF seen, TasksOf, Addresses
<1> HIDE DEF x, ids
<1>8. ASSUME NEW k \in Jobs PROVE AskedOK(k)' /\ OthersOK(k)' /\ DoneOK(k)'
  <2>1. TasksOf(k) \subseteq DOMAIN heap'
    <3>1. \A y \in TasksOf(k)' : y \in Held(job', late')
      BY HeldIs
    <3> QED BY <1>7, <3>1 DEF ListInv, TypeOK
  <2>2. CASE job[k].beside
    BY <1>7, <2>2, StatusKeeps
  <2>3. CASE ~job[k].beside /\ x[1] \notin Addresses(k)
    <3>1. x \notin TasksOf(k)
      BY <2>3 DEF Addresses
    <3>2. Unread(k)
      BY <1>6, <2>1, <2>3, <3>1 DEF Unread, Lit, Blank
    <3> QED BY <1>7, <3>2, StatusKeeps
  <2>4. CASE ~job[k].beside /\ x[1] \in Addresses(k)
    <3>1. x \in TasksOf(k) /\ job[k].pc # "poll" /\ (k \in Web => job[k].w[1] = "cut")
      BY <2>4 DEF StatusInv, LateOK, x
    <3>2. AskedOK(k)'
      <4>1. JobOK(k)
        BY Facts
      <4>2. Active(k) => \A i \in DOMAIN job[k].w : job[k].w[i] # "asks"
        BY <3>1, <4>1 DEF JobOK, Active
      <4> QED BY <1>7, <4>2 DEF AskedOK, Alone, Active
    <3>3. OthersOK(k)'
      <4> SUFFICES ASSUME Active(k), NEW y \in Lit' \ TasksOf(k), y[1] \in Addresses(k)
                   PROVE  y[1] \in job[k].since
        BY <1>7 DEF OthersOK, Active
      <4>1. y # x /\ y \in DOMAIN heap'
        BY <3>1 DEF Lit
      <4>2. y \in Lit
        BY <1>6, <4>1 DEF Lit
      <4> QED BY <2>4, <4>2 DEF StatusInv, OthersOK
    <3>4. DoneOK(k)'
      BY <1>7, <3>1 DEF DoneOK
    <3> QED BY <3>2, <3>3, <3>4
  <2> QED BY <2>2, <2>3, <2>4
<1>9. ASSUME NEW k \in Jobs PROVE LateOK(k)' /\ BesideOK(k)' /\ OwnOK(k)'
  <2>1. LateOK(k)'
    BY <1>1, <1>7, LateOKKeeps
  <2>2. OwnOK(k)'
    BY <1>1, <1>7 DEF StatusInv, OwnOK
  <2> QED BY <1>7, <2>1, <2>2, BesideKeeps
<1>10. RoundOK'
  BY <1>1, <1>7, RoundKeeps DEF StatusInv, Jobs
<1> QED BY <1>8, <1>9, <1>10 DEF StatusInv

(* A poll is taken up: of the list, or of an object nobody has. *)
LEMMA TakeStatus ==
    ASSUME ListInv, ListInv', StatusInv, Grows, NEW k \in Jobs, NEW s \in Seq(Ids), s # <<>>,
           NEW ips, Take(k, s, ips), ips = {x[1] : x \in ToSet(s)},
           UNCHANGED <<changed, devices, late, seen>>,
           \A x \in DOMAIN heap : x \in DOMAIN heap' /\ heap'[x] = heap[x],
           \A x \in Lit' : x \in Lit,
           k = Scheduled => s = devices,
           k \in Web => ToSet(s) \cap ToSet(devices) = {},
           \A m \in Jobs \ {k} : m \in Web \/ k \in Web => ToSet(s) \cap TasksOf(m) = {}
    PROVE  StatusInv'
<1>1. /\ \A m \in Jobs \ {k} :
            /\ UNCHANGED <<job[m].tasks, job[m].w, job[m].since, job[m].pc, job[m].cross>>
            /\ job[m].beside \/ IpsOf(m) \cap ips # {} => job'[m].beside
      /\ job'[k].tasks = s /\ job'[k].since = changed /\ job'[k].pc = "poll"
      /\ DOMAIN job'[k].w = DOMAIN s /\ \A i \in DOMAIN s : job'[k].w[i] = "asks"
      /\ (\E l \in late : IpOf(l.obj) \in ips)
            \/ (\E m \in Jobs \ {k} : IpsOf(m) \cap ips # {}) => job'[k].beside
  BY TakeIs
<1>2. /\ TasksOf(k)' = ToSet(s) /\ Addresses(k)' = ips
      /\ \A m \in Jobs \ {k} : TasksOf(m)' = TasksOf(m) /\ Addresses(m)' = Addresses(m)
  <2>1. TasksOf(k)' = ToSet(s) /\ \A m \in Jobs \ {k} : TasksOf(m)' = TasksOf(m)
    BY <1>1 DEF TasksOf
  <2> QED BY <2>1 DEF Addresses
<1>3. \A m \in Jobs : IpsOf(m) = Addresses(m)
  BY AddressesAre
<1>4. \A m \in Jobs \ {k} : Resumes(m)
  BY <1>1 DEF Resumes, Alone, Active, seen
<1>5. ASSUME NEW m \in Jobs PROVE BesideOK(m)'
  <2> SUFFICES ASSUME NEW n \in Jobs \ {m}, Addresses(m)' \cap Addresses(n)' # {}
               PROVE  job'[m].beside
    BY DEF BesideOK
  <2>1. CASE m = k
    BY <1>1, <1>2, <1>3, <2>1
  <2>2. CASE n = k
    BY <1>1, <1>2, <1>3, <2>2
  <2>3. CASE m # k /\ n # k
    <3>1. job[m].beside
      BY <1>2, <2>3 DEF StatusInv, BesideOK
    <3> QED BY <1>1, <2>3, <3>1
  <2> QED BY <2>1, <2>2, <2>3
<1>6. ASSUME NEW m \in Jobs PROVE LateOK(m)'
  <2>1. CASE m = k
    <3>1. \A l \in late : IpOf(l.obj) = l.obj[1]
      BY Facts, AddressesAre
    <3> QED BY <1>1, <1>2, <2>1, <3>1 DEF LateOK
  <2>2. CASE m # k
    BY <1>4, <2>2, LateOKKeeps
  <2> QED BY <2>1, <2>2
<1>7. ASSUME NEW m \in Jobs PROVE OwnOK(m)'
  <2> SUFFICES ASSUME m \in Web, NEW x \in TasksOf(m)'
               PROVE  x \notin ToSet(devices) /\ \A n \in Jobs \ {m} : x \notin TasksOf(n)'
    BY DEF OwnOK
  <2>1. CASE m = k
    BY <1>2, <2>1
  <2>2. CASE m # k
    <3>1. x \notin ToSet(devices) /\ \A n \in Jobs \ {m} : x \notin TasksOf(n)
      BY <1>2, <2>2 DEF StatusInv, OwnOK
    <3>2. x \notin ToSet(s)
      BY <1>2, <2>2
    <3> QED BY <1>2, <3>1, <3>2
  <2> QED BY <2>1, <2>2
<1>8. ASSUME NEW m \in Jobs \ {k} PROVE AskedOK(m)' /\ OthersOK(m)' /\ DoneOK(m)'
  <2>1. Unread(m)
    <3>1. TasksOf(m) \subseteq DOMAIN heap
      BY Facts
    <3> QED BY <3>1 DEF Unread, Lit, Blank
  <2> QED BY <1>4, <2>1, StatusKeeps
<1>9. AskedOK(k)' /\ OthersOK(k)' /\ DoneOK(k)'
  <2>1. \A x \in Lit' : x[1] \in job'[k].since
    <3>1. \A x \in Lit : x[1] \in changed
      BY Facts DEF ObjectOK, Lit
    <3> QED BY <1>1, <3>1
  <2>2. 1 \in DOMAIN s
    BY ElementOf
  <2> QED BY <1>1, <2>1, <2>2 DEF AskedOK, OthersOK, DoneOK
<1>10. RoundOK'
  <2>1. CASE k = Scheduled
    BY <1>1, <2>1 DEF RoundOK
  <2>2. CASE k # Scheduled
    <3>1. Scheduled \in Jobs \ {k}
      BY <2>2 DEF Jobs
    <3>2. Alone(Scheduled)' => Alone(Scheduled) /\ job'[Scheduled].tasks = job[Scheduled].tasks
      BY <1>1, <3>1 DEF Alone, Active, seen
    <3>3. \A j \in DOMAIN devices : devices[j][1] \in Sole' => devices[j][1] \in Sole
      BY SoleWas
    <3> QED BY <3>2, <3>3 DEF StatusInv, RoundOK
  <2> QED BY <2>1, <2>2
<1> QED BY <1>5, <1>6, <1>7, <1>8, <1>9, <1>10 DEF StatusInv

LEMMA CollectStatus == ASSUME ListInv, ListInv', StatusInv, Grows, Collect PROVE StatusInv'
<1>1. /\ devices # <<>> /\ UNCHANGED <<changed, heap, devices, late, seen>>
      /\ Take(Scheduled, devices, {IpOf(devices[i]) : i \in DOMAIN devices})
  BY DEF Collect
<1>2. {IpOf(devices[i]) : i \in DOMAIN devices} = {x[1] : x \in ToSet(devices)}
  <2>1. \A i \in DOMAIN devices : IpOf(devices[i]) = devices[i][1]
    BY Facts, AddressesAre
  <2> QED BY <2>1 DEF ToSet
<1>3. Scheduled \in Jobs /\ Scheduled \notin Web
  BY SnmpConstants DEF Jobs
<1>4. \A m \in Jobs \ {Scheduled} : ToSet(devices) \cap TasksOf(m) = {}
  BY DEF StatusInv, OwnOK, Jobs
<1>5. devices \in Seq(Ids)
  BY DEF ListInv, TypeOK
<1>6. \A x \in Lit' : x \in Lit
  BY <1>1 DEF Lit
<1> QED BY <1>1, <1>2, <1>3, <1>4, <1>5, <1>6, TakeStatus

LEMMA GetDeviceInfoStatus ==
    ASSUME ListInv, ListInv', StatusInv, Grows, NEW k \in Web, NEW r \in db, GetDeviceInfo(k, r)
    PROVE  StatusInv'
<1>1. PICK x : x = Fresh(r, DOMAIN heap)
  OBVIOUS
<1>2. /\ Take(k, <<x>>, {r.ip}) /\ UNCHANGED <<changed, devices, late, seen>>
      /\ heap' = [y \in DOMAIN heap \cup {x} |-> IF y = x THEN Object(r) ELSE heap[y]]
  BY <1>1 DEF GetDeviceInfo
<1>3. k \in Jobs /\ k # Scheduled /\ r \in [seq : Nat, ip : Ips]
  BY SnmpConstants, Facts DEF Jobs, TableOK
<1>4. x \in Ids /\ x \notin DOMAIN heap /\ x[1] = r.ip
  BY <1>1, <1>3, FreshIs DEF ListInv, HeapOK
<1>5. PICK s : s = <<x>>
  OBVIOUS
<1>6. s \in Seq(Ids) /\ s # <<>> /\ ToSet(s) = {x} /\ Take(k, s, {r.ip})
  BY <1>2, <1>4, <1>5 DEF ToSet
<1>7. {r.ip} = {y[1] : y \in ToSet(s)}
  BY <1>4, <1>6
<1>8. \A y \in DOMAIN heap : y \in DOMAIN heap' /\ heap'[y] = heap[y]
  BY <1>2, <1>4
<1>9. \A y \in Lit' : y \in Lit
  <2>1. heap'[x] = Object(r)
    BY <1>2
  <2>2. heap'[x].st = None
    BY <2>1 DEF Object
  <2>3. x \notin Lit'
    <3>1. heap'[x].st # TRUE
      BY <2>2, SnmpConstants
    <3> QED BY <3>1, Zenon DEF Lit
  <2> QED BY <1>2, <1>8, <2>3 DEF Lit
<1>10. ToSet(s) \cap ToSet(devices) = {} /\ \A m \in Jobs : ToSet(s) \cap TasksOf(m) = {}
  <2>1. ToSet(devices) \subseteq DOMAIN heap /\ \A m \in Jobs : TasksOf(m) \subseteq DOMAIN heap
    BY Facts DEF ListInv, TypeOK
  <2> QED BY <1>4, <1>6, <2>1
<1>11. PICK ips : ips = {r.ip}
  OBVIOUS
<1>12. Take(k, s, ips) /\ ips = {y[1] : y \in ToSet(s)}
  BY <1>6, <1>7, <1>11
<1>13. /\ k = Scheduled => s = devices
       /\ k \in Web => ToSet(s) \cap ToSet(devices) = {}
       /\ \A m \in Jobs \ {k} : m \in Web \/ k \in Web => ToSet(s) \cap TasksOf(m) = {}
  BY <1>3, <1>10
<1> QED BY <1>2, <1>3, <1>6, <1>8, <1>9, <1>12, <1>13, TakeStatus

LEMMA ReloadStatus == ASSUME ListInv, ListInv', StatusInv, Grows, Reload PROVE StatusInv'
<1>1. Load /\ Reloaded
  BY DEF Reload
<1>2. /\ DOMAIN devices' = DOMAIN Rows
      /\ DOMAIN heap' = Held(job, late) \cup ToSet(devices')
      /\ \A x \in Held(job, late) :
            heap'[x] = [seq |-> heap[x].seq, ip |-> heap[x].ip, st |-> heap[x].st, old |-> TRUE]
      /\ \A i \in DOMAIN Rows :
            /\ devices'[i] \notin Held(job, late)
            /\ heap'[devices'[i]] = Object(Rows[i])
  BY <1>1, LoadIs
<1>3. \A k \in Jobs :
         /\ UNCHANGED <<job[k].pc, job[k].tasks, job[k].w, job[k].since, job[k].beside>>
         /\ Active(k) => job'[k].cross
         /\ ~Active(k) => job'[k] = job[k]
  BY <1>1, ReloadedIs
<1>4. late' = late
  BY <1>1 DEF Reloaded
<1>5. \A k \in Jobs : /\ ~Alone(k)' /\ TasksOf(k)' = TasksOf(k)
                      /\ TasksOf(k) \subseteq Held(job, late)
  <2> TAKE k \in Jobs
  <2>1. ~Alone(k)'
    BY <1>3 DEF Alone, Active
  <2> QED BY <1>3, <2>1, HeldIs DEF TasksOf
<1>6. \A k \in Jobs : Resumes(k)
  BY <1>3, <1>5 DEF Resumes
<1>7. Held(job, late) \subseteq DOMAIN heap
  BY DEF ListInv, TypeOK
<1>8. \A x \in Held(job, late) : heap'[x].st = heap[x].st
  BY <1>2
<1>9. ASSUME NEW x \in ToSet(devices') PROVE x \notin Held(job, late) /\ x \notin Lit'
  <2>1. PICK i \in DOMAIN Rows : x = devices'[i]
    BY <1>2 DEF ToSet
  <2>2. heap'[x].st = None
    <3>1. heap'[x] = Object(Rows[i])
      BY <1>2, <2>1
    <3> QED BY <3>1 DEF Object
  <2>3. heap'[x].st # TRUE
    BY <2>2, SnmpConstants
  <2>4. x \notin Lit'
    BY <2>3, Zenon DEF Lit
  <2> QED BY <1>2, <2>1, <2>4
<1>10. ASSUME NEW k \in Jobs PROVE Unread(k)
  <2>1. \A x \in Held(job, late) : (x \in Lit' <=> x \in Lit) /\ (x \in Blank' <=> x \in Blank)
    BY <1>2, <1>7, <1>8 DEF Lit, Blank
  <2>2. \A x \in Lit' : x \in Held(job, late)
    BY <1>2, <1>9 DEF Lit
  <2> QED BY <1>5, <2>1, <2>2 DEF Unread
<1>11. ASSUME NEW k \in Jobs PROVE OwnOK(k)'
  BY <1>5, <1>9 DEF StatusInv, OwnOK
<1>12. \A k \in Jobs : /\ BesideOK(k)' /\ LateOK(k)'
                       /\ AskedOK(k)' /\ OthersOK(k)' /\ DoneOK(k)'
  BY <1>4, <1>6, <1>10, BesideKeeps, LateOKKeeps, StatusKeeps
<1>13. RoundOK'
  <2>1. Scheduled \in Jobs
    BY DEF Jobs
  <2> QED BY <1>5, <2>1 DEF RoundOK
<1> QED BY <1>11, <1>12, <1>13 DEF StatusInv

(* A round that is undisturbed puts back what is there, for an address of one device. *)
LEMMA RoundPutsBack ==
    ASSUME ListInv, StatusInv, Alone(Scheduled), job[Scheduled].pc = "set",
           Current(Scheduled)[1] \in Sole, job[Scheduled].j \in DOMAIN devices
    PROVE  /\ job[Scheduled].j = job[Scheduled].i
           /\ devices[job[Scheduled].j] = Current(Scheduled)
<1>1. Scheduled \in Jobs
  BY DEF Jobs
<1>2. /\ DOMAIN devices = DOMAIN job[Scheduled].tasks
      /\ \A j \in DOMAIN devices :
            /\ devices[j][1] = job[Scheduled].tasks[j][1]
            /\ devices[j][1] \in Sole => devices[j] = job[Scheduled].tasks[j]
  BY DEF StatusInv, RoundOK
<1>3. job[Scheduled].i \in DOMAIN job[Scheduled].tasks
  BY <1>1, PlacesAre
<1>4. ~job[Scheduled].slip /\ ~torn
  BY <1>1, Facts DEF JobOK, Alone
<1>5. devices[job[Scheduled].j][1] = Current(Scheduled)[1]
  BY <1>1, <1>4 DEF ListInv, PlaceOK
<1>6. job[Scheduled].j = job[Scheduled].i
  BY <1>1, <1>2, <1>3, <1>5, TasksDiffer DEF Current
<1> QED BY <1>2, <1>5, <1>6 DEF Current

LEMMA SetStatus ==
    ASSUME ListInv, ListInv', StatusInv, Grows, NEW k \in Jobs, job[k].pc = "set", NextTask(k),
           UNCHANGED <<changed, late>>, job[k].j <= Len(devices),
           devices' = [devices EXCEPT ![job[k].j] = Current(k)],
           torn' = (torn \/ job[k].slip)
    PROVE  StatusInv'
<1>1. PICK c, n : c = Current(k) /\ n = job[k].j
  OBVIOUS
<1>2. /\ c \in TasksOf(k) /\ n \in DOMAIN devices
      /\ DOMAIN devices' = DOMAIN devices /\ devices'[n] = c
      /\ \A i \in DOMAIN devices \ {n} : devices'[i] = devices[i]
      /\ ToSet(devices') \subseteq ToSet(devices) \cup {c}
      /\ ~job[k].slip /\ ~torn => devices[n][1] = c[1]
  BY <1>1, SetIs
<1>3. \A m \in Jobs : Resumes(m)
  BY NextResumes
<1>4. \A x \in DOMAIN heap' : x \in DOMAIN heap /\ heap'[x] = heap[x]
  <2>1. ToSet(devices') \subseteq ToSet(devices) \cup TasksOf(k)
    BY <1>2
  <2> QED BY <2>1, NextTaskKeeps
<1>5. ASSUME NEW m \in Jobs PROVE AskedOK(m)' /\ OthersOK(m)' /\ DoneOK(m)'
  <2>1. job'[m].tasks # <<>> => Unread(m)
    BY <1>3, <1>4, StaysActive, UnreadIs
  <2> QED BY <1>3, <2>1, StatusKeeps
<1>6. \A m \in Jobs : BesideOK(m)' /\ LateOK(m)'
  BY <1>3, BesideKeeps, LateOKKeeps
<1>7. \A m \in Jobs : TasksOf(m)' \subseteq TasksOf(m)
  BY <1>3, OverIs, StaysActive
<1>8. k \in Web => TasksOf(k)' = {}
  <2> SUFFICES ASSUME k \in Web, job'[k].tasks # <<>> PROVE FALSE
    BY OverIs
  <2>1. DOMAIN job[k].tasks = {1}
    BY Facts DEF JobOK, Active
  <2>2. job[k].i \in DOMAIN job[k].tasks
    BY PlacesAre
  <2>3. job[k].i + 1 \in DOMAIN job[k].tasks
    BY NextTaskIs
  <2> QED BY <2>1, <2>2, <2>3
<1>9. ASSUME NEW m \in Jobs PROVE OwnOK(m)'
  <2> SUFFICES ASSUME m \in Web, NEW x \in TasksOf(m)'
               PROVE  x \notin ToSet(devices') /\ \A p \in Jobs \ {m} : x \notin TasksOf(p)'
    BY DEF OwnOK
  <2>1. x \in TasksOf(m) /\ m # k
    BY <1>7, <1>8
  <2>2. x \notin ToSet(devices) /\ \A p \in Jobs \ {m} : x \notin TasksOf(p)
    BY <2>1 DEF StatusInv, OwnOK
  <2> QED BY <1>2, <1>7, <2>1, <2>2
<1>10. RoundOK'
  <2> SUFFICES ASSUME Alone(Scheduled)'
               PROVE  /\ DOMAIN devices' = DOMAIN job'[Scheduled].tasks
                      /\ \A j \in DOMAIN devices' :
                            /\ devices'[j][1] = job'[Scheduled].tasks[j][1]
                            /\ devices'[j][1] \in Sole' => devices'[j] = job'[Scheduled].tasks[j]
    BY DEF RoundOK
  <2>1. Scheduled \in Jobs
    BY DEF Jobs
  <2>2. job'[Scheduled].tasks # <<>>
    BY <2>1, OverIs
  <2>3. Alone(Scheduled) /\ job'[Scheduled].tasks = job[Scheduled].tasks
    BY <1>3, <2>1, <2>2, StaysActive
  <2>4. /\ DOMAIN devices = DOMAIN job[Scheduled].tasks
        /\ \A j \in DOMAIN devices :
              /\ devices[j][1] = job[Scheduled].tasks[j][1]
              /\ devices[j][1] \in Sole => devices[j] = job[Scheduled].tasks[j]
    BY <2>3 DEF StatusInv, RoundOK
  <2>5. \A j \in DOMAIN devices : devices[j][1] \in Sole' => devices[j][1] \in Sole
    BY SoleWas
  <2>6. devices[n][1] = c[1]
    BY <1>2 DEF Alone
  <2>7. k = Scheduled
    <3> SUFFICES ASSUME k # Scheduled PROVE FALSE
      OBVIOUS
    <3>1. job[Scheduled].tasks[n] \in TasksOf(Scheduled)
      BY <1>2, <2>4 DEF TasksOf, ToSet
    <3>2. c[1] \in Addresses(Scheduled) /\ c[1] \in Addresses(k)
      BY <1>2, <2>4, <2>6, <3>1 DEF Addresses
    <3> QED BY <2>1, <2>3, <3>2 DEF StatusInv, BesideOK, Alone
  <2>8. c[1] \in Sole => c = job[Scheduled].tasks[n]
    BY <1>1, <1>2, <2>3, <2>7, RoundPutsBack DEF Current
  <2> QED BY <1>2, <2>3, <2>4, <2>5, <2>6, <2>8
<1> QED BY <1>5, <1>6, <1>9, <1>10 DEF StatusInv

LEMMA StatusChangeStatus ==
    ASSUME ListInv, ListInv', StatusInv, Grows, NEW k \in Jobs, StatusChange(k)
    PROVE  StatusInv'
<1>1. CASE SkipFailed(k)
  BY <1>1, SkipStatus DEF SkipFailed, Changing, table
<1>2. CASE Find(k)
  <2>1. job[k].pc = "change" /\ UNCHANGED <<changed, devices, late, seen>>
    BY <1>2 DEF Find, Changing
  <2>2. CASE Places(k) = {} /\ NextTask(k)
    BY <2>1, <2>2, SkipStatus
  <2>3. CASE /\ Places(k) # {}
             /\ job' = [job EXCEPT ![k] =
                   [job[k] EXCEPT !.pc = "set", !.j = Min(Places(k))]]
             /\ UNCHANGED heap
    <3>1. Min(Places(k)) \in Nat
      BY <2>1, <2>3, FirstPlaceIs
    <3> QED BY <2>1, <2>3, <3>1, FoundStatus
  <2> QED BY <1>2, <2>2, <2>3 DEF Find
<1>3. CASE Set(k)
  <2>1. job[k].pc = "set" /\ NextTask(k) /\ UNCHANGED <<changed, late>>
    BY <1>3 DEF Set
  <2>2. CASE job[k].j > Len(devices) /\ UNCHANGED <<devices, seen>>
    BY <2>1, <2>2, SkipStatus
  <2>3. CASE /\ job[k].j <= Len(devices)
             /\ devices' = [devices EXCEPT ![job[k].j] = Current(k)]
             /\ torn' = (torn \/ job[k].slip)
    BY <2>1, <2>3, SetStatus
  <2> QED BY <1>3, <2>2, <2>3 DEF Set
<1> QED BY <1>1, <1>2, <1>3 DEF StatusChange

LEMMA StatusInvInit == Init => StatusInv
<1> SUFFICES ASSUME Init PROVE StatusInv
  OBVIOUS
<1>1. late = {} /\ Scheduled \in Jobs /\ \A k \in Jobs : job[k].pc = "idle" /\ job[k].tasks = <<>>
  BY DEF Init, Idle, Jobs
<1>2. \A k \in Jobs : ~Active(k) /\ TasksOf(k) = {} /\ Addresses(k) = {}
  BY <1>1 DEF Active, TasksOf, ToSet, Addresses
<1> QED BY <1>1, <1>2 DEF StatusInv, RoundOK, BesideOK, LateOK, OwnOK, AskedOK, OthersOK,
                           DoneOK, Alone

(* The table and the devices: no poll, no object. *)
LEMMA TableStatus ==
    ASSUME ListInv, ListInv', StatusInv, Grows, UNCHANGED <<heap, devices, job, late, seen>>
    PROVE  StatusInv'
<1>1. \A k \in Jobs : Resumes(k)
  BY SameResumes DEF seen
<1> QED BY <1>1, QuietKeeps

LEMMA TableStepIs ==
    ASSUME TableStep \/ UNCHANGED vars
    PROVE  UNCHANGED <<heap, devices, job, late, seen>>
BY DEF TableStep, CheckIp, InsertDevice, DeleteDevice, UpdateDevice, Edit, Change, vars

LEMMA StatusInvStep == ListInv /\ ListInv' /\ StatusInv /\ [Next]_vars => StatusInv'
<1> SUFFICES ASSUME ListInv, ListInv', StatusInv, [Next]_vars PROVE StatusInv'
  OBVIOUS
<1> Grows
  BY HadGrows
<1>1. CASE TableStep \/ UNCHANGED vars
  BY <1>1, TableStepIs, TableStatus
<1>2. CASE Reload
  BY <1>2, ReloadStatus
<1>3. CASE Collect
  BY <1>3, CollectStatus
<1>4. ASSUME NEW k \in Web, NEW r \in db, GetDeviceInfo(k, r) PROVE StatusInv'
  BY <1>4, GetDeviceInfoStatus
<1>5. ASSUME NEW k \in Jobs, WorkerStep(k) PROVE StatusInv'
  BY <1>5, AnswerStatus DEF WorkerStep
<1>6. ASSUME NEW k \in Jobs, Timeout(k) PROVE StatusInv'
  BY <1>6, TimeoutStatus
<1>7. ASSUME NEW k \in Jobs, StatusChange(k) PROVE StatusInv'
  BY <1>7, StatusChangeStatus
<1>8. ASSUME NEW k \in Jobs, NEW i \in DOMAIN job[k].w, Fail(k, i) PROVE StatusInv'
  BY <1>8, FailStatus
<1>9. ASSUME NEW l \in late, LateAnswer(l) \/ LateDies(l) PROVE StatusInv'
  BY <1>9, LateAnswerStatus, LateDiesStatus
<1> QED BY <1>1, <1>2, <1>3, <1>4, <1>5, <1>6, <1>7, <1>8, <1>9 DEF Next, TableStep

LEMMA StatusInvHolds == Spec => []StatusInv
BY ListInvHolds, StatusInvInit, StatusInvStep, PTL DEF Spec

-----------------------------------------------------------------------------
(* What is shown. *)

LEMMA RankOf ==
    ASSUME NEW st \in BOOLEAN \cup {None}
    PROVE  Rank(st) = IF st = None THEN 0 ELSE IF st = TRUE THEN 2 ELSE 1
<1>1. CASE st = None
  <2>1. st # TRUE /\ st # FALSE
    BY <1>1, SnmpConstants
  <2> QED BY <1>1, <2>1 DEF Rank
<1>2. CASE st = TRUE
  <2>1. st # None /\ st # FALSE
    BY <1>2, SnmpConstants
  <2> QED BY <1>2, <2>1 DEF Rank
<1>3. CASE st = FALSE
  <2>1. st # None /\ st # TRUE
    BY <1>3, SnmpConstants
  <2> QED BY <1>3, <2>1 DEF Rank
<1> QED BY <1>1, <1>2, <1>3

(* The rank of what an object says. *)
Says(x) == IF x \in Blank THEN 0 ELSE IF x \in Lit THEN 2 ELSE 1

LEMMA SaysIs == ListInv => \A x \in DOMAIN heap : Rank(heap[x].st) = Says(x)
<1> SUFFICES ASSUME ListInv, NEW x \in DOMAIN heap PROVE Rank(heap[x].st) = Says(x)
  OBVIOUS
<1>1. heap[x].st \in BOOLEAN \cup {None}
  BY Facts DEF ObjType
<1>2. Rank(heap[x].st) = IF heap[x].st = None THEN 0 ELSE IF heap[x].st = TRUE THEN 2 ELSE 1
  BY <1>1, RankOf
<1>3. x \in Blank <=> heap[x].st = None
  BY DEF Blank
<1>4. x \in Lit <=> heap[x].st = TRUE
  BY Zenon DEF Lit
<1> QED BY <1>2, <1>3, <1>4, Zenon DEF Says

(* What is shown is what the first entry says. *)
ShowsFirst ==
    \A q : \/ Entries(q) = {} /\ Rank(Shown(q)) = 0
           \/ \E j \in Entries(q) : /\ \A i \in Entries(q) : j <= i
                                    /\ Rank(Shown(q)) = Says(devices[j])

LEMMA ShownIs == ListInv => ShowsFirst
<1> SUFFICES ASSUME ListInv, NEW q
             PROVE  \/ Entries(q) = {} /\ Rank(Shown(q)) = 0
                    \/ \E j \in Entries(q) : /\ \A i \in Entries(q) : j <= i
                                             /\ Rank(Shown(q)) = Says(devices[j])
  BY DEF ShowsFirst
<1>1. CASE Entries(q) = {}
  <2>1. Shown(q) = None
    BY <1>1 DEF Shown
  <2>2. Rank(None) = 0
    BY RankOf
  <2> QED BY <1>1, <2>1, <2>2
<1>2. CASE Entries(q) # {}
  <2>1. Entries(q) \subseteq DOMAIN devices /\ DOMAIN devices \subseteq Nat
    BY ElementOf DEF Entries, ListInv, TypeOK
  <2>2. \E j \in Entries(q) : \A i \in Entries(q) : j <= i
    BY <1>2, <2>1, LeastOf
  <2>3. PICK j : j = CHOOSE n \in Entries(q) : \A i \in Entries(q) : n <= i
    OBVIOUS
  <2>4. j \in Entries(q) /\ \A i \in Entries(q) : j <= i
    BY <2>2, <2>3
  <2>5. Shown(q) = heap[devices[j]].st
    BY <1>2, <2>3 DEF Shown
  <2>6. devices[j] \in DOMAIN heap
    BY <2>1, <2>4, Facts
  <2>7. Rank(Shown(q)) = Says(devices[j])
    BY <2>5, <2>6, SaysIs
  <2> QED BY <2>4, <2>7
<1> QED BY <1>1, <1>2

LEMMA ShownNext == ListInv' => ShowsFirst'
BY ShownIs, PTL

(* A step that leaves the entries in their places lowers what is shown only  *)
(* where it lowers what an entry says.                                       *)
LEMMA ShownStays ==
    ASSUME ListInv, ListInv', NEW q, Entries(q)' = Entries(q),
           \A j \in Entries(q) : Says(devices[j])' >= Says(devices[j])
    PROVE  ~(Rank(Shown(q))' < Rank(Shown(q)))
<1>1. \/ Entries(q) = {} /\ Rank(Shown(q)) = 0
      \/ \E j \in Entries(q) : /\ \A i \in Entries(q) : j <= i
                               /\ Rank(Shown(q)) = Says(devices[j])
  BY ShownIs DEF ShowsFirst
<1>2. \/ Entries(q)' = {} /\ Rank(Shown(q))' = 0
      \/ \E j \in Entries(q)' : /\ \A i \in Entries(q)' : j <= i
                                /\ Rank(Shown(q))' = Says(devices[j])'
  BY ShownNext DEF ShowsFirst
<1>3. CASE Entries(q) = {}
  BY <1>1, <1>2, <1>3
<1>4. CASE Entries(q) # {}
  <2>1. Entries(q) \subseteq Nat
    BY ElementOf DEF Entries, ListInv, TypeOK
  <2>2. PICK j \in Entries(q) : /\ \A i \in Entries(q) : j <= i
                                /\ Rank(Shown(q)) = Says(devices[j])
    BY <1>1, <1>4
  <2>3. PICK n \in Entries(q) : /\ \A i \in Entries(q) : n <= i
                                /\ Rank(Shown(q))' = Says(devices[n])'
    BY <1>2, <1>4
  <2>4. n = j
    BY <2>1, <2>2, <2>3
  <2>5. Says(devices[j]) \in Nat /\ Says(devices[j])' \in Nat
    BY DEF Says
  <2> QED BY <2>2, <2>3, <2>4, <2>5
<1> QED BY <1>3, <1>4

LEMMA KeptShows ==
    ASSUME ListInv, ListInv', devices' = devices,
           \A x \in DOMAIN heap' : x \in DOMAIN heap => heap'[x] = heap[x]
    PROVE  ~GoesBack
<1>1. \A j \in DOMAIN devices : /\ devices[j] \in DOMAIN heap /\ devices[j] \in DOMAIN heap'
                                /\ heap'[devices[j]] = heap[devices[j]]
  <2>1. ToSet(devices) \subseteq DOMAIN heap'
    BY DEF ListInv, TypeOK
  <2> QED BY <2>1, Facts DEF ToSet
<1>2. ASSUME NEW q PROVE ~(Rank(Shown(q))' < Rank(Shown(q)))
  <2>1. Entries(q)' = Entries(q)
    BY <1>1 DEF Entries
  <2>2. \A j \in Entries(q) : Says(devices[j])' = Says(devices[j]) /\ Says(devices[j]) \in Nat
    BY <1>1 DEF Entries, Says, Lit, Blank
  <2>3. \A j \in Entries(q) : Says(devices[j])' >= Says(devices[j])
    BY <2>2
  <2> QED BY <2>1, <2>3, ShownStays
<1> QED BY <1>2 DEF GoesBack

(* The entries of a settled device are the ones of its address. *)
LEMMA SettledIs ==
    ASSUME ListInv, NEW r \in db, Settled(r), NEW x \in DOMAIN heap
    PROVE  (heap[x].seq = r.seq <=> x[1] = r.ip) /\ (x[1] = r.ip => x[1] \in Sole)
<1>1. x[1] \in Ips /\ heap[x].seq \in had[x[1]]
  BY Facts DEF ObjectOK
<1> QED BY <1>1 DEF Settled, Sole

(* A reading in time says no less than what was there. *)
LEMMA ReadShows ==
    ASSUME ListInv, ListInv', StatusInv, NEW k \in Jobs, NEW i \in DOMAIN job[k].w, Answer(k, i),
           ~job[k].beside, ~job[k].cross, ~torn
    PROVE  ~GoesBack
<1>1. /\ job[k].pc = "poll" /\ job[k].w[i] = "asks" /\ devices' = devices
  BY DEF Answer
<1>2. JobOK(k) /\ job[k].since \in SUBSET changed /\ i \in DOMAIN job[k].tasks /\ Alone(k)
  BY <1>1, Facts DEF JobOK, Active, Alone
<1>3. PICK x : x = job[k].tasks[i]
  OBVIOUS
<1>4. x \in DOMAIN heap
  BY <1>2, <1>3, Facts DEF TasksOf, ToSet
<1>5. PICK st \in Readings(x, job[k].since) : heap' = WithStatus(x, st)
  BY <1>3 DEF Answer, WithStatus
<1>6. /\ x \notin Blank' /\ (x[1] \in job[k].since => x \in Lit')
      /\ DOMAIN heap' = DOMAIN heap
      /\ \A y \in DOMAIN heap : /\ heap'[y].seq = heap[y].seq
                                /\ y # x => heap'[y] = heap[y]
  BY <1>2, <1>4, <1>5, ReadIs
<1>7. x \in Lit /\ x[1] \in Sole => x \in Lit'
  BY <1>1, <1>2, <1>3, <1>6 DEF StatusInv, AskedOK
<1>8. \A j \in DOMAIN devices : devices[j] \in DOMAIN heap
  BY Facts
<1>9. ASSUME NEW y \in DOMAIN heap, y[1] \in Sole PROVE Says(y)' >= Says(y)
  <2>1. CASE y = x
    <3>1. Says(y)' = IF y \in Lit' THEN 2 ELSE 1
      BY <1>6, <2>1 DEF Says
    <3>2. Says(y) \in {0, 1} \/ (Says(y) = 2 /\ y \in Lit)
      BY DEF Says
    <3>3. (Says(y)' = 1 \/ Says(y)' = 2) /\ (y \in Lit => Says(y)' = 2)
      BY <1>7, <1>9, <2>1, <3>1
    <3> QED BY <3>2, <3>3
  <2>2. CASE y # x
    <3>1. (y \in Lit' <=> y \in Lit) /\ (y \in Blank' <=> y \in Blank)
      BY <1>6, <2>2 DEF Lit, Blank
    <3>2. Says(y)' = Says(y) /\ Says(y) \in Nat
      BY <3>1 DEF Says
    <3> QED BY <3>2
  <2> QED BY <2>1, <2>2
<1>10. ASSUME NEW r \in db, Settled(r)
       PROVE  ~(Rank(Shown(r.seq))' < Rank(Shown(r.seq)))
  <2>1. Entries(r.seq)' = Entries(r.seq)
    BY <1>1, <1>6, <1>8 DEF Entries
  <2>2. ASSUME NEW j \in Entries(r.seq) PROVE Says(devices[j])' >= Says(devices[j])
    <3>1. PICK y : y = devices[j]
      OBVIOUS
    <3>2. y \in DOMAIN heap /\ devices'[j] = y /\ heap[y].seq = r.seq
      BY <1>1, <1>8, <3>1 DEF Entries
    <3>3. Says(y)' >= Says(y)
      <4>1. y[1] \in Sole
        BY <1>10, <3>2, SettledIs
      <4> QED BY <1>9, <3>2, <4>1
    <3> QED BY <3>1, <3>2, <3>3 DEF Says
  <2> QED BY <2>1, <2>2, ShownStays
<1> QED BY <1>10 DEF GoesBack

(* A request that was answered in time puts no less into the list. *)
LEMMA SetShows ==
    ASSUME ListInv, ListInv', StatusInv, NEW k \in Jobs, job[k].pc = "set", NextTask(k),
           UNCHANGED <<table, changed, late>>, job[k].j <= Len(devices),
           devices' = [devices EXCEPT ![job[k].j] = Current(k)],
           ~job[k].beside, ~job[k].cross, ~torn,
           k \in Web => job[k].w[job[k].i] # "cut"
    PROVE  ~GoesBack
<1>1. PICK c, n : c = Current(k) /\ n = job[k].j
  OBVIOUS
<1>2. Alone(k) /\ JobOK(k) /\ ~job[k].slip
  BY Facts DEF Alone, Active, JobOK
<1>3. /\ c \in TasksOf(k) /\ n \in DOMAIN devices
      /\ DOMAIN devices' = DOMAIN devices /\ devices'[n] = c
      /\ \A i \in DOMAIN devices \ {n} : devices'[i] = devices[i]
      /\ ToSet(devices') \subseteq ToSet(devices) \cup {c}
      /\ devices[n][1] = c[1]
  BY <1>1, <1>2, SetIs
<1>4. \A x \in DOMAIN heap' : x \in DOMAIN heap /\ heap'[x] = heap[x]
  <2>1. ToSet(devices') \subseteq ToSet(devices) \cup TasksOf(k)
    BY <1>3
  <2> QED BY <2>1, NextTaskKeeps
<1>5. CASE k = Scheduled
  <2> SUFFICES ASSUME NEW r \in db, Settled(r), GoesBack
               PROVE  ~(Rank(Shown(r.seq))' < Rank(Shown(r.seq)))
    BY DEF GoesBack
  <2>1. CASE c[1] = r.ip
    <3>1. c[1] \in Sole
      BY <1>3, <2>1, Facts, SettledIs
    <3>2. devices[n] = c
      BY <1>1, <1>2, <1>3, <1>5, <3>1, RoundPutsBack
    <3>3. devices' = devices
      <4>1. devices' = [devices EXCEPT ![n] = devices[n]]
        BY <1>1, <3>2
      <4>2. devices = [i \in DOMAIN devices |-> devices[i]]
        BY ElementOf DEF ListInv, TypeOK
      <4> QED BY <4>1, <4>2
    <3> QED BY <1>4, <3>3, KeptShows
  <2>2. CASE c[1] # r.ip
    <3>1. \A j \in DOMAIN devices : devices[j] \in DOMAIN heap
      BY Facts
    <3>2. \A j \in DOMAIN devices : devices'[j] \in DOMAIN heap' /\ devices'[j] \in DOMAIN heap
      <4>1. ToSet(devices') \subseteq DOMAIN heap'
        BY DEF ListInv, TypeOK
      <4>2. \A j \in DOMAIN devices : devices'[j] \in DOMAIN heap'
        BY <1>3, <4>1 DEF ToSet
      <4> QED BY <1>4, <4>2
    <3>3. \A x \in DOMAIN heap : heap[x].seq = r.seq <=> x[1] = r.ip
      BY SettledIs
    <3>4. \A j \in DOMAIN devices :
             heap'[devices'[j]].seq = r.seq <=> heap[devices[j]].seq = r.seq
      BY <1>3, <1>4, <3>1, <3>2, <3>3
    <3>5. Entries(r.seq)' = Entries(r.seq)
      BY <1>3, <3>4 DEF Entries
    <3>6. ASSUME NEW j \in Entries(r.seq) PROVE Says(devices[j])' >= Says(devices[j])
      <4>1. j \in DOMAIN devices /\ devices[j][1] = r.ip
        BY <3>1, <3>3 DEF Entries
      <4>2. devices'[j] = devices[j] /\ devices[j] \in DOMAIN heap'
        BY <1>3, <2>2, <3>2, <4>1
      <4>3. heap'[devices[j]] = heap[devices[j]]
        BY <1>4, <4>2
      <4>4. Says(devices[j])' = Says(devices[j]) /\ Says(devices[j]) \in Nat
        BY <1>4, <4>2, <4>3 DEF Says, Lit, Blank
      <4> QED BY <4>4
    <3> QED BY <3>5, <3>6, ShownStays
  <2> QED BY <2>1, <2>2
<1>6. CASE k \in Web
  <2>1. job[k].i = 1 /\ job[k].w[1] = "done" /\ c = job[k].tasks[1]
    <3>1. job[k].i \in DOMAIN job[k].tasks /\ job[k].i \in DOMAIN job[k].w
      BY PlacesAre
    <3>2. job[k].i = 1
      BY <1>2, <1>6, <3>1 DEF JobOK, Active
    <3>3. job[k].w[1] \in Results
      BY <3>1, <3>2, Facts, ElementOf DEF JobType
    <3>4. job[k].w[1] \notin {"cut", "asks", "fails"}
      BY <1>2, <1>6, <3>1, <3>2 DEF JobOK
    <3> QED BY <1>1, <3>2, <3>3, <3>4 DEF Results, Current
  <2>2. c \notin Blank /\ (c[1] \in job[k].since => c \in Lit)
    BY <1>2, <1>6, <2>1 DEF StatusInv, DoneOK, Alone
  <2>3. \A j \in DOMAIN devices : devices[j] \in DOMAIN heap
    BY Facts
  <2>4. devices[n] \in Lit => c \in Lit
    <3>1. devices[n] \notin TasksOf(k)
      BY <1>3, <1>6 DEF StatusInv, OwnOK, ToSet
    <3>2. devices[n][1] \in Addresses(k)
      BY <1>3 DEF Addresses
    <3>3. devices[n] \in Lit => devices[n][1] \in job[k].since
      BY <1>2, <3>1, <3>2 DEF StatusInv, OthersOK, Alone
    <3> QED BY <1>3, <2>2, <3>3
  <2>5. \A j \in DOMAIN devices : devices'[j] \in DOMAIN heap' /\ devices'[j] \in DOMAIN heap
    <3>1. ToSet(devices') \subseteq DOMAIN heap'
      BY DEF ListInv, TypeOK
    <3>2. \A j \in DOMAIN devices : devices'[j] \in DOMAIN heap'
      BY <1>3, <3>1 DEF ToSet
    <3> QED BY <1>4, <3>2
  <2>6. \A y \in DOMAIN heap' : (y \in Lit' <=> y \in Lit) /\ (y \in Blank' <=> y \in Blank)
    BY <1>4 DEF Lit, Blank
  <2>7. ASSUME NEW j \in DOMAIN devices PROVE Says(devices[j])' >= Says(devices[j])
    <3>1. Says(devices[j])' = Says(devices'[j])
      BY <2>5, <2>6 DEF Says
    <3>2. CASE j = n
      <4>1. Says(c) = IF c \in Lit THEN 2 ELSE 1
        BY <2>2 DEF Says
      <4>2. Says(devices[n]) \in {0, 1} \/ (Says(devices[n]) = 2 /\ devices[n] \in Lit)
        BY DEF Says
      <4>3. (Says(c) = 1 \/ Says(c) = 2) /\ (devices[n] \in Lit => Says(c) = 2)
        BY <2>4, <4>1
      <4> QED BY <1>3, <3>1, <3>2, <4>2, <4>3
    <3>3. CASE j # n
      <4>1. Says(devices'[j]) = Says(devices[j]) /\ Says(devices[j]) \in Nat
        BY <1>3, <3>3 DEF Says
      <4> QED BY <3>1, <4>1
    <3> QED BY <3>2, <3>3
  <2>8. ASSUME NEW r \in db, Settled(r)
        PROVE  ~(Rank(Shown(r.seq))' < Rank(Shown(r.seq)))
    <3>1. \A x \in DOMAIN heap : heap[x].seq = r.seq <=> x[1] = r.ip
      BY <2>8, SettledIs
    <3>2. \A j \in DOMAIN devices : devices'[j][1] = devices[j][1]
      BY <1>3
    <3>3. \A j \in DOMAIN devices : heap'[devices'[j]].seq = r.seq <=> heap[devices[j]].seq = r.seq
      BY <1>4, <2>3, <2>5, <3>1, <3>2
    <3>4. Entries(r.seq)' = Entries(r.seq)
      BY <1>3, <3>3 DEF Entries
    <3>5. \A j \in Entries(r.seq) : Says(devices[j])' >= Says(devices[j])
      BY <2>7 DEF Entries
    <3> QED BY <3>4, <3>5, ShownStays
  <2> QED BY <2>8 DEF GoesBack
<1> QED BY <1>5, <1>6 DEF Jobs

(* The steps that may take a status back. *)
Contended ==
    \/ Reload
    \/ \E l \in late : LateAnswer(l)
    \/ \E k \in Jobs :
          /\ job[k].beside \/ job[k].cross \/ torn
             \/ (k \in Web /\ job[k].pc = "set" /\ job[k].w[job[k].i] = "cut")
          /\ Set(k) \/ \E i \in DOMAIN job[k].w : Answer(k, i)

LEMMA StatusChangeShows ==
    ASSUME ListInv, ListInv', StatusInv, NEW k \in Jobs, StatusChange(k), GoesBack
    PROVE  Contended
<1>1. ASSUME job[k].pc \in {"change", "set"}, NextTask(k),
             UNCHANGED <<changed, devices, late, seen>>
      PROVE  FALSE
  <2>1. \A x \in DOMAIN heap' : x \in DOMAIN heap /\ heap'[x] = heap[x]
    BY <1>1, NextTaskKeeps
  <2> QED BY <1>1, <2>1, KeptShows
<1>2. CASE SkipFailed(k)
  BY <1>1, <1>2 DEF SkipFailed, Changing
<1>3. CASE Find(k)
  <2>1. job[k].pc = "change" /\ UNCHANGED <<changed, devices, late, seen>>
    BY <1>3 DEF Find, Changing
  <2>2. CASE NextTask(k)
    BY <1>1, <2>1, <2>2
  <2>3. CASE UNCHANGED heap
    BY <2>1, <2>3, KeptShows
  <2> QED BY <1>3, <2>2, <2>3 DEF Find
<1>4. CASE Set(k)
  <2>1. job[k].pc = "set" /\ NextTask(k) /\ UNCHANGED <<table, changed, late>>
    BY <1>4 DEF Set
  <2>2. CASE job[k].j > Len(devices) /\ UNCHANGED <<devices, seen>>
    BY <1>1, <2>1, <2>2
  <2>3. CASE job[k].j <= Len(devices) /\ devices' = [devices EXCEPT ![job[k].j] = Current(k)]
    BY <1>4, <2>1, <2>3, SetShows DEF Contended
  <2> QED BY <1>4, <2>2, <2>3 DEF Set
<1> QED BY <1>2, <1>3, <1>4 DEF StatusChange

LEMMA StepShows ==
    ASSUME ListInv, ListInv', StatusInv, [Next]_vars, GoesBack
    PROVE  Contended
<1>1. CASE TableStep \/ UNCHANGED vars
  BY <1>1, TableStepIs, KeptShows
<1>2. CASE Reload
  BY <1>2 DEF Contended
<1>3. CASE Collect
  BY <1>3, KeptShows DEF Collect
<1>4. ASSUME NEW k \in Web, NEW r \in db, GetDeviceInfo(k, r) PROVE FALSE
  <2>1. /\ devices' = devices
        /\ heap' = [y \in DOMAIN heap \cup {Fresh(r, DOMAIN heap)} |->
              IF y = Fresh(r, DOMAIN heap) THEN Object(r) ELSE heap[y]]
    BY <1>4 DEF GetDeviceInfo
  <2>2. Fresh(r, DOMAIN heap) \notin DOMAIN heap
    BY Facts, FreshIs DEF TableOK, ListInv, HeapOK
  <2>3. \A x \in DOMAIN heap' : x \in DOMAIN heap => heap'[x] = heap[x]
    BY <2>1, <2>2
  <2> QED BY <2>1, <2>3, KeptShows
<1>5. ASSUME NEW k \in Jobs, WorkerStep(k) PROVE Contended
  BY <1>5, ReadShows DEF WorkerStep, Contended
<1>6. ASSUME NEW k \in Jobs, Timeout(k) PROVE FALSE
  BY <1>6, KeptShows DEF Timeout
<1>7. ASSUME NEW k \in Jobs, StatusChange(k) PROVE Contended
  BY <1>7, StatusChangeShows
<1>8. ASSUME NEW k \in Jobs, NEW i \in DOMAIN job[k].w, Fail(k, i) PROVE FALSE
  BY <1>8, KeptShows DEF Fail
<1>9. ASSUME NEW l \in late, LateDies(l) PROVE FALSE
  <2>1. UNCHANGED <<devices, job>> /\ late' = late \ {l}
        /\ heap' = Only(heap, Held(job, late') \cup ToSet(devices))
    BY <1>9 DEF LateDies
  <2>2. DOMAIN heap' = Held(job, late') \cup ToSet(devices)
    BY <2>1 DEF ListInv, TypeOK
  <2>3. DOMAIN heap' \subseteq DOMAIN heap
    BY <2>1, <2>2 DEF Only, Restrict
  <2>4. \A x \in DOMAIN heap' : heap'[x] = heap[x]
    BY <2>1, <2>2, <2>3, OnlyIs
  <2> QED BY <2>1, <2>4, KeptShows
<1>10. CASE \E l \in late : LateAnswer(l)
  BY <1>10 DEF Contended
<1> QED BY <1>1, <1>2, <1>3, <1>4, <1>5, <1>6, <1>7, <1>8, <1>9, <1>10 DEF Next, TableStep

(* What is shown for a device that kept its address falls back to an earlier *)
(* reading, or to none, only by a reload, a late worker, a request that set  *)
(* an object without an answer, or a poll that another poll of the address   *)
(* or a reload overlapped, for any table, requests and bounds.               *)
(* (SnmpPolling.statusChange, SnmpThread.call.)                              *)
THEOREM StatusGoesBackIfContended == Spec => GoesBackOnlyIfContended
<1>1. ListInv /\ ListInv' /\ StatusInv /\ [Next]_vars => [GoesBack => Contended]_vars
  BY StepShows
<1>2. [][GoesBack => Contended]_vars <=> GoesBackOnlyIfContended
  BY DEF Contended, GoesBackOnlyIfContended
<1> QED BY <1>1, <1>2, ListInvHolds, StatusInvHolds, PTL DEF Spec

=============================================================================
