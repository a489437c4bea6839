------------------------ MODULE SessionRegistryProofs ------------------------
(* Proofs about SessionRegistry, for any sessions, operators, threads,      *)
(* policies and bounds.                                                     *)
EXTENDS SessionRegistry, SequenceTheorems, TLAPS

Pcs     == {"idle", "scan", "exists", "kick", "kickOut", "create", "check", "add", "store"}
Thread  == [pc : Pcs, ses : Session \cup {Null}, adm : Admin \cup {Nobody}, i : Nat,
            e : Session \cup {Null}, todo : SUBSET Session]
Pass    == [pc : {"idle", "get", "drop", "dropTell", "out"}, i : Nat, e : Session \cup {Null}]
Slots   == Session \cup {Null}
Marks   == {Blind(s) : s \in Session}

(* Where a thread has stored the credential of its session. *)
Stored  == {"check", "add", "store"}
Kicks   == {"kick", "kickOut"}

(* HttpSession.invalidate drops the attributes. *)
CredOK == \A s \in Session : s \notin valid => cred[s] = Nobody

ThrOK(p) ==
    /\ thr[p].pc # "idle" => thr[p].ses \in Session /\ thr[p].adm \in Admin
    /\ thr[p].pc = "kickOut" => thr[p].i # 0

SweepOK == sweep.pc # "idle" => sweep.i # 0

ReachesOK(p) ==
    \A s \in thr[p].todo :
        LoggedIn(s) /\ cred[s] = thr[p].adm =>
            \/ s \in blame
            \/ /\ thr[p].pc \in Kicks
               /\ \E k \in 1..Len(list) : k <= thr[p].i /\ list[k] = s

IInv ==
    /\ TypeOK /\ CredOK /\ SweepOK
    /\ \A p \in Login : ThrOK(p) /\ ReachesOK(p)
    /\ RegisteredOrBlamed

-----------------------------------------------------------------------------
(* The types in the form the proofs use. *)
LEMMA TypeParts ==
    TypeOK <=> /\ list \in Seq(Slots) /\ cred \in [Session -> Admin \cup {Nobody}]
               /\ valid \subseteq Session /\ idle \subseteq valid /\ stale \subseteq Login
               /\ blame \subseteq Session \cup Marks
               /\ thr \in [Login -> Thread] /\ sweep \in Pass
BY DEF TypeOK, Slots, Marks, Thread, Pcs, Pass

LEMMA Facts ==
    ASSUME IInv
    PROVE  /\ list \in Seq(Slots) /\ cred \in [Session -> Admin \cup {Nobody}]
           /\ valid \subseteq Session /\ idle \subseteq valid /\ stale \subseteq Login
           /\ blame \subseteq Session \cup Marks
           /\ thr \in [Login -> Thread] /\ sweep \in Pass
           /\ Len(list) \in Nat /\ \A k \in 1..Len(list) : list[k] \in Slots
<1>1. list \in Seq(Slots)
  BY TypeParts DEF IInv
<1> QED BY <1>1, TypeParts DEF IInv

LEMMA EntriesAre ==
    ASSUME list \in Seq(Slots)
    PROVE  \A s : s \in Entries <=> \E k \in 1..Len(list) : list[k] = s
BY DEF Entries, ToSet

LEMMA EntriesWillBe ==
    ASSUME list' \in Seq(Slots)
    PROVE  \A s : s \in Entries' <=> \E k \in 1..Len(list') : list'[k] = s
BY DEF Entries, ToSet

(* sessions.remove(k): what lay above moves down. *)
LEMMA RemoveAtIs ==
    ASSUME NEW S, NEW l \in Seq(S), NEW k \in 1..Len(l)
    PROVE  /\ RemoveAt(l, k) \in Seq(S) /\ Len(RemoveAt(l, k)) = Len(l) - 1
           /\ \A j \in 1..(Len(l) - 1) :
                 RemoveAt(l, k)[j] = IF j < k THEN l[j] ELSE l[j + 1]
<1> DEFINE a == SubSeq(l, 1, k - 1)
           b == SubSeq(l, k + 1, Len(l))
<1>1. a \in Seq(S) /\ Len(a) = k - 1 /\ \A j \in 1..(k - 1) : a[j] = l[j]
  OBVIOUS
<1>2. b \in Seq(S) /\ Len(b) = Len(l) - k /\ \A j \in 1..(Len(l) - k) : b[j] = l[k + j]
  OBVIOUS
<1>3. RemoveAt(l, k) = a \o b
  BY DEF RemoveAt
<1> HIDE DEF a, b
<1>4. /\ a \o b \in Seq(S) /\ Len(a \o b) = Len(l) - 1
      /\ \A j \in 1..(Len(l) - 1) : (a \o b)[j] = IF j < k THEN a[j] ELSE b[j - (k - 1)]
  <2>1. /\ a \o b \in Seq(S) /\ Len(a \o b) = Len(a) + Len(b)
        /\ \A j \in 1..(Len(a) + Len(b)) : (a \o b)[j] = IF j <= Len(a) THEN a[j] ELSE b[j - Len(a)]
    BY <1>1, <1>2, ConcatProperties
  <2>2. Len(a) + Len(b) = Len(l) - 1
    BY <1>1, <1>2
  <2> QED BY <1>1, <2>1, <2>2
<1>5. ASSUME NEW j \in 1..(Len(l) - 1)
      PROVE  (a \o b)[j] = IF j < k THEN l[j] ELSE l[j + 1]
  <2>1. CASE j < k
    BY <1>1, <1>4, <2>1
  <2>2. CASE ~(j < k)
    <3>1. j - (k - 1) \in 1..(Len(l) - k) /\ k + (j - (k - 1)) = j + 1
      BY <2>2
    <3>2. b[j - (k - 1)] = l[j + 1]
      BY <1>2, <3>1
    <3> QED BY <1>4, <2>2, <3>2
  <2> QED BY <2>1, <2>2
<1> QED BY <1>3, <1>4, <1>5

(* sessions.add with a size that is out of date. *)
LEMMA StoreAtIs ==
    ASSUME list \in Seq(Slots), NEW n \in Nat, NEW s \in Session
    PROVE  /\ StoreAt(n, s) \in Seq(Slots) /\ Len(StoreAt(n, s)) = n + 1
           /\ StoreAt(n, s)[n + 1] = s
           /\ \A k \in 1..n : k <= Len(list) => StoreAt(n, s)[k] = list[k]
<1> DEFINE f == [k \in 1..(n + 1) |-> IF k = n + 1 THEN s
                                      ELSE IF k <= Len(list) THEN list[k] ELSE Null]
<1>1. f = StoreAt(n, s)
  BY DEF StoreAt
<1>2. \A k \in 1..(n + 1) : f[k] \in Slots
  BY DEF Slots
<1>3. f \in [1..(n + 1) -> Slots]
  BY <1>2
<1>4. f \in Seq(Slots)
  BY <1>3, SeqDef
<1>5. Len(f) = n + 1
  BY <1>3, <1>4
<1>6. f[n + 1] = s /\ \A k \in 1..n : k <= Len(list) => f[k] = list[k]
  OBVIOUS
<1> HIDE DEF f
<1> QED BY <1>1, <1>4, <1>5, <1>6

-----------------------------------------------------------------------------
(* The thread of a step. *)
Becomes(p, r) == r \in Thread /\ thr' = [thr EXCEPT ![p] = r]

LEMMA BecomesIs ==
    ASSUME thr \in [Login -> Thread], NEW p \in Login, NEW r, Becomes(p, r)
    PROVE  /\ thr' \in [Login -> Thread] /\ thr'[p] = r
           /\ \A q \in Login : q # p => thr'[q] = thr[q]
BY DEF Becomes

LEMMA GotoIs ==
    ASSUME thr \in [Login -> Thread], NEW p \in Login, NEW l \in Pcs, Goto(p, l)
    PROVE  \E r : /\ Becomes(p, r) /\ r.pc = l /\ r.ses = thr[p].ses /\ r.adm = thr[p].adm
                  /\ r.i = thr[p].i /\ r.e = thr[p].e /\ r.todo = thr[p].todo
<1> DEFINE r == [thr[p] EXCEPT !.pc = l]
<1>1. thr' = [thr EXCEPT ![p] = r]
  BY DEF Goto
<1>2. thr[p] \in Thread
  OBVIOUS
<1>3. /\ r \in Thread /\ r.pc = l /\ r.ses = thr[p].ses /\ r.adm = thr[p].adm
      /\ r.i = thr[p].i /\ r.e = thr[p].e /\ r.todo = thr[p].todo
  BY <1>2 DEF Thread
<1> HIDE DEF r
<1> QED BY <1>1, <1>3 DEF Becomes

LEMMA SetAtIs ==
    ASSUME thr \in [Login -> Thread], NEW p \in Login, NEW k \in Nat, SetAt(p, k)
    PROVE  \E r : /\ Becomes(p, r) /\ r.pc = thr[p].pc /\ r.ses = thr[p].ses /\ r.adm = thr[p].adm
                  /\ r.i = k /\ r.e = thr[p].e /\ r.todo = thr[p].todo
<1> DEFINE r == [thr[p] EXCEPT !.i = k]
<1>1. thr' = [thr EXCEPT ![p] = r]
  BY DEF SetAt
<1>2. thr[p] \in Thread
  OBVIOUS
<1>3. /\ r \in Thread /\ r.pc = thr[p].pc /\ r.ses = thr[p].ses /\ r.adm = thr[p].adm
      /\ r.i = k /\ r.e = thr[p].e /\ r.todo = thr[p].todo
  BY <1>2 DEF Thread
<1> HIDE DEF r
<1> QED BY <1>1, <1>3 DEF Becomes

LEMMA FinishIs ==
    ASSUME NEW p \in Login, Finish(p)
    PROVE  \E r : Becomes(p, r) /\ r.pc = "idle" /\ r.todo = {}
<1>1. IdleThr \in Thread /\ IdleThr.pc = "idle" /\ IdleThr.todo = {}
  BY DEF IdleThr, Thread, Pcs
<1> QED BY <1>1 DEF Finish, Becomes

(* Several fields at once. *)
LEMMA KickFields ==
    ASSUME NEW t \in Thread, NEW l \in Pcs, NEW k \in Nat, NEW S \in SUBSET Session
    PROVE  [t EXCEPT !.pc = l, !.i = k, !.todo = S]
              = [pc |-> l, ses |-> t.ses, adm |-> t.adm, i |-> k, e |-> t.e, todo |-> S]
<1>1. t = [pc |-> t.pc, ses |-> t.ses, adm |-> t.adm, i |-> t.i, e |-> t.e, todo |-> t.todo]
  BY DEF Thread
<1>2. ASSUME NEW q, q = [t EXCEPT !.pc = l, !.i = k, !.todo = S]
      PROVE  q = [pc |-> l, ses |-> t.ses, adm |-> t.adm, i |-> k, e |-> t.e, todo |-> S]
  BY <1>1, <1>2
<1> QED BY <1>2, Zenon

LEMMA SeenFields ==
    ASSUME NEW t \in Thread, NEW l \in Pcs, NEW x \in Slots
    PROVE  [t EXCEPT !.pc = l, !.e = x]
              = [pc |-> l, ses |-> t.ses, adm |-> t.adm, i |-> t.i, e |-> x, todo |-> t.todo]
<1>1. t = [pc |-> t.pc, ses |-> t.ses, adm |-> t.adm, i |-> t.i, e |-> t.e, todo |-> t.todo]
  BY DEF Thread
<1>2. ASSUME NEW q, q = [t EXCEPT !.pc = l, !.e = x]
      PROVE  q = [pc |-> l, ses |-> t.ses, adm |-> t.adm, i |-> t.i, e |-> x, todo |-> t.todo]
  BY <1>1, <1>2
<1> QED BY <1>2, Zenon

LEMMA OutFields ==
    ASSUME NEW t \in Thread, NEW l \in Pcs, NEW k \in Nat
    PROVE  [t EXCEPT !.pc = l, !.i = k]
              = [pc |-> l, ses |-> t.ses, adm |-> t.adm, i |-> k, e |-> t.e, todo |-> t.todo]
<1>1. t = [pc |-> t.pc, ses |-> t.ses, adm |-> t.adm, i |-> t.i, e |-> t.e, todo |-> t.todo]
  BY DEF Thread
<1>2. ASSUME NEW q, q = [t EXCEPT !.pc = l, !.i = k]
      PROVE  q = [pc |-> l, ses |-> t.ses, adm |-> t.adm, i |-> k, e |-> t.e, todo |-> t.todo]
  BY <1>1, <1>2
<1> QED BY <1>2, Zenon

LEMMA KickedFields ==
    ASSUME NEW t \in Thread, NEW l \in Pcs, NEW k \in Nat, NEW x \in Slots
    PROVE  [t EXCEPT !.pc = l, !.i = k, !.e = x]
              = [pc |-> l, ses |-> t.ses, adm |-> t.adm, i |-> k, e |-> x, todo |-> t.todo]
<1>1. t = [pc |-> t.pc, ses |-> t.ses, adm |-> t.adm, i |-> t.i, e |-> t.e, todo |-> t.todo]
  BY DEF Thread
<1>2. ASSUME NEW q, q = [t EXCEPT !.pc = l, !.i = k, !.e = x]
      PROVE  q = [pc |-> l, ses |-> t.ses, adm |-> t.adm, i |-> k, e |-> x, todo |-> t.todo]
  BY <1>1, <1>2
<1> QED BY <1>2, Zenon

LEMMA CreatedFields ==
    ASSUME NEW t \in Thread, NEW l \in Pcs, NEW x \in Slots, NEW k \in Nat
    PROVE  [t EXCEPT !.pc = l, !.ses = x, !.i = k, !.e = Null, !.todo = {}]
              = [pc |-> l, ses |-> x, adm |-> t.adm, i |-> k, e |-> Null, todo |-> {}]
<1>1. t = [pc |-> t.pc, ses |-> t.ses, adm |-> t.adm, i |-> t.i, e |-> t.e, todo |-> t.todo]
  BY DEF Thread
<1>2. ASSUME NEW q, q = [t EXCEPT !.pc = l, !.ses = x, !.i = k, !.e = Null, !.todo = {}]
      PROVE  q = [pc |-> l, ses |-> x, adm |-> t.adm, i |-> k, e |-> Null, todo |-> {}]
  BY <1>1, <1>2
<1> QED BY <1>2, Zenon

LEMMA TodoFields ==
    ASSUME NEW t \in Thread, NEW S \in SUBSET Session
    PROVE  [t EXCEPT !.todo = S]
              = [pc |-> t.pc, ses |-> t.ses, adm |-> t.adm, i |-> t.i, e |-> t.e, todo |-> S]
<1>1. t = [pc |-> t.pc, ses |-> t.ses, adm |-> t.adm, i |-> t.i, e |-> t.e, todo |-> t.todo]
  BY DEF Thread
<1>2. ASSUME NEW q, q = [t EXCEPT !.todo = S]
      PROVE  q = [pc |-> t.pc, ses |-> t.ses, adm |-> t.adm, i |-> t.i, e |-> t.e, todo |-> S]
  BY <1>1, <1>2
<1> QED BY <1>2, Zenon

-----------------------------------------------------------------------------
(* What every step but Create and StoreCredential has in common: nobody is logged in who was not, *)
(* and what leaves the list is logged out or marked, and moves down at most.  *)
NoNewLogin ==
    \A s \in Session : LoggedIn(s)' =>
        LoggedIn(s) /\ cred'[s] = cred[s] /\ (s \in blame => s \in blame')

ListKeeps ==
    \A s \in Session, j \in 1..Len(list) : list[j] = s /\ LoggedIn(s)' =>
        s \in blame' \/ \E k \in 1..Len(list') : k <= j /\ list'[k] = s

State ==
    /\ list \in Seq(Slots) /\ cred \in [Session -> Admin \cup {Nobody}]
    /\ valid \subseteq Session /\ idle \subseteq valid /\ stale \subseteq Login
    /\ blame \subseteq Session \cup Marks /\ sweep \in Pass
    /\ CredOK /\ SweepOK

LEMMA StateIs == IInv => State
BY Facts DEF IInv, State

LEMMA RegisteredStays ==
    ASSUME IInv, NoNewLogin, ListKeeps, list' \in Seq(Slots),
           \A p \in Login : thr[p].pc \in Stored =>
               \/ thr'[p].pc \in Stored /\ thr'[p].ses = thr[p].ses
               \/ thr[p].ses \in Entries' \cup blame'
    PROVE  RegisteredOrBlamed'
<1>1. SUFFICES ASSUME NEW s \in Session, LoggedIn(s)', ~Entering(s)'
               PROVE  s \in Entries' \cup blame'
  BY DEF RegisteredOrBlamed
<1>2. LoggedIn(s) /\ (s \in blame => s \in blame')
  BY <1>1 DEF NoNewLogin
<1>3. CASE Entering(s)
  BY <1>1, <1>3 DEF Entering, Stored
<1>4. CASE s \in Entries
  <2>1. PICK j \in 1..Len(list) : list[j] = s
    BY <1>4, Facts, EntriesAre
  <2>2. s \in blame' \/ \E k \in 1..Len(list') : list'[k] = s
    BY <1>1, <2>1 DEF ListKeeps
  <2> QED BY <2>2, EntriesWillBe
<1>5. s \in Entries \cup blame \/ Entering(s)
  BY <1>2 DEF IInv, RegisteredOrBlamed
<1> QED BY <1>2, <1>3, <1>4, <1>5

LEMMA ReachesStays ==
    ASSUME IInv, NoNewLogin, ListKeeps, NEW q \in Login, thr'[q].todo \subseteq thr[q].todo,
           \/ thr'[q].todo = {}
           \/ /\ thr'[q].adm = thr[q].adm
              /\ thr[q].pc \in Kicks => thr'[q].pc \in Kicks /\ thr'[q].i = thr[q].i
    PROVE  ReachesOK(q)'
<1>1. SUFFICES ASSUME NEW s \in thr'[q].todo, LoggedIn(s)', cred'[s] = thr'[q].adm
               PROVE  \/ s \in blame'
                      \/ /\ thr'[q].pc \in Kicks
                         /\ \E k \in 1..Len(list') : k <= thr'[q].i /\ list'[k] = s
  BY DEF ReachesOK
<1>2. s \in Session /\ s \in thr[q].todo /\ thr[q].i \in Nat
  BY <1>1, Facts DEF Thread
<1>3. LoggedIn(s) /\ cred[s] = thr[q].adm /\ (s \in blame => s \in blame')
  BY <1>1, <1>2 DEF NoNewLogin
<1>4. CASE s \in blame
  BY <1>3, <1>4
<1>5. CASE thr[q].pc \in Kicks /\ \E j \in 1..Len(list) : j <= thr[q].i /\ list[j] = s
  <2>1. PICK j \in 1..Len(list) : j <= thr[q].i /\ list[j] = s
    BY <1>5
  <2>2. s \in blame' \/ \E k \in 1..Len(list') : k <= j /\ list'[k] = s
    BY <1>1, <1>2, <2>1 DEF ListKeeps
  <2>3. thr'[q].pc \in Kicks /\ thr'[q].i = thr[q].i
    BY <1>1, <1>5
  <2>4. ASSUME NEW k \in 1..Len(list'), k <= j PROVE k <= thr[q].i
    <3>1. k \in Int /\ j \in Int
      OBVIOUS
    <3> QED BY <1>2, <2>1, <2>4, <3>1
  <2> QED BY <2>2, <2>3, <2>4
<1> QED BY <1>2, <1>3, <1>4, <1>5 DEF IInv, ReachesOK

LEMMA ThreadStep ==
    ASSUME IInv, NEW p \in Login, NEW r, Becomes(p, r), NoNewLogin, ListKeeps, State',
           r.pc # "idle" => r.ses \in Session /\ r.adm \in Admin,
           r.pc = "kickOut" => r.i # 0,
           thr[p].pc \in Stored => \/ r.pc \in Stored /\ r.ses = thr[p].ses
                                   \/ thr[p].ses \in Entries' \cup blame',
           ReachesOK(p)'
    PROVE  IInv'
<1>1. /\ thr' \in [Login -> Thread] /\ thr'[p] = r
      /\ \A q \in Login : q # p => thr'[q] = thr[q]
  BY BecomesIs, Facts
<1>2. RegisteredOrBlamed'
  BY <1>1, RegisteredStays DEF State
<1>3. ASSUME NEW q \in Login PROVE ThrOK(q)' /\ ReachesOK(q)'
  <2>1. CASE q = p
    BY <1>1, <2>1 DEF ThrOK
  <2>2. CASE q # p
    <3>1. thr'[q] = thr[q]
      BY <1>1, <2>2
    <3> QED BY <3>1, ReachesStays DEF IInv, ThrOK
  <2> QED BY <2>1, <2>2
<1>4. TypeOK'
  BY <1>1 DEF State, TypeOK, Slots, Marks, Thread, Pcs, Pass
<1> QED BY <1>2, <1>3, <1>4 DEF IInv, State

LEMMA OtherStep ==
    ASSUME IInv, thr' = thr, NoNewLogin, ListKeeps, State'
    PROVE  IInv'
<1>1. RegisteredOrBlamed'
  BY RegisteredStays DEF State
<1>2. \A q \in Login : ThrOK(q)' /\ ReachesOK(q)'
  BY ReachesStays DEF IInv, ThrOK
<1>3. TypeOK'
  BY Facts DEF State, TypeOK, Slots, Marks, Thread, Pcs, Pass
<1> QED BY <1>1, <1>2, <1>3 DEF IInv, State

LEMMA SameList ==
    ASSUME IInv, list' = list
    PROVE  ListKeeps
<1>1. \A j \in 1..Len(list) : j <= j
  OBVIOUS
<1> QED BY <1>1 DEF ListKeeps

LEMMA Invalidated ==
    ASSUME IInv, NEW S \in SUBSET Session, Invalidate(S)
    PROVE  /\ valid' = valid \ S /\ valid' \subseteq Session /\ idle' \subseteq valid'
           /\ cred' \in [Session -> Admin \cup {Nobody}] /\ CredOK'
           /\ \A s \in Session : LoggedIn(s)' => LoggedIn(s) /\ cred'[s] = cred[s] /\ s \notin S
BY Facts DEF Invalidate, IInv, CredOK, LoggedIn

LEMMA Removed ==
    ASSUME IInv, NEW k \in 1..Len(list), list' = RemoveAt(list, k),
           blame' = blame \/ blame' = blame \cup ({list[k]} \ {Null}),
           \A s \in Session : list[k] = s /\ LoggedIn(s)' => s \in blame'
    PROVE  /\ list' \in Seq(Slots) /\ blame \subseteq blame' /\ blame' \subseteq Session \cup Marks
           /\ ListKeeps
           /\ \A s \in Session, j \in 1..Len(list) : j < k /\ list[j] = s =>
                 j \in 1..Len(list') /\ list'[j] = s
<1>1. list \in Seq(Slots) /\ Len(list) \in Nat /\ list[k] \in Slots /\ blame \subseteq Session \cup Marks
  BY Facts
<1>2. /\ list' \in Seq(Slots) /\ Len(list') = Len(list) - 1
      /\ \A j \in 1..(Len(list) - 1) : list'[j] = IF j < k THEN list[j] ELSE list[j + 1]
  BY <1>1, RemoveAtIs
<1>3. blame \subseteq blame' /\ blame' \subseteq Session \cup Marks
  BY <1>1 DEF Slots
<1>4. ASSUME NEW j \in 1..Len(list), j < k PROVE j \in 1..Len(list') /\ list'[j] = list[j]
  BY <1>1, <1>2, <1>4
<1>5. ASSUME NEW j \in 1..Len(list), k < j
      PROVE  j - 1 \in 1..Len(list') /\ j - 1 <= j /\ list'[j - 1] = list[j]
  <2>1. j - 1 \in 1..(Len(list) - 1) /\ ~(j - 1 < k) /\ (j - 1) + 1 = j
    BY <1>1, <1>5
  <2> QED BY <1>2, <2>1
<1>6. ListKeeps
  <2>1. SUFFICES ASSUME NEW s \in Session, NEW j \in 1..Len(list), list[j] = s, LoggedIn(s)'
                 PROVE  s \in blame' \/ \E n \in 1..Len(list') : n <= j /\ list'[n] = s
    BY DEF ListKeeps
  <2>2. CASE j < k
    BY <1>4, <2>1, <2>2
  <2>3. CASE j = k
    BY <2>1, <2>3
  <2>4. CASE k < j
    BY <1>5, <2>1, <2>4
  <2> QED BY <2>2, <2>3, <2>4
<1> QED BY <1>2, <1>3, <1>4, <1>6

LEMMA QuietStep ==
    ASSUME IInv, NEW p \in Login, NEW r, Becomes(p, r),
           UNCHANGED <<list, cred, valid, idle, sweep, stale>>,
           blame \subseteq blame', blame' \subseteq Session \cup Marks,
           r.pc # "idle" => r.ses \in Session /\ r.adm \in Admin,
           r.pc = "kickOut" => r.i # 0,
           thr[p].pc \in Stored => \/ r.pc \in Stored /\ r.ses = thr[p].ses
                                   \/ thr[p].ses \in Entries' \cup blame',
           \/ ReachesOK(p)'
           \/ r.todo = {}
           \/ /\ r.todo = thr[p].todo /\ r.adm = thr[p].adm
              /\ thr[p].pc \in Kicks => r.pc \in Kicks /\ r.i = thr[p].i
    PROVE  IInv'
<1>1. State'
  <2>1. State
    BY StateIs
  <2> QED BY <2>1 DEF State, CredOK, SweepOK
<1>2. NoNewLogin
  BY DEF NoNewLogin, LoggedIn
<1>3. ListKeeps
  BY SameList
<1>4. thr'[p] = r
  BY BecomesIs, Facts
<1>5. ReachesOK(p)'
  BY <1>2, <1>3, <1>4, ReachesStays
<1> QED BY <1>1, <1>2, <1>3, <1>5, ThreadStep

(* What a thread that runs knows. *)
LEMMA ThreadIs ==
    ASSUME IInv, NEW p \in Login
    PROVE  /\ thr[p] \in Thread /\ thr[p].pc \in Pcs /\ thr[p].i \in Nat
           /\ thr[p].ses \in Slots /\ thr[p].e \in Slots /\ thr[p].todo \in SUBSET Session
           /\ thr[p].pc # "idle" => thr[p].ses \in Session /\ thr[p].adm \in Admin
           /\ thr[p].pc = "kickOut" => thr[p].i # 0
<1>1. thr[p] \in Thread
  BY Facts
<1> QED BY <1>1 DEF Thread, Slots, IInv, ThrOK

-----------------------------------------------------------------------------
(* Users and the container. *)
LEMMA TouchKeeps ==
    ASSUME IInv, NEW s \in Session, Touch(s)
    PROVE  IInv'
<1>1. idle' = idle \ {s} /\ UNCHANGED <<list, cred, valid, stale, thr, sweep, blame>>
  BY DEF Touch
<1>2. State'
  BY <1>1, StateIs DEF State, CredOK, SweepOK
<1>3. NoNewLogin
  BY <1>1 DEF NoNewLogin, LoggedIn
<1> QED BY <1>1, <1>2, <1>3, SameList, OtherStep

LEMMA GoIdleKeeps ==
    ASSUME IInv, NEW s \in Session, GoIdle(s)
    PROVE  IInv'
<1>1. /\ idle' = idle \cup {s} /\ s \in valid
      /\ UNCHANGED <<list, cred, valid, stale, thr, sweep, blame>>
  BY DEF GoIdle, LoggedIn
<1>2. State'
  BY <1>1, StateIs DEF State, CredOK, SweepOK
<1>3. NoNewLogin
  BY <1>1 DEF NoNewLogin, LoggedIn
<1> QED BY <1>1, <1>2, <1>3, SameList, OtherStep

LEMMA LogoutKeeps ==
    ASSUME IInv, NEW s \in Session, Logout(s)
    PROVE  IInv'
<1>1. /\ idle' = idle \ {s} /\ cred' = [cred EXCEPT ![s] = Nobody]
      /\ UNCHANGED <<list, valid, stale, thr, sweep, blame>>
  BY DEF Logout
<1>2. /\ cred' \in [Session -> Admin \cup {Nobody}] /\ cred'[s] = Nobody
      /\ \A t \in Session : t # s => cred'[t] = cred[t]
  BY <1>1, Facts
<1>3. State'
  BY <1>1, <1>2, StateIs DEF State, CredOK, SweepOK
<1>4. NoNewLogin
  BY <1>1, <1>2 DEF NoNewLogin, LoggedIn
<1> QED BY <1>1, <1>3, <1>4, SameList, OtherStep

(* The threads after a credential was stored beside the login: each stays     *)
(* where it is, and a kick no longer owes that session.                      *)
LEMMA ThreadsAfterCode ==
    ASSUME thr \in [Login -> Thread], NEW s \in Session, NEW a \in Admin \cup {Nobody},
           StoreCredential(s, a)
    PROVE  /\ thr' \in [Login -> Thread]
           /\ \A q \in Login :
                 /\ thr'[q].pc = thr[q].pc /\ thr'[q].ses = thr[q].ses
                 /\ thr'[q].adm = thr[q].adm /\ thr'[q].i = thr[q].i /\ thr'[q].e = thr[q].e
                 /\ thr'[q].todo = IF a # Nobody THEN thr[q].todo \ {s} ELSE thr[q].todo
<1> DEFINE T(q) == IF a # Nobody THEN thr[q].todo \ {s} ELSE thr[q].todo
<1>1. thr' = [q \in Login |-> [thr[q] EXCEPT !.todo = T(q)]]
  BY Zenon DEF StoreCredential
<1>2. ASSUME NEW q \in Login
      PROVE  /\ thr'[q] \in Thread
             /\ thr'[q].pc = thr[q].pc /\ thr'[q].ses = thr[q].ses
             /\ thr'[q].adm = thr[q].adm /\ thr'[q].i = thr[q].i
             /\ thr'[q].e = thr[q].e /\ thr'[q].todo = T(q)
  <2>1. thr[q] \in Thread
    OBVIOUS
  <2>2. T(q) \in SUBSET Session
    BY <2>1 DEF Thread
  <2>3. thr'[q] = [thr[q] EXCEPT !.todo = T(q)]
    BY <1>1, Zenon
  <2> DEFINE S == T(q)
  <2> HIDE DEF T, S
  <2>4. S \in SUBSET Session /\ thr'[q] = [thr[q] EXCEPT !.todo = S]
    BY <2>2, <2>3 DEF S
  <2>5. thr'[q] = [pc |-> thr[q].pc, ses |-> thr[q].ses, adm |-> thr[q].adm, i |-> thr[q].i,
                   e |-> thr[q].e, todo |-> S]
    BY <2>1, <2>4, TodoFields, Zenon
  <2>6. thr'[q] \in Thread /\ thr'[q].todo = S
    BY <2>1, <2>4, <2>5 DEF Thread
  <2> QED BY <2>5, <2>6 DEF S
<1>3. thr' \in [Login -> Thread]
  <2> DEFINE F(q) == [thr[q] EXCEPT !.todo = T(q)]
  <2>1. thr' = [q \in Login |-> F(q)]
    BY <1>1
  <2> HIDE DEF F
  <2> QED BY <1>2, <2>1
<1>4. \A q \in Login : /\ thr'[q].pc = thr[q].pc /\ thr'[q].ses = thr[q].ses
                        /\ thr'[q].adm = thr[q].adm /\ thr'[q].i = thr[q].i
                        /\ thr'[q].e = thr[q].e /\ thr'[q].todo = T(q)
  BY <1>2
<1> QED BY <1>3, <1>4

LEMMA StoreCredentialKeeps ==
    ASSUME IInv, NEW s \in Session, NEW a \in Admin \cup {Nobody}, StoreCredential(s, a)
    PROVE  IInv'
<1>1. /\ valid' = valid \cup {s} /\ cred' = [cred EXCEPT ![s] = a] /\ idle' = idle \ {s}
      /\ blame' = (IF s \in valid THEN blame ELSE blame \ {s, Blind(s)})
                     \cup (IF a # Nobody /\ s \notin Entries THEN {s} ELSE {})
                     \cup (IF a # Nobody /\ Observe THEN {Blind(s)} ELSE {})
      /\ UNCHANGED <<list, stale, sweep>>
  BY DEF StoreCredential
<1>2. /\ thr' \in [Login -> Thread]
      /\ \A q \in Login :
            /\ thr'[q].pc = thr[q].pc /\ thr'[q].ses = thr[q].ses
            /\ thr'[q].adm = thr[q].adm /\ thr'[q].i = thr[q].i
            /\ thr'[q].todo = IF a # Nobody THEN thr[q].todo \ {s} ELSE thr[q].todo
  BY ThreadsAfterCode, Facts
<1>3. /\ cred' \in [Session -> Admin \cup {Nobody}] /\ cred'[s] = a
      /\ \A t \in Session : t # s => cred'[t] = cred[t]
  BY <1>1, Facts
<1>4. \A t \in Session : t # s => (t \in blame' <=> t \in blame)
  <2>1. \A t \in Session : t # Blind(s)
    BY RegistryConstants DEF Blind
  <2> HIDE DEF Blind
  <2> QED BY <1>1, <2>1
<1>5. blame' \subseteq Session \cup Marks
  <2>1. blame \subseteq Session \cup Marks /\ Blind(s) \in Marks
    BY Facts DEF Marks
  <2> QED BY <1>1, <2>1
<1>6. State'
  <2>1. valid' \subseteq Session /\ idle' \subseteq valid' /\ stale' \subseteq Login
    BY <1>1, Facts
  <2>2. CredOK'
    BY <1>1, <1>3 DEF IInv, CredOK
  <2> QED BY <1>1, <1>3, <1>5, <2>1, <2>2, StateIs DEF State, SweepOK
<1>7. \A t \in Session : t # s /\ LoggedIn(t)' => LoggedIn(t) /\ cred'[t] = cred[t]
  BY <1>1, <1>3 DEF LoggedIn
<1>8. Entries' = Entries
  BY <1>1 DEF Entries
<1>9. RegisteredOrBlamed'
  <2>1. SUFFICES ASSUME NEW t \in Session, LoggedIn(t)', ~Entering(t)'
                 PROVE  t \in Entries' \cup blame'
    BY DEF RegisteredOrBlamed
  <2>2. CASE t = s
    BY <1>1, <1>3, <1>8, <2>1, <2>2 DEF LoggedIn
  <2>3. CASE t # s
    <3>1. ~Entering(t)
      BY <1>2, <2>1 DEF Entering
    <3>2. t \in Entries \cup blame
      BY <1>7, <2>1, <2>3, <3>1 DEF IInv, RegisteredOrBlamed
    <3> QED BY <1>4, <1>8, <2>3, <3>2
  <2> QED BY <2>2, <2>3
<1>10. ASSUME NEW q \in Login PROVE ThrOK(q)' /\ ReachesOK(q)'
  <2>1. ThrOK(q)'
    BY <1>2 DEF IInv, ThrOK
  <2>2. SUFFICES ASSUME NEW t \in thr'[q].todo, LoggedIn(t)', cred'[t] = thr'[q].adm
                 PROVE  \/ t \in blame'
                        \/ /\ thr'[q].pc \in Kicks
                           /\ \E k \in 1..Len(list') : k <= thr'[q].i /\ list'[k] = t
    BY <2>1 DEF ReachesOK
  <2>3. t \in thr[q].todo /\ t \in Session
    <3>1. t \in thr[q].todo
      BY <1>2, <2>2
    <3> QED BY <3>1, Facts DEF Thread
  <2>4. t # s
    BY <1>2, <1>3, <2>2 DEF LoggedIn
  <2>5. LoggedIn(t) /\ cred[t] = thr[q].adm
    BY <1>2, <1>7, <2>2, <2>3, <2>4
  <2>6. ReachesOK(q)
    BY DEF IInv
  <2>7. CASE t \in blame
    BY <1>4, <2>3, <2>4, <2>7
  <2>8. CASE thr[q].pc \in Kicks /\ \E k \in 1..Len(list) : k <= thr[q].i /\ list[k] = t
    <3>1. list' = list /\ thr'[q].pc = thr[q].pc /\ thr'[q].i = thr[q].i
      BY <1>1, <1>2
    <3> QED BY <2>8, <3>1
  <2> QED BY <2>3, <2>5, <2>6, <2>7, <2>8 DEF ReachesOK
<1>11. TypeOK'
  BY <1>2, <1>6 DEF State, TypeOK, Slots, Marks, Thread, Pcs, Pass
<1> QED BY <1>6, <1>9, <1>10, <1>11 DEF IInv, State

LEMMA ExpireKeeps ==
    ASSUME IInv, NEW s \in Session, Expire(s)
    PROVE  IInv'
<1>1. Invalidate({s}) /\ UNCHANGED <<list, stale, thr, sweep, blame>>
  BY DEF Expire
<1>2. /\ valid' \subseteq Session /\ idle' \subseteq valid'
      /\ cred' \in [Session -> Admin \cup {Nobody}] /\ CredOK'
      /\ \A t \in Session : LoggedIn(t)' => LoggedIn(t) /\ cred'[t] = cred[t]
  BY <1>1, Invalidated
<1>3. State'
  BY <1>1, <1>2, StateIs DEF State, SweepOK
<1>4. NoNewLogin
  BY <1>1, <1>2 DEF NoNewLogin
<1> QED BY <1>1, <1>3, <1>4, SameList, OtherStep

-----------------------------------------------------------------------------
(* The steps of a login. *)
LEMMA StartedThread ==
    ASSUME NEW s \in Session, NEW a \in Admin
    PROVE  [IdleThr EXCEPT !.pc = "scan", !.ses = s, !.adm = a]
              = [pc |-> "scan", ses |-> s, adm |-> a, i |-> 0, e |-> Null, todo |-> {}]
<1>1. ASSUME NEW q, q = [IdleThr EXCEPT !.pc = "scan", !.ses = s, !.adm = a]
      PROVE  q = [pc |-> "scan", ses |-> s, adm |-> a, i |-> 0, e |-> Null, todo |-> {}]
  BY <1>1 DEF IdleThr
<1> QED BY <1>1, Zenon

LEMMA StartKeeps ==
    ASSUME IInv, NEW p \in Login, NEW s \in Session, NEW a \in Admin, Start(p, s, a)
    PROVE  IInv'
<1> DEFINE r == [pc |-> "scan", ses |-> s, adm |-> a, i |-> 0, e |-> Null, todo |-> {}]
<1>1. /\ thr[p].pc = "idle" /\ stale' = stale \ {p} /\ valid' = valid \cup {s}
      /\ blame' = IF s \in valid THEN blame ELSE blame \ {s}
      /\ UNCHANGED <<list, cred, idle, sweep>>
  BY DEF Start
<1>2. Becomes(p, r)
  <2>1. thr' = [thr EXCEPT ![p] = [IdleThr EXCEPT !.pc = "scan", !.ses = s, !.adm = a]]
    BY Zenon DEF Start
  <2>2. thr' = [thr EXCEPT ![p] = r]
    BY <2>1, StartedThread, Zenon
  <2>3. r \in Thread
    BY DEF Thread, Pcs
  <2> QED BY <2>2, <2>3 DEF Becomes
<1>3. r.pc = "scan" /\ r.ses = s /\ r.adm = a /\ r.todo = {}
  OBVIOUS
<1> HIDE DEF r
<1>4. State'
  BY <1>1, StateIs DEF State, CredOK, SweepOK
<1>5. NoNewLogin
  BY <1>1 DEF IInv, CredOK, NoNewLogin, LoggedIn
<1>6. ListKeeps
  BY <1>1, SameList
<1>7. ReachesOK(p)'
  <2>1. thr'[p] = r
    BY <1>2, BecomesIs, Facts
  <2> QED BY <1>3, <2>1 DEF ReachesOK
<1> QED BY <1>1, <1>2, <1>3, <1>4, <1>5, <1>6, <1>7, ThreadStep DEF Stored

LEMMA ScanKeeps ==
    ASSUME IInv, NEW p \in Login, ScanStep(p)
    PROVE  IInv'
<1>1. /\ thr[p].pc = "scan" /\ UNCHANGED <<list, cred, valid, idle, sweep, stale, blame>>
      /\ thr \in [Login -> Thread]
  BY Facts DEF ScanStep, Same
<1>2. /\ thr[p] \in Thread /\ thr[p].i \in Nat /\ thr[p].ses \in Session /\ thr[p].adm \in Admin
      /\ blame \subseteq Session \cup Marks /\ thr[p].ses \in Slots
  BY <1>1, ThreadIs, Facts
<1>3. \/ Goto(p, "create") \/ Goto(p, "exists") \/ SetAt(p, thr[p].i + 1)
      \/ thr' = [thr EXCEPT ![p].pc = "create", ![p].e = thr[p].ses]
  BY DEF ScanStep
<1>4. CASE Goto(p, "create") \/ Goto(p, "exists")
  <2>1. PICK l \in {"create", "exists"} : Goto(p, l)
    BY <1>4
  <2>2. l \in Pcs
    BY DEF Pcs
  <2>3. PICK r : /\ Becomes(p, r) /\ r.pc = l /\ r.ses = thr[p].ses /\ r.adm = thr[p].adm
                 /\ r.todo = thr[p].todo
    BY <1>1, <2>1, <2>2, GotoIs
  <2> QED BY <1>1, <1>2, <2>3, QuietStep DEF Stored, Kicks
<1>5. CASE SetAt(p, thr[p].i + 1)
  <2>1. PICK r : /\ Becomes(p, r) /\ r.pc = thr[p].pc /\ r.ses = thr[p].ses /\ r.adm = thr[p].adm
                 /\ r.todo = thr[p].todo
    BY <1>1, <1>2, <1>5, SetAtIs
  <2> QED BY <1>1, <1>2, <2>1, QuietStep DEF Stored, Kicks
<1>6. CASE thr' = [thr EXCEPT ![p].pc = "create", ![p].e = thr[p].ses]
  <2>1. thr' = [thr EXCEPT ![p] = [thr[p] EXCEPT !.pc = "create", !.e = thr[p].ses]]
    BY <1>6, Zenon
  <2>2. "create" \in Pcs
    BY DEF Pcs
  <2> DEFINE r == [pc |-> "create", ses |-> thr[p].ses, adm |-> thr[p].adm, i |-> thr[p].i,
                   e |-> thr[p].ses, todo |-> thr[p].todo]
  <2>8. thr[p] \in Thread
    BY <1>2
  <2>9. thr[p].ses \in Slots
    BY <1>2
  <2>3. thr' = [thr EXCEPT ![p] = r]
    BY <2>1, <2>2, <2>8, <2>9, SeenFields, Zenon
  <2>4. r \in Thread /\ r.pc = "create" /\ r.ses = thr[p].ses /\ r.adm = thr[p].adm
        /\ r.todo = thr[p].todo
    BY <1>2, <2>2 DEF Thread
  <2> HIDE DEF r
  <2>5. Becomes(p, r)
    BY <2>3, <2>4 DEF Becomes
  <2> QED BY <1>1, <1>2, <2>4, <2>5, QuietStep DEF Stored, Kicks
<1> QED BY <1>3, <1>4, <1>5, <1>6

LEMMA EndedThread ==
    ASSUME IInv, NEW p \in Login, Finish(p), thr[p].pc \notin Stored,
           UNCHANGED <<list, cred, valid, idle, sweep, stale, blame>>
    PROVE  IInv'
<1>1. PICK r : Becomes(p, r) /\ r.pc = "idle" /\ r.todo = {}
  BY FinishIs
<1>2. blame \subseteq Session \cup Marks
  BY Facts
<1> QED BY <1>1, <1>2, QuietStep

LEMMA ResolveKeeps ==
    ASSUME IInv, NEW p \in Login, Resolve(p)
    PROVE  IInv'
<1> DEFINE S == {s \in Entries \ {Null} : LoggedIn(s) /\ cred[s] = thr[p].adm}
<1>1. /\ thr[p].pc = "exists" /\ UNCHANGED <<list, cred, valid, idle, sweep, stale, blame>>
      /\ thr \in [Login -> Thread]
  BY Facts DEF Resolve, Same
<1>2. /\ thr[p] \in Thread /\ thr[p].ses \in Session /\ thr[p].adm \in Admin
      /\ blame \subseteq Session \cup Marks /\ Len(list) \in Nat /\ thr[p].e \in Slots
  BY <1>1, ThreadIs, Facts
<1>3. \/ Finish(p) \/ Goto(p, "create")
      \/ thr' = [thr EXCEPT ![p].pc = "kick", ![p].i = Len(list), ![p].todo = S]
  BY DEF Resolve
<1>4. CASE Finish(p)
  BY <1>1, <1>4, EndedThread DEF Stored
<1>5. CASE Goto(p, "create")
  <2>1. "create" \in Pcs
    BY DEF Pcs
  <2>2. PICK r : /\ Becomes(p, r) /\ r.pc = "create" /\ r.ses = thr[p].ses /\ r.adm = thr[p].adm
                 /\ r.todo = thr[p].todo
    BY <1>1, <1>5, <2>1, GotoIs
  <2> QED BY <1>1, <1>2, <2>2, QuietStep DEF Stored, Kicks
<1>6. CASE thr' = [thr EXCEPT ![p].pc = "kick", ![p].i = Len(list), ![p].todo = S]
  <2>1. S \in SUBSET Session /\ "kick" \in Pcs
    BY EntriesAre, Facts DEF Slots, Pcs
  <2>2. \A s \in S : \E k \in 1..Len(list) : list[k] = s
    BY EntriesAre, Facts
  <2> HIDE DEF S
  <2>3. thr' = [thr EXCEPT ![p] = [thr[p] EXCEPT !.pc = "kick", !.i = Len(list), !.todo = S]]
    BY <1>6, Zenon
  <2> DEFINE r == [pc |-> "kick", ses |-> thr[p].ses, adm |-> thr[p].adm, i |-> Len(list),
                   e |-> thr[p].e, todo |-> S]
  <2>9. thr[p] \in Thread
    BY <1>2
  <2>10. Len(list) \in Nat
    BY <1>2
  <2>11. "kick" \in Pcs
    BY DEF Pcs
  <2>12. S \in SUBSET Session
    BY <2>1
  <2>13. [thr[p] EXCEPT !.pc = "kick", !.i = Len(list), !.todo = S] = r
    BY <2>9, <2>10, <2>11, <2>12, KickFields, Zenon
  <2>4. thr' = [thr EXCEPT ![p] = r]
    BY <2>3, <2>13, Zenon
  <2>5. r \in Thread /\ r.pc = "kick" /\ r.ses = thr[p].ses /\ r.adm = thr[p].adm
        /\ r.i = Len(list) /\ r.todo = S
    BY <1>2, <2>1 DEF Thread, Slots
  <2> HIDE DEF r
  <2>6. Becomes(p, r)
    BY <2>4, <2>5 DEF Becomes
  <2>7. thr'[p] = r
    BY <1>1, <2>6, BecomesIs
  <2>8. ReachesOK(p)'
    <3>1. \A k \in 1..Len(list) : k <= Len(list)
      BY <1>2
    <3> QED BY <1>1, <2>2, <2>5, <2>7, <3>1 DEF ReachesOK, Kicks
  <2> QED BY <1>1, <1>2, <2>5, <2>6, <2>8, QuietStep DEF Stored
<1> QED BY <1>3, <1>4, <1>5, <1>6

LEMMA KickStepKeeps ==
    ASSUME IInv, NEW p \in Login, KickStep(p)
    PROVE  IInv'
<1> DEFINE k == thr[p].i
<1>1. /\ thr[p].pc = "kick" /\ UNCHANGED <<list, cred, valid, idle, sweep, stale, blame>>
      /\ thr \in [Login -> Thread]
  BY Facts DEF KickStep, Same
<1>2. /\ thr[p] \in Thread /\ thr[p].ses \in Session /\ thr[p].adm \in Admin
      /\ blame \subseteq Session \cup Marks /\ Len(list) \in Nat /\ k \in Nat
      /\ thr[p].todo \in SUBSET Session /\ valid \subseteq Session
  BY <1>1, ThreadIs, Facts
<1>3. \/ k = 0 /\ Goto(p, "create")
      \/ Finish(p)
      \/ k \in 1..Len(list) /\ cred[list[k]] # thr[p].adm /\ SetAt(p, k - 1)
      \/ /\ k \in 1..Len(list) /\ list[k] \in valid
         /\ thr' = [thr EXCEPT ![p].pc = "kickOut", ![p].e = list[k]]
  BY DEF KickStep
<1>4. \A s \in thr[p].todo : LoggedIn(s) /\ cred[s] = thr[p].adm =>
          s \in blame \/ \E j \in 1..Len(list) : j <= k /\ list[j] = s
  BY DEF IInv, ReachesOK
<1>5. \A s \in Session : LoggedIn(s)' <=> LoggedIn(s)
  BY <1>1 DEF LoggedIn
<1> HIDE DEF k
<1>6. CASE k = 0 /\ Goto(p, "create")
  <2>1. "create" \in Pcs
    BY DEF Pcs
  <2>2. PICK r : /\ Becomes(p, r) /\ r.pc = "create" /\ r.ses = thr[p].ses /\ r.adm = thr[p].adm
                 /\ r.todo = thr[p].todo
    BY <1>1, <1>6, <2>1, GotoIs
  <2>3. thr'[p] = r
    BY <1>1, <2>2, BecomesIs
  <2>4. \A j \in 1..Len(list) : ~(j <= k)
    BY <1>6
  <2>5. ReachesOK(p)'
    BY <1>1, <1>2, <1>4, <1>5, <2>2, <2>3, <2>4 DEF ReachesOK
  <2> QED BY <1>1, <1>2, <2>2, <2>5, QuietStep DEF Stored
<1>7. CASE Finish(p)
  BY <1>1, <1>7, EndedThread DEF Stored
<1>8. CASE k \in 1..Len(list) /\ cred[list[k]] # thr[p].adm /\ SetAt(p, k - 1)
  <2>1. k - 1 \in Nat
    BY <1>2, <1>8
  <2>2. PICK r : /\ Becomes(p, r) /\ r.pc = "kick" /\ r.ses = thr[p].ses /\ r.adm = thr[p].adm
                 /\ r.i = k - 1 /\ r.todo = thr[p].todo
    BY <1>1, <1>8, <2>1, SetAtIs
  <2>3. thr'[p] = r
    BY <1>1, <2>2, BecomesIs
  <2>4. \A j \in 1..Len(list) : j <= k /\ cred[list[j]] = thr[p].adm => j <= k - 1
    BY <1>2, <1>8
  <2>5. ReachesOK(p)'
    <3>1. SUFFICES ASSUME NEW s \in thr[p].todo, LoggedIn(s), cred[s] = thr[p].adm
                   PROVE  s \in blame \/ \E j \in 1..Len(list) : j <= k - 1 /\ list[j] = s
      BY <1>1, <1>2, <1>5, <2>2, <2>3 DEF ReachesOK, Kicks
    <3> QED BY <1>4, <2>4, <3>1
  <2> QED BY <1>1, <1>2, <2>2, <2>5, QuietStep DEF Stored
<1>9. CASE /\ k \in 1..Len(list) /\ list[k] \in valid
           /\ thr' = [thr EXCEPT ![p].pc = "kickOut", ![p].e = list[k]]
  <2>1. thr' = [thr EXCEPT ![p] = [thr[p] EXCEPT !.pc = "kickOut", !.e = list[k]]]
    BY <1>9, Zenon
  <2>2. "kickOut" \in Pcs
    BY DEF Pcs
  <2>3. list[k] \in Slots
    BY <1>2, <1>9 DEF Slots
  <2>4. thr[p] \in Thread
    BY <1>2
  <2> DEFINE r == [pc |-> "kickOut", ses |-> thr[p].ses, adm |-> thr[p].adm, i |-> thr[p].i,
                   e |-> list[k], todo |-> thr[p].todo]
  <2>5. [thr[p] EXCEPT !.pc = "kickOut", !.e = list[k]] = r
    BY <2>2, <2>3, <2>4, SeenFields, Zenon
  <2>6. thr' = [thr EXCEPT ![p] = r]
    BY <2>1, <2>5, Zenon
  <2>7. r \in Thread /\ r.pc = "kickOut" /\ r.ses = thr[p].ses /\ r.adm = thr[p].adm
        /\ r.todo = thr[p].todo /\ r.i = thr[p].i
    BY <1>2, <2>2, <2>3 DEF Thread, Slots
  <2> HIDE DEF r
  <2>8. Becomes(p, r)
    BY <2>6, <2>7 DEF Becomes
  <2>9. r.i # 0
    BY <1>2, <1>9, <2>7 DEF k
  <2> QED BY <1>1, <1>2, <2>7, <2>8, <2>9, QuietStep DEF Stored, Kicks
<1> QED BY <1>3, <1>6, <1>7, <1>8, <1>9 DEF k

LEMMA KickFailsKeeps ==
    ASSUME IInv, NEW p \in Login, KickFails(p)
    PROVE  IInv'
BY EndedThread DEF KickFails, Same, Stored

(* The entry that the kick takes off is the session it invalidated, or it is *)
(* marked.                                                                   *)
LEMMA KickOutKeeps ==
    ASSUME IInv, NEW p \in Login, KickOut(p)
    PROVE  IInv'
<1> DEFINE k == thr[p].i
           x == thr[p].e
<1>1. thr[p].pc = "kickOut" /\ sweep' = sweep /\ thr \in [Login -> Thread] /\ thr[p].pc \notin Stored
  BY Facts DEF KickOut, Stored
<1>2. /\ thr[p] \in Thread /\ thr[p].ses \in Session /\ thr[p].adm \in Admin
      /\ k \in Nat /\ k # 0 /\ valid \subseteq Session /\ Len(list) \in Nat
      /\ list \in Seq(Slots) /\ stale \subseteq Login /\ blame \subseteq Session \cup Marks
      /\ thr[p].todo \in SUBSET Session
  BY <1>1, ThreadIs, Facts
<1>3. CASE x \notin valid
  <2>1. Finish(p) /\ UNCHANGED <<list, cred, valid, idle, sweep, stale, blame>>
    BY <1>3 DEF KickOut, Same
  <2> QED BY <1>1, <2>1, EndedThread
<1>4. CASE x \in valid
  <2>1. Invalidate({x})
    BY <1>4 DEF KickOut
  <2>2. {x} \in SUBSET Session
    BY <1>2, <1>4
  <2>3. /\ valid' \subseteq Session /\ idle' \subseteq valid'
        /\ cred' \in [Session -> Admin \cup {Nobody}] /\ CredOK'
        /\ \A t \in Session : LoggedIn(t)' => LoggedIn(t) /\ cred'[t] = cred[t] /\ t # x
    BY <2>1, <2>2, Invalidated
  <2>4. CASE k > Len(list)
    <3>1. Finish(p) /\ UNCHANGED <<list, stale, blame>>
      BY <1>4, <2>4 DEF KickOut, Same
    <3>2. PICK r : Becomes(p, r) /\ r.pc = "idle" /\ r.todo = {}
      BY <3>1, FinishIs
    <3>3. State'
      BY <1>1, <2>3, <3>1, StateIs DEF State, SweepOK
    <3>4. NoNewLogin
      BY <2>3, <3>1 DEF NoNewLogin
    <3>5. ListKeeps
      BY <3>1, SameList
    <3>6. ReachesOK(p)'
      <4>1. thr'[p] = r
        BY <1>1, <3>2, BecomesIs
      <4> QED BY <3>2, <4>1 DEF ReachesOK
    <3> QED BY <1>1, <3>2, <3>3, <3>4, <3>5, <3>6, ThreadStep
  <2>5. CASE ~(k > Len(list))
    <3>1. k \in 1..Len(list)
      BY <1>2, <2>5
    <3>2. /\ Removing(k, x)
          /\ thr' = [thr EXCEPT ![p].pc = "kick", ![p].i = k - 1, ![p].e = Null]
      BY <1>4, <2>5 DEF KickOut
    <3>3. /\ list' = RemoveAt(list, k) /\ stale' = Login
          /\ blame' = blame \/ blame' = blame \cup ({list[k]} \ {Null})
          /\ \A s \in Session : list[k] = s /\ LoggedIn(s)' => s \in blame'
      BY <2>3, <3>2, RegistryConstants DEF Removing
    <3>4. /\ list' \in Seq(Slots) /\ blame \subseteq blame' /\ blame' \subseteq Session \cup Marks
          /\ ListKeeps
          /\ \A s \in Session, j \in 1..Len(list) : j < k /\ list[j] = s =>
                j \in 1..Len(list') /\ list'[j] = s
      BY <3>1, <3>3, Removed
    <3>5. State'
      BY <1>1, <2>3, <3>3, <3>4, StateIs DEF State, SweepOK
    <3>6. NoNewLogin
      BY <2>3, <3>4 DEF NoNewLogin
    <3> DEFINE r == [pc |-> "kick", ses |-> thr[p].ses, adm |-> thr[p].adm, i |-> k - 1,
                     e |-> Null, todo |-> thr[p].todo]
    <3>7. thr' = [thr EXCEPT ![p] = [thr[p] EXCEPT !.pc = "kick", !.i = k - 1, !.e = Null]]
      BY <3>2, Zenon
    <3>8. "kick" \in Pcs
      BY DEF Pcs
    <3>9. k - 1 \in Nat
      BY <1>2
    <3>10. Null \in Slots
      BY DEF Slots
    <3>11. thr[p] \in Thread
      BY <1>2
    <3>12. [thr[p] EXCEPT !.pc = "kick", !.i = k - 1, !.e = Null] = r
      <4> HIDE DEF k
      <4> QED BY <3>8, <3>9, <3>10, <3>11, KickedFields, Zenon
    <3>13. thr' = [thr EXCEPT ![p] = r]
      BY <3>7, <3>12, Zenon
    <3>14. r \in Thread /\ r.pc = "kick" /\ r.ses = thr[p].ses /\ r.adm = thr[p].adm
           /\ r.todo = thr[p].todo /\ r.i = k - 1
      BY <1>2, <3>8, <3>9, <3>10 DEF Thread, Slots
    <3> HIDE DEF r
    <3>15. Becomes(p, r)
      BY <3>13, <3>14 DEF Becomes
    <3>16. thr'[p] = r
      BY <1>1, <3>15, BecomesIs
    <3>17. ReachesOK(p)'
      <4>1. SUFFICES ASSUME NEW s \in thr[p].todo, LoggedIn(s)', cred'[s] = thr[p].adm
                     PROVE  s \in blame' \/ \E j \in 1..Len(list') : j <= k - 1 /\ list'[j] = s
        BY <3>14, <3>16 DEF ReachesOK, Kicks
      <4>2. s \in Session /\ LoggedIn(s) /\ cred[s] = thr[p].adm
        BY <1>2, <2>3, <4>1
      <4>3. s \in blame \/ \E j \in 1..Len(list) : j <= k /\ list[j] = s
        BY <4>1, <4>2 DEF IInv, ReachesOK
      <4>4. ASSUME NEW j \in 1..Len(list), j <= k, list[j] = s
            PROVE  s \in blame' \/ \E m \in 1..Len(list') : m <= k - 1 /\ list'[m] = s
        <5>1. CASE j = k
          BY <3>3, <4>1, <4>2, <4>4, <5>1
        <5>2. CASE j # k
          <6>1. j < k /\ j <= k - 1
            BY <1>2, <4>4, <5>2
          <6> QED BY <3>4, <4>2, <4>4, <6>1
        <5> QED BY <5>1, <5>2
      <4> QED BY <3>4, <4>3, <4>4
    <3> QED BY <1>1, <1>2, <3>4, <3>5, <3>6, <3>14, <3>15, <3>17, ThreadStep
  <2> QED BY <2>4, <2>5
<1> QED BY <1>3, <1>4

(* The only step that logs a session in: it forgets what it knew of it. *)
LEMMA CreateKeeps ==
    ASSUME IInv, NEW p \in Login, Create(p)
    PROVE  IInv'
<1>1. PICK s \in Session :
         /\ cred' = [cred EXCEPT ![s] = thr[p].adm]
         /\ valid' = valid \cup {s}
         /\ idle' = idle \ {s}
         /\ blame' = (blame \ {s, Blind(s)})
                       \cup IF thr[p].e # Null THEN {Blind(s)} ELSE {}
         /\ thr' = [q \in Login |->
                      IF q = p THEN [thr[p] EXCEPT !.pc = "check", !.ses = s, !.i = 0,
                                                   !.e = Null, !.todo = {}]
                      ELSE [thr[q] EXCEPT !.todo = @ \ {s}]]
  BY Zenon DEF Create
<1>2. /\ thr[p].pc = "create" /\ stale' = stale \ {p} /\ list' = list /\ sweep' = sweep
      /\ thr \in [Login -> Thread]
  BY Facts DEF Create
<1>3. thr[p] \in Thread /\ thr[p].adm \in Admin /\ s \in Slots
  BY <1>2, ThreadIs DEF Slots
<1> DEFINE r == [pc |-> "check", ses |-> s, adm |-> thr[p].adm, i |-> 0, e |-> Null, todo |-> {}]
<1>4. thr'[p] = r /\ r \in Thread
  <2>1. thr[p] \in Thread
    BY <1>3
  <2>2. "check" \in Pcs
    BY DEF Pcs
  <2>3. 0 \in Nat
    OBVIOUS
  <2>4. s \in Slots
    BY <1>3
  <2>5. [thr[p] EXCEPT !.pc = "check", !.ses = s, !.i = 0, !.e = Null, !.todo = {}] = r
    BY <2>1, <2>2, <2>3, <2>4, CreatedFields, Zenon
  <2>6. thr'[p] = [thr[p] EXCEPT !.pc = "check", !.ses = s, !.i = 0, !.e = Null, !.todo = {}]
    BY <1>1, Zenon
  <2>7. thr'[p] = r
    BY <2>5, <2>6, Zenon
  <2>8. r \in Thread
    BY <1>3, <2>2 DEF Thread, Slots
  <2> QED BY <2>7, <2>8
<1>5. r.pc = "check" /\ r.ses = s /\ r.adm = thr[p].adm /\ r.todo = {}
  OBVIOUS
<1> HIDE DEF r
<1>6. ASSUME NEW q \in Login, q # p
      PROVE  /\ thr'[q] \in Thread /\ thr'[q].pc = thr[q].pc /\ thr'[q].ses = thr[q].ses
             /\ thr'[q].adm = thr[q].adm /\ thr'[q].i = thr[q].i
             /\ thr'[q].todo = thr[q].todo \ {s}
  <2>1. thr'[q] = [thr[q] EXCEPT !.todo = thr[q].todo \ {s}]
    BY <1>1, <1>6, Zenon
  <2>2. thr[q] \in Thread
    BY <1>2
  <2>3. thr[q].todo \ {s} \in SUBSET Session
    BY <2>2 DEF Thread
  <2>4. thr'[q] = [pc |-> thr[q].pc, ses |-> thr[q].ses, adm |-> thr[q].adm, i |-> thr[q].i,
                   e |-> thr[q].e, todo |-> thr[q].todo \ {s}]
    BY <2>1, <2>2, <2>3, TodoFields, Zenon
  <2> QED BY <2>2, <2>3, <2>4 DEF Thread
<1>7. thr' \in [Login -> Thread]
  <2> DEFINE F(q) == IF q = p THEN [thr[p] EXCEPT !.pc = "check", !.ses = s, !.i = 0,
                                                   !.e = Null, !.todo = {}]
                      ELSE [thr[q] EXCEPT !.todo = @ \ {s}]
  <2>1. thr' = [q \in Login |-> F(q)]
    BY <1>1, Zenon
  <2>2. \A q \in Login : thr'[q] \in Thread
    BY <1>4, <1>6
  <2> HIDE DEF F
  <2> QED BY <2>1, <2>2
<1>8. /\ cred' \in [Session -> Admin \cup {Nobody}] /\ cred'[s] = thr[p].adm
      /\ \A t \in Session : t # s => cred'[t] = cred[t]
  BY <1>1, <1>3, Facts
<1>9. \A t \in Session : t # s => (t \in blame' <=> t \in blame)
  <2>1. \A t \in Session : t # Blind(s)
    BY RegistryConstants DEF Blind
  <2> QED BY <1>1, <2>1
<1>10. blame' \subseteq Session \cup Marks
  BY <1>1, Facts DEF Marks
<1>11. State'
  <2>1. valid' \subseteq Session /\ idle' \subseteq valid' /\ stale' \subseteq Login
    BY <1>1, <1>2, Facts
  <2>2. CredOK'
    BY <1>1, <1>8 DEF IInv, CredOK
  <2> QED BY <1>2, <1>8, <1>10, <2>1, <2>2, StateIs DEF State, SweepOK
<1>12. \A t \in Session : t # s /\ LoggedIn(t)' => LoggedIn(t) /\ cred'[t] = cred[t]
  BY <1>1, <1>8 DEF LoggedIn
<1>13. RegisteredOrBlamed'
  <2>1. SUFFICES ASSUME NEW t \in Session, LoggedIn(t)', ~Entering(t)'
                 PROVE  t \in Entries' \cup blame'
    BY DEF RegisteredOrBlamed
  <2>2. t # s
    BY <1>4, <1>5, <2>1 DEF Entering
  <2>3. ~Entering(t)
    <3>1. SUFFICES ASSUME NEW q \in Login, thr[q].ses = t, thr[q].pc \in Stored PROVE FALSE
      BY DEF Entering, Stored
    <3>2. q # p
      BY <1>2, <3>1 DEF Stored
    <3> QED BY <1>6, <2>1, <3>1, <3>2 DEF Entering, Stored
  <2>4. t \in Entries \cup blame
    BY <1>12, <2>1, <2>2, <2>3 DEF IInv, RegisteredOrBlamed
  <2>5. Entries' = Entries
    BY <1>2 DEF Entries
  <2> QED BY <1>9, <2>2, <2>4, <2>5
<1>14. ASSUME NEW q \in Login PROVE ThrOK(q)' /\ ReachesOK(q)'
  <2>1. CASE q = p
    BY <1>3, <1>4, <1>5, <2>1 DEF ThrOK, ReachesOK
  <2>2. CASE q # p
    <3>1. ThrOK(q)'
      BY <1>6, <2>2 DEF IInv, ThrOK
    <3>2. thr[q].todo \subseteq Session
      BY <1>2 DEF Thread
    <3>3. ReachesOK(q)'
      BY <1>2, <1>6, <1>9, <1>12, <2>2, <3>2 DEF IInv, ReachesOK
    <3> QED BY <3>1, <3>3
  <2> QED BY <2>1, <2>2
<1>15. TypeOK'
  BY <1>7, <1>11 DEF State, TypeOK, Slots, Marks, Thread, Pcs, Pass
<1> QED BY <1>11, <1>13, <1>14, <1>15 DEF IInv, State

LEMMA CheckKeeps ==
    ASSUME IInv, NEW p \in Login, CheckStep(p)
    PROVE  IInv'
<1>1. /\ thr[p].pc = "check" /\ UNCHANGED <<list, cred, valid, idle, stale, sweep>>
      /\ thr \in [Login -> Thread]
  BY Facts DEF CheckStep
<1>2. /\ thr[p] \in Thread /\ thr[p].i \in Nat /\ thr[p].ses \in Session /\ thr[p].adm \in Admin
      /\ blame \subseteq Session \cup Marks
  BY <1>1, ThreadIs, Facts
<1>3. \/ Goto(p, "add") /\ blame' = blame
      \/ Finish(p) /\ blame' = blame \cup {thr[p].ses}
      \/ Finish(p) /\ blame' = blame /\ Readable(p) /\ Current(p) = thr[p].ses
      \/ SetAt(p, thr[p].i + 1) /\ blame' = blame
  BY DEF CheckStep
<1>4. CASE Goto(p, "add") /\ blame' = blame
  <2>1. "add" \in Pcs
    BY DEF Pcs
  <2>2. PICK r : /\ Becomes(p, r) /\ r.pc = "add" /\ r.ses = thr[p].ses /\ r.adm = thr[p].adm
                 /\ r.todo = thr[p].todo
    BY <1>1, <1>4, <2>1, GotoIs
  <2> QED BY <1>1, <1>2, <1>4, <2>2, QuietStep DEF Stored, Kicks
<1>5. CASE Finish(p) /\ thr[p].ses \in Entries' \cup blame' /\ blame \subseteq blame'
           /\ blame' \subseteq Session \cup Marks
  <2>1. PICK r : Becomes(p, r) /\ r.pc = "idle" /\ r.todo = {}
    BY <1>5, FinishIs
  <2> QED BY <1>1, <1>5, <2>1, QuietStep
<1>6. CASE SetAt(p, thr[p].i + 1) /\ blame' = blame
  <2>1. PICK r : /\ Becomes(p, r) /\ r.pc = thr[p].pc /\ r.ses = thr[p].ses /\ r.adm = thr[p].adm
                 /\ r.todo = thr[p].todo
    BY <1>1, <1>2, <1>6, SetAtIs
  <2> QED BY <1>1, <1>2, <1>6, <2>1, QuietStep DEF Stored, Kicks
<1>7. Readable(p) /\ Current(p) = thr[p].ses => thr[p].ses \in Entries'
  <2>1. Readable(p) => thr[p].i + 1 \in 1..Len(list)
    BY <1>2, Facts DEF Readable
  <2>2. Entries' = Entries
    BY <1>1 DEF Entries
  <2> QED BY <2>1, <2>2, Facts, EntriesAre DEF Current
<1> QED BY <1>2, <1>3, <1>4, <1>5, <1>6, <1>7

LEMMA AddReadKeeps ==
    ASSUME IInv, NEW p \in Login, AddRead(p)
    PROVE  IInv'
<1>1. /\ thr[p].pc = "add" /\ UNCHANGED <<list, cred, valid, idle, stale, sweep, blame>>
      /\ thr' = [thr EXCEPT ![p].pc = "store", ![p].i = Len(list)]
  BY DEF AddRead, Same
<1>2. /\ thr[p].ses \in Session /\ thr[p].adm \in Admin /\ blame \subseteq Session \cup Marks
  BY <1>1, ThreadIs, Facts
<1>3. thr' = [thr EXCEPT ![p] = [thr[p] EXCEPT !.pc = "store", !.i = Len(list)]]
  BY <1>1, Zenon
<1>4. "store" \in Pcs
  BY DEF Pcs
<1>5. Len(list) \in Nat
  BY Facts
<1>6. thr[p] \in Thread
  BY ThreadIs
<1> DEFINE r == [pc |-> "store", ses |-> thr[p].ses, adm |-> thr[p].adm, i |-> Len(list),
                 e |-> thr[p].e, todo |-> thr[p].todo]
<1>7. [thr[p] EXCEPT !.pc = "store", !.i = Len(list)] = r
  BY <1>4, <1>5, <1>6, OutFields, Zenon
<1>8. thr' = [thr EXCEPT ![p] = r]
  BY <1>3, <1>7, Zenon
<1>9. r \in Thread /\ r.pc = "store" /\ r.ses = thr[p].ses /\ r.adm = thr[p].adm
      /\ r.todo = thr[p].todo
  BY <1>4, <1>5, <1>6 DEF Thread
<1> HIDE DEF r
<1>10. Becomes(p, r)
  BY <1>8, <1>9 DEF Becomes
<1> QED BY <1>1, <1>2, <1>9, <1>10, QuietStep DEF Stored, Kicks

(* What an append under an old size cuts off is marked. *)
LEMMA AddStoreKeeps ==
    ASSUME IInv, NEW p \in Login, AddStore(p)
    PROVE  IInv'
<1> DEFINE n == thr[p].i
<1>1. /\ thr[p].pc = "store" /\ list' = StoreAt(n, thr[p].ses) /\ stale' = Login
      /\ blame' = blame \cup ({list[k] : k \in (n + 1)..Len(list)} \ {Null})
      /\ Finish(p) /\ UNCHANGED <<cred, valid, idle, sweep>>
  BY DEF AddStore
<1>2. /\ thr[p].ses \in Session /\ n \in Nat /\ list \in Seq(Slots) /\ Len(list) \in Nat
      /\ \A k \in 1..Len(list) : list[k] \in Slots
      /\ blame \subseteq Session \cup Marks
  BY <1>1, ThreadIs, Facts
<1>3. PICK r : Becomes(p, r) /\ r.pc = "idle" /\ r.todo = {}
  BY <1>1, FinishIs
<1> HIDE DEF n
<1>4. /\ list' \in Seq(Slots) /\ Len(list') = n + 1 /\ list'[n + 1] = thr[p].ses
      /\ \A k \in 1..n : k <= Len(list) => list'[k] = list[k]
  BY <1>1, <1>2, StoreAtIs
<1>5. \A s \in Session : s \in blame => s \in blame'
  BY <1>1, RegistryConstants
<1>6. blame' \subseteq Session \cup Marks
  <2>1. \A k \in (n + 1)..Len(list) : k \in 1..Len(list)
    BY <1>2
  <2> QED BY <1>1, <1>2, <2>1 DEF Slots
<1>7. ListKeeps
  <2>1. SUFFICES ASSUME NEW s \in Session, NEW j \in 1..Len(list), list[j] = s
                 PROVE  s \in blame' \/ \E k \in 1..Len(list') : k <= j /\ list'[k] = s
    BY DEF ListKeeps
  <2>2. CASE j <= n
    <3>1. j \in 1..n /\ j <= Len(list) /\ j \in 1..(n + 1) /\ j <= j
      BY <1>2, <2>2
    <3> QED BY <1>4, <2>1, <3>1
  <2>3. CASE ~(j <= n)
    <3>1. j \in (n + 1)..Len(list)
      BY <1>2, <2>3
    <3> QED BY <1>1, <2>1, <3>1, RegistryConstants
  <2> QED BY <2>2, <2>3
<1>8. thr[p].ses \in Entries'
  <2>1. n + 1 \in 1..Len(list')
    BY <1>2, <1>4
  <2> QED BY <1>4, <2>1, EntriesWillBe
<1>9. State'
  BY <1>1, <1>4, <1>6, StateIs DEF State, CredOK, SweepOK
<1>10. NoNewLogin
  BY <1>1, <1>5 DEF NoNewLogin, LoggedIn
<1>11. ReachesOK(p)'
  <2>1. thr'[p] = r
    BY <1>3, BecomesIs, Facts
  <2> QED BY <1>3, <2>1 DEF ReachesOK
<1> QED BY <1>3, <1>7, <1>8, <1>9, <1>10, <1>11, ThreadStep

-----------------------------------------------------------------------------
(* The periodic pass. *)
LEMMA PassIs ==
    ASSUME IInv
    PROVE  /\ sweep \in Pass /\ sweep.i \in Nat /\ sweep.e \in Slots
           /\ sweep.pc # "idle" => sweep.i # 0
<1>1. sweep \in Pass
  BY Facts
<1> QED BY <1>1 DEF Pass, Slots, IInv, SweepOK

LEMMA PassGoesOn ==
    ASSUME NEW k \in Nat, NextEntry(k) \/ sweep' = IdleSweep
    PROVE  sweep' \in Pass /\ SweepOK'
<1>1. ASSUME NEW n \in Nat, n # 0, sweep' = [pc |-> "get", i |-> n, e |-> Null]
      PROVE  sweep' \in Pass /\ SweepOK'
  BY <1>1 DEF Pass, SweepOK
<1>2. ASSUME sweep' = IdleSweep PROVE sweep' \in Pass /\ SweepOK'
  BY <1>2 DEF Pass, SweepOK, IdleSweep
<1>3. k > 1 => k - 1 \in Nat /\ k - 1 # 0
  OBVIOUS
<1> QED BY <1>1, <1>2, <1>3 DEF NextEntry

LEMMA PassStops ==
    ASSUME IInv, sweep.pc # "idle", sweep' = [sweep EXCEPT !.pc = "drop"]
    PROVE  sweep' \in Pass /\ SweepOK'
<1>1. /\ sweep \in Pass /\ sweep.i \in Nat /\ sweep.i # 0
  BY PassIs
<1> QED BY <1>1 DEF Pass, SweepOK

LEMMA PassOnly ==
    ASSUME IInv, UNCHANGED <<list, cred, valid, idle, thr, stale>>,
           sweep' \in Pass, SweepOK',
           blame \subseteq blame', blame' \subseteq Session \cup Marks
    PROVE  IInv'
<1>1. State'
  <2>1. State
    BY StateIs
  <2> QED BY <2>1 DEF State, CredOK
<1>2. NoNewLogin
  BY DEF NoNewLogin, LoggedIn
<1> QED BY <1>1, <1>2, SameList, OtherStep

LEMMA SweepStartKeeps ==
    ASSUME IInv, SweepStart
    PROVE  IInv'
<1>1. /\ sweep' = [pc |-> "get", i |-> Len(list), e |-> Null] /\ list # <<>>
      /\ UNCHANGED <<list, cred, valid, idle, thr, stale, blame>>
  BY DEF SweepStart
<1>2. Len(list) \in Nat /\ Len(list) # 0 /\ blame \subseteq Session \cup Marks
  <2>1. list \in Seq(Slots) /\ blame \subseteq Session \cup Marks
    BY Facts
  <2> QED BY <1>1, <2>1
<1>3. sweep' \in Pass /\ SweepOK'
  BY <1>1, <1>2 DEF Pass, SweepOK
<1> QED BY <1>1, <1>2, <1>3, PassOnly

LEMMA SweepGetKeeps ==
    ASSUME IInv, SweepGet
    PROVE  IInv'
<1>1. /\ sweep.pc = "get" /\ UNCHANGED <<list, cred, valid, idle, thr, stale, blame>>
      /\ blame \subseteq Session \cup Marks
  BY Facts DEF SweepGet, Same
<1>2. sweep.i \in Nat /\ sweep.i # 0
  BY <1>1, PassIs
<1>3. \/ sweep' = IdleSweep \/ NextEntry(sweep.i)
      \/ /\ sweep.i <= Len(list)
         /\ \E l \in {"drop", "dropTell", "out"} :
              sweep' = [pc |-> l, i |-> sweep.i, e |-> list[sweep.i]]
  BY DEF SweepGet
<1>4. CASE sweep' = IdleSweep \/ NextEntry(sweep.i)
  BY <1>1, <1>2, <1>4, PassGoesOn, PassOnly
<1>5. ASSUME sweep.i <= Len(list), NEW l \in {"drop", "dropTell", "out"},
             sweep' = [pc |-> l, i |-> sweep.i, e |-> list[sweep.i]]
      PROVE  IInv'
  <2>1. list[sweep.i] \in Slots
    BY <1>2, <1>5, Facts
  <2>2. sweep' \in Pass /\ SweepOK'
    BY <1>2, <1>5, <2>1 DEF Pass, SweepOK, Slots
  <2> QED BY <1>1, <2>2, PassOnly
<1> QED BY <1>3, <1>4, <1>5

LEMMA SweepDropKeeps ==
    ASSUME IInv, SweepDrop
    PROVE  IInv'
<1> DEFINE k == sweep.i
           e == sweep.e
<1>1. /\ sweep.pc \in {"drop", "dropTell"} /\ UNCHANGED <<cred, valid, idle, thr>>
      /\ blame \subseteq Session \cup Marks
  BY Facts DEF SweepDrop
<1>2. k \in Nat /\ k # 0 /\ Len(list) \in Nat
  BY <1>1, PassIs, Facts
<1>3. CASE k > Len(list)
  <2>1. sweep' = IdleSweep /\ UNCHANGED <<list, stale, blame>>
    BY <1>3 DEF SweepDrop, Same
  <2> QED BY <1>1, <1>2, <2>1, PassGoesOn, PassOnly
<1>4. CASE ~(k > Len(list))
  <2>1. /\ list' = RemoveAt(list, k) /\ stale' = Login
        /\ blame' = IF list[k] # e \/ LoggedIn(e)
                    THEN blame \cup ({list[k]} \ {Null}) ELSE blame
        /\ NextEntry(k) \/ sweep' = [sweep EXCEPT !.pc = "drop"]
    BY <1>4 DEF SweepDrop
  <2>2. k \in 1..Len(list)
    BY <1>2, <1>4
  <2>3. sweep' \in Pass /\ SweepOK'
    BY <1>1, <1>2, <2>1, PassGoesOn, PassStops
  <2> HIDE DEF k, e
  <2>4. \A s \in Session : list[k] = s /\ LoggedIn(s)' => s \in blame'
    BY <1>1, <2>1, RegistryConstants DEF LoggedIn
  <2>5. blame' = blame \/ blame' = blame \cup ({list[k]} \ {Null})
    BY <2>1
  <2>6. /\ list' \in Seq(Slots) /\ blame \subseteq blame' /\ blame' \subseteq Session \cup Marks
        /\ ListKeeps
    BY <2>1, <2>2, <2>4, <2>5, Removed
  <2>7. State'
    BY <1>1, <2>1, <2>3, <2>6, StateIs DEF State, CredOK
  <2>8. NoNewLogin
    BY <1>1, <2>6 DEF NoNewLogin, LoggedIn
  <2> QED BY <1>1, <2>6, <2>7, <2>8, OtherStep
<1> QED BY <1>3, <1>4

LEMMA SweepOutKeeps ==
    ASSUME IInv, SweepOut
    PROVE  IInv'
<1> DEFINE k == sweep.i
           e == sweep.e
<1>1. sweep.pc = "out" /\ thr' = thr /\ blame \subseteq Session \cup Marks /\ valid \subseteq Session
  BY Facts DEF SweepOut
<1>2. k \in Nat /\ k # 0 /\ Len(list) \in Nat
  BY <1>1, PassIs, Facts
<1>3. \/ /\ blame' = blame \/ (e \in valid /\ blame' = blame \cup {e})
         /\ sweep' = [sweep EXCEPT !.pc = "drop"]
         /\ UNCHANGED <<list, stale, cred, valid, idle>>
      \/ /\ e \in valid /\ Invalidate({e})
         /\ IF k > Len(list) THEN sweep' = IdleSweep /\ Same
                             ELSE Removing(k, e) /\ NextEntry(k)
  BY DEF SweepOut
<1>4. CASE /\ blame' = blame \/ (e \in valid /\ blame' = blame \cup {e})
           /\ sweep' = [sweep EXCEPT !.pc = "drop"]
           /\ UNCHANGED <<list, stale, cred, valid, idle>>
  <2>1. sweep' \in Pass /\ SweepOK'
    BY <1>1, <1>4, PassStops
  <2>2. blame \subseteq blame' /\ blame' \subseteq Session \cup Marks
    BY <1>1, <1>4
  <2> QED BY <1>1, <1>4, <2>1, <2>2, PassOnly
<1>5. CASE /\ e \in valid /\ Invalidate({e})
           /\ IF k > Len(list) THEN sweep' = IdleSweep /\ Same
                               ELSE Removing(k, e) /\ NextEntry(k)
  <2>1. /\ valid' \subseteq Session /\ idle' \subseteq valid'
        /\ cred' \in [Session -> Admin \cup {Nobody}] /\ CredOK'
        /\ \A t \in Session : LoggedIn(t)' => LoggedIn(t) /\ cred'[t] = cred[t] /\ t # e
    <3>1. {e} \in SUBSET Session
      BY <1>1, <1>5
    <3> QED BY <1>5, <3>1, Invalidated
  <2>2. sweep' \in Pass /\ SweepOK'
    BY <1>2, <1>5, PassGoesOn
  <2>3. CASE k > Len(list)
    <3>1. UNCHANGED <<list, stale, blame>>
      BY <1>5, <2>3 DEF Same
    <3>2. State'
      BY <2>1, <2>2, <3>1, StateIs DEF State
    <3>3. NoNewLogin
      BY <2>1, <3>1 DEF NoNewLogin
    <3> QED BY <1>1, <3>1, <3>2, <3>3, SameList, OtherStep
  <2>4. CASE ~(k > Len(list))
    <3>1. /\ list' = RemoveAt(list, k) /\ stale' = Login
          /\ blame' = IF list[k] # e THEN blame \cup ({list[k]} \ {Null}) ELSE blame
      BY <1>5, <2>4 DEF Removing
    <3>2. k \in 1..Len(list)
      BY <1>2, <2>4
    <3> HIDE DEF k, e
    <3>3. \A s \in Session : list[k] = s /\ LoggedIn(s)' => s \in blame'
      BY <2>1, <3>1, RegistryConstants
    <3>4. blame' = blame \/ blame' = blame \cup ({list[k]} \ {Null})
      BY <3>1
    <3>5. /\ list' \in Seq(Slots) /\ blame \subseteq blame' /\ blame' \subseteq Session \cup Marks
          /\ ListKeeps
      BY <3>1, <3>2, <3>3, <3>4, Removed
    <3>6. State'
      BY <2>1, <2>2, <3>1, <3>5, StateIs DEF State
    <3>7. NoNewLogin
      BY <2>1, <3>5 DEF NoNewLogin
    <3> QED BY <1>1, <3>5, <3>6, <3>7, OtherStep
  <2> QED BY <2>3, <2>4
<1> QED BY <1>3, <1>4, <1>5

-----------------------------------------------------------------------------
LEMMA InitIs ==
    ASSUME Init
    PROVE  IInv
<1>1. IdleThr \in Thread
  BY DEF IdleThr, Thread, Pcs
<1>2. IdleSweep \in Pass /\ IdleSweep.pc = "idle"
  BY DEF IdleSweep, Pass
<1>3. TypeOK
  <2>1. list \in Seq(Slots)
    BY DEF Init
  <2> QED BY <1>1, <1>2, <2>1, TypeParts DEF Init
<1>4. CredOK /\ SweepOK /\ RegisteredOrBlamed
  BY <1>2 DEF Init, CredOK, SweepOK, RegisteredOrBlamed, LoggedIn
<1>5. \A p \in Login : ThrOK(p) /\ ReachesOK(p)
  BY DEF Init, ThrOK, ReachesOK, IdleThr
<1> QED BY <1>3, <1>4, <1>5 DEF IInv

LEMMA StepKeeps ==
    ASSUME IInv, NEW p \in Login, Step(p) \/ KickFails(p)
    PROVE  IInv'
BY ScanKeeps, ResolveKeeps, KickStepKeeps, KickFailsKeeps, KickOutKeeps, CreateKeeps,
   CheckKeeps, AddReadKeeps, AddStoreKeeps DEF Step

LEMMA NextKeeps ==
    ASSUME IInv, [Next]_vars
    PROVE  IInv'
<1>1. CASE User
  BY <1>1, TouchKeeps, GoIdleKeeps, LogoutKeeps, StoreCredentialKeeps, ExpireKeeps
  DEF User
<1>2. CASE Begin
  BY <1>2, StartKeeps DEF Begin
<1>3. CASE \E p \in Login : Step(p) \/ KickFails(p)
  BY <1>3, StepKeeps
<1>4. CASE Sweep
  BY <1>4, SweepStartKeeps, SweepGetKeeps, SweepDropKeeps, SweepOutKeeps DEF Sweep
<1>5. CASE UNCHANGED vars
  <2>1. sweep' \in Pass /\ SweepOK' /\ blame' \subseteq Session \cup Marks
    BY <1>5, Facts DEF vars, IInv, SweepOK
  <2> QED BY <1>5, <2>1, PassOnly DEF vars
<1> QED BY <1>1, <1>2, <1>3, <1>4, <1>5 DEF Next

LEMMA Invariant == Spec => []IInv
<1>1. Init => IInv
  BY InitIs
<1>2. IInv /\ [Next]_vars => IInv'
  BY NextKeeps
<1> QED BY <1>1, <1>2, PTL DEF Spec

(* The list, the sessions, the threads and the pass keep their types: no     *)
(* cursor of a kick goes below zero, no idle session is one the container    *)
(* has dropped.  (The loops of SessionManagement.)                           *)
THEOREM TypeCorrect == Spec => []TypeOK
<1>1. IInv => TypeOK
  BY DEF IInv
<1> QED BY <1>1, Invariant, PTL

(* However many logins, passes, logouts and expiries interleave, a session   *)
(* that is logged in is on the list or one of the named accidents hit it.    *)
(* (createSession, the two remove(i) loops.)                                 *)
THEOREM LoggedInIsListed == Spec => []RegisteredOrBlamed
<1>1. IInv => RegisteredOrBlamed
  BY DEF IInv
<1> QED BY <1>1, Invariant, PTL

(* A kick that is under way still has before it, below its index, every      *)
(* session of the operator it found and has not ended; one that returns has  *)
(* ended them all, accidents apart.  (logoutAdminId.)                        *)
THEOREM KickMissesNobody == Spec => []KickReachesAll
<1>1. IInv => KickReachesAll
  BY DEF IInv, ReachesOK, KickReachesAll, Kicks
<1> QED BY <1>1, Invariant, PTL

-----------------------------------------------------------------------------
(* Logins one at a time, under a policy that allows one session.             *)
OneAtATime ==
    /\ Observe = TRUE /\ Policies \subseteq {"A", "B"}
    /\ \A p, q \in Login : p = q

Mine(p, s) == LoggedIn(s) /\ cred[s] = thr[p].adm

(* An accident took s off the list, or its credential came without a look.   *)
Marked(s) == s \in blame \/ Blind(s) \in blame

(* What isExistId has passed over is of no session of the operator, unless   *)
(* that session was given its credential behind the scan.                    *)
ScanOK(p) ==
    thr[p].pc = "scan" /\ p \notin stale =>
        /\ thr[p].i <= Len(list)
        /\ \A k \in 1..thr[p].i, s \in Session : list[k] = s /\ Mine(p, s) => Marked(s)

KickOK(p) ==
    thr[p].pc \in Kicks => \A s \in Session : Mine(p, s) => s \in thr[p].todo \/ Marked(s)

CreateOK(p) ==
    thr[p].pc = "create" /\ thr[p].e = Null => \A s \in Session : Mine(p, s) => Marked(s)

SInv == OneUnlessBlind /\ \A p \in Login : ScanOK(p) /\ KickOK(p) /\ CreateOK(p)

(* Steps that let nobody in, forget no mark and tell every iterator of a     *)
(* change of the list.                                                       *)
BlindKept == \A s \in Session : Blind(s) \in blame => Blind(s) \in blame'

Told == stale' = Login \/ UNCHANGED <<list, stale>>

Calm == NoNewLogin /\ BlindKept /\ Told

LEMMA CalmIs ==
    ASSUME IInv, blame \subseteq blame', Told,
           \/ UNCHANGED <<cred, valid>>
           \/ \E S \in SUBSET Session : Invalidate(S)
    PROVE  Calm
<1>1. BlindKept
  BY DEF BlindKept
<1>2. CASE UNCHANGED <<cred, valid>>
  BY <1>1, <1>2 DEF Calm, NoNewLogin, LoggedIn
<1>3. ASSUME NEW S \in SUBSET Session, Invalidate(S) PROVE Calm
  <2>1. \A s \in Session : LoggedIn(s)' => LoggedIn(s) /\ cred'[s] = cred[s]
    BY <1>3, Invalidated
  <2> QED BY <1>1, <2>1 DEF Calm, NoNewLogin
<1> QED BY <1>2, <1>3

LEMMA ThreadIsCalm ==
    ASSUME IInv, NEW p \in Login,
           \/ ScanStep(p) \/ Resolve(p) \/ KickStep(p) \/ KickFails(p) \/ KickOut(p)
           \/ CheckStep(p) \/ AddRead(p) \/ AddStore(p)
    PROVE  Calm
<1>1. CASE ScanStep(p) \/ Resolve(p) \/ KickStep(p) \/ KickFails(p) \/ AddRead(p)
  <2>1. UNCHANGED <<list, cred, valid, stale, blame>>
    BY <1>1 DEF ScanStep, Resolve, KickStep, KickFails, AddRead, Same
  <2> QED BY <2>1, CalmIs DEF Told
<1>2. CASE CheckStep(p)
  <2>1. UNCHANGED <<list, cred, valid, stale>> /\ blame \subseteq blame'
    BY <1>2 DEF CheckStep
  <2> QED BY <2>1, CalmIs DEF Told
<1>3. CASE AddStore(p)
  <2>1. UNCHANGED <<cred, valid>> /\ stale' = Login /\ blame \subseteq blame'
    BY <1>3 DEF AddStore
  <2> QED BY <2>1, CalmIs DEF Told
<1>4. CASE KickOut(p)
  <2>1. CASE thr[p].e \notin valid
    <3>1. UNCHANGED <<list, cred, valid, stale, blame>>
      BY <1>4, <2>1 DEF KickOut, Same
    <3> QED BY <3>1, CalmIs DEF Told
  <2>2. CASE thr[p].e \in valid
    <3>1. /\ Invalidate({thr[p].e}) /\ blame \subseteq blame'
          /\ Told
      BY <1>4, <2>2 DEF KickOut, Same, Removing, Told
    <3>2. {thr[p].e} \in SUBSET Session
      BY <2>2, Facts
    <3> QED BY <3>1, <3>2, CalmIs
  <2> QED BY <2>1, <2>2
<1> QED BY <1>1, <1>2, <1>3, <1>4

(* Users' steps but the one that stores a credential. *)
UserCalm == \E s \in Session : Touch(s) \/ GoIdle(s) \/ Logout(s) \/ Expire(s)

LEMMA OthersAreCalm ==
    ASSUME IInv, UserCalm \/ Sweep \/ UNCHANGED vars
    PROVE  Calm /\ thr' = thr
<1>1. ASSUME NEW s \in Session, Touch(s) \/ GoIdle(s) PROVE Calm /\ thr' = thr
  <2>1. UNCHANGED <<list, cred, valid, stale, blame, thr>>
    BY <1>1 DEF Touch, GoIdle
  <2> QED BY <2>1, CalmIs DEF Told
<1>2. ASSUME NEW s \in Session, Logout(s) PROVE Calm /\ thr' = thr
  <2>1. /\ UNCHANGED <<list, valid, stale, blame, thr>> /\ cred' = [cred EXCEPT ![s] = Nobody]
    BY <1>2 DEF Logout
  <2>2. \A t \in Session : LoggedIn(t)' => LoggedIn(t) /\ cred'[t] = cred[t]
    BY <2>1, Facts DEF LoggedIn
  <2> QED BY <2>1, <2>2 DEF Calm, NoNewLogin, BlindKept, Told
<1>3. ASSUME NEW s \in Session, Expire(s) PROVE Calm /\ thr' = thr
  <2>1. UNCHANGED <<list, stale, blame, thr>> /\ Invalidate({s})
    BY <1>3 DEF Expire
  <2>2. {s} \in SUBSET Session
    OBVIOUS
  <2> QED BY <2>1, <2>2, CalmIs DEF Told
<1>4. CASE SweepStart \/ SweepGet \/ UNCHANGED vars
  <2>1. UNCHANGED <<list, cred, valid, stale, blame, thr>>
    BY <1>4 DEF SweepStart, SweepGet, Same, vars
  <2> QED BY <2>1, CalmIs DEF Told
<1>5. CASE SweepDrop
  <2>1. /\ UNCHANGED <<cred, valid, thr>> /\ blame \subseteq blame'
        /\ Told
    BY <1>5 DEF SweepDrop, Same, Told
  <2> QED BY <2>1, CalmIs DEF Told
<1>6. CASE SweepOut
  <2>1. /\ thr' = thr /\ blame \subseteq blame'
        /\ Told
        /\ UNCHANGED <<cred, valid>> \/ (sweep.e \in valid /\ Invalidate({sweep.e}))
    BY <1>6 DEF SweepOut, Same, Removing, Told
  <2>2. sweep.e \in valid => {sweep.e} \in SUBSET Session
    BY Facts
  <2> QED BY <2>1, <2>2, CalmIs DEF Told
<1> QED BY <1>1, <1>2, <1>3, <1>4, <1>5, <1>6 DEF UserCalm, Sweep

LEMMA CalmKeepsOne ==
    ASSUME OneUnlessBlind, NoNewLogin, BlindKept
    PROVE  OneUnlessBlind'
<1>1. SUFFICES ASSUME NEW s \in Session, NEW t \in Session, LoggedIn(s)', LoggedIn(t)',
                      cred'[s] = cred'[t], s # t
               PROVE  blame' \cap {s, t, Blind(s), Blind(t)} # {}
  BY DEF OneUnlessBlind, Blind
<1>2. /\ LoggedIn(s) /\ LoggedIn(t) /\ cred[s] = cred[t]
      /\ s \in blame => s \in blame'
      /\ t \in blame => t \in blame'
  BY <1>1 DEF NoNewLogin
<1>3. blame \cap {s, t, Blind(s), Blind(t)} # {}
  BY <1>1, <1>2 DEF OneUnlessBlind
<1>4. /\ Blind(s) \in blame => Blind(s) \in blame'
      /\ Blind(t) \in blame => Blind(t) \in blame'
  BY DEF BlindKept
<1> HIDE DEF Blind
<1> QED BY <1>2, <1>3, <1>4

(* One thread's part, when the thread itself stays where it is or moves on   *)
(* without a new claim.                                                      *)
LEMMA CalmKeepsMine ==
    ASSUME NoNewLogin, BlindKept, NEW p \in Login, thr'[p].adm = thr[p].adm
    PROVE  \A s \in Session : Mine(p, s)' => Mine(p, s) /\ (Marked(s) => Marked(s)')
<1>1. \A s \in Session : Mine(p, s)' => Mine(p, s) /\ (s \in blame => s \in blame')
  BY DEF NoNewLogin, Mine
<1>2. \A s \in Session : Blind(s) \in blame => Blind(s)' \in blame'
  BY DEF BlindKept, Blind
<1> QED BY <1>1, <1>2 DEF Marked

LEMMA KickStays ==
    ASSUME NoNewLogin, BlindKept, NEW p \in Login, KickOK(p), thr'[p].adm = thr[p].adm,
           thr'[p].todo = thr[p].todo, thr[p].pc \in Kicks
    PROVE  KickOK(p)'
<1>1. \A s \in Session : Mine(p, s)' => Mine(p, s) /\ (Marked(s) => Marked(s)')
  BY CalmKeepsMine
<1> QED BY <1>1 DEF KickOK

LEMMA OtherSolo ==
    ASSUME IInv, SInv, Calm, thr' = thr
    PROVE  SInv'
<1>1. OneUnlessBlind'
  BY CalmKeepsOne DEF SInv, Calm
<1>2. ASSUME NEW p \in Login PROVE ScanOK(p)' /\ KickOK(p)' /\ CreateOK(p)'
  <2>1. \A s \in Session : Mine(p, s)' => Mine(p, s) /\ (Marked(s) => Marked(s)')
    BY CalmKeepsMine DEF Calm
  <2>2. ScanOK(p)'
    BY <2>1 DEF ScanOK, SInv, Calm, Told
  <2>3. KickOK(p)' /\ CreateOK(p)'
    BY <2>1 DEF KickOK, CreateOK, SInv
  <2> QED BY <2>2, <2>3
<1> QED BY <1>1, <1>2 DEF SInv

LEMMA ThreadSolo ==
    ASSUME OneAtATime, SInv, NEW p \in Login, Calm, ScanOK(p)', KickOK(p)', CreateOK(p)'
    PROVE  SInv'
<1>1. OneUnlessBlind'
  BY CalmKeepsOne DEF SInv, Calm
<1>2. \A q \in Login : q = p
  BY DEF OneAtATime
<1>3. \A q \in Login : ScanOK(q)' /\ KickOK(q)' /\ CreateOK(q)'
  BY <1>2
<1> QED BY <1>1, <1>3 DEF SInv

(* A thread that is at none of the places with a claim.                      *)
LEMMA NoClaim ==
    ASSUME NEW p \in Login, thr'[p].pc \notin {"scan", "kick", "kickOut", "create"}
    PROVE  ScanOK(p)' /\ KickOK(p)' /\ CreateOK(p)'
BY DEF ScanOK, KickOK, CreateOK, Kicks

(* No session is on its way into the list while the only thread is not       *)
(* entering one: every session of its operator is on the list or marked.     *)
LEMMA AllListed ==
    ASSUME IInv, OneAtATime, NEW p \in Login, thr[p].pc \notin Stored
    PROVE  \A s \in Session : LoggedIn(s) => s \in Entries \cup blame
<1>1. \A s \in Session : ~Entering(s)
  BY DEF OneAtATime, Entering, Stored
<1> QED BY <1>1 DEF IInv, RegisteredOrBlamed

(* Where a step leaves its thread. *)
LEMMA SeenIs ==
    ASSUME thr \in [Login -> Thread], NEW p \in Login, NEW l \in Pcs, NEW x \in Slots,
           thr' = [thr EXCEPT ![p].pc = l, ![p].e = x]
    PROVE  thr'[p].pc = l /\ thr'[p].adm = thr[p].adm /\ thr'[p].todo = thr[p].todo /\ thr'[p].e = x
<1>1. thr' = [thr EXCEPT ![p] = [thr[p] EXCEPT !.pc = l, !.e = x]]
  BY Zenon
<1>2. thr[p] \in Thread
  OBVIOUS
<1>3. thr'[p] = [pc |-> l, ses |-> thr[p].ses, adm |-> thr[p].adm, i |-> thr[p].i, e |-> x,
                 todo |-> thr[p].todo]
  BY <1>1, <1>2, SeenFields, Zenon
<1> QED BY <1>3

LEMMA KickedIs ==
    ASSUME thr \in [Login -> Thread], NEW p \in Login, NEW l \in Pcs, NEW k \in Nat, NEW x \in Slots,
           thr' = [thr EXCEPT ![p].pc = l, ![p].i = k, ![p].e = x]
    PROVE  thr'[p].pc = l /\ thr'[p].adm = thr[p].adm /\ thr'[p].todo = thr[p].todo
<1>1. thr' = [thr EXCEPT ![p] = [thr[p] EXCEPT !.pc = l, !.i = k, !.e = x]]
  BY Zenon
<1>2. thr[p] \in Thread
  OBVIOUS
<1>3. [thr[p] EXCEPT !.pc = l, !.i = k, !.e = x]
         = [pc |-> l, ses |-> thr[p].ses, adm |-> thr[p].adm, i |-> k, e |-> x,
            todo |-> thr[p].todo]
  BY <1>2, KickedFields, Zenon
<1>4. thr'[p] = [thr[p] EXCEPT !.pc = l, !.i = k, !.e = x]
  BY <1>1, Zenon
<1>5. thr'[p] = [pc |-> l, ses |-> thr[p].ses, adm |-> thr[p].adm, i |-> k, e |-> x,
                 todo |-> thr[p].todo]
  BY <1>3, <1>4, Zenon
<1> QED BY <1>5

LEMMA Finished ==
    ASSUME NEW p \in Login, Finish(p), thr \in [Login -> Thread]
    PROVE  ScanOK(p)' /\ KickOK(p)' /\ CreateOK(p)'
<1>1. thr'[p].pc = "idle"
  BY FinishIs, BecomesIs
<1> QED BY <1>1, NoClaim

LEMMA WentTo ==
    ASSUME NEW p \in Login, NEW l \in Pcs, Goto(p, l), thr \in [Login -> Thread]
    PROVE  thr'[p].pc = l /\ thr'[p].adm = thr[p].adm /\ thr'[p].e = thr[p].e
BY GotoIs, BecomesIs

LEMMA MovedTo ==
    ASSUME NEW p \in Login, NEW k \in Nat, SetAt(p, k), thr \in [Login -> Thread]
    PROVE  /\ thr'[p].pc = thr[p].pc /\ thr'[p].adm = thr[p].adm /\ thr'[p].i = k
           /\ thr'[p].todo = thr[p].todo
BY SetAtIs, BecomesIs

(* isExistId that came to its end has seen the whole list. *)
LEMMA ScanSolo ==
    ASSUME OneAtATime, IInv, SInv, NEW p \in Login, ScanStep(p)
    PROVE  SInv'
<1>1. /\ thr[p].pc = "scan" /\ UNCHANGED <<list, cred, valid, stale, blame>>
      /\ thr \in [Login -> Thread] /\ thr[p].i \in Nat /\ Len(list) \in Nat
      /\ thr[p].ses \in Session
  BY Facts, ThreadIs DEF ScanStep, Same
<1>2. Calm
  BY ThreadIsCalm
<1>3. ScanOK(p)
  BY DEF SInv
<1>4. ASSUME Goto(p, "create"), AtEnd(p), p \notin stale
      PROVE  ScanOK(p)' /\ KickOK(p)' /\ CreateOK(p)'
  <2>1. "create" \in Pcs
    BY DEF Pcs
  <2>2. thr'[p].pc = "create" /\ thr'[p].adm = thr[p].adm
    BY <1>1, <1>4, <2>1, WentTo
  <2>3. \A s \in Session : Mine(p, s) => Marked(s)
    <3>1. ASSUME NEW s \in Session, Mine(p, s), s \in Entries PROVE Marked(s)
      <4>1. \E k \in 1..Len(list) : list[k] = s
        BY <3>1, Facts, EntriesAre
      <4> QED BY <1>1, <1>3, <1>4, <3>1, <4>1 DEF ScanOK, AtEnd
    <3>2. thr[p].pc \notin Stored
      BY <1>1 DEF Stored
    <3>3. \A s \in Session : LoggedIn(s) => s \in Entries \cup blame
      BY <3>2, AllListed
    <3> QED BY <3>1, <3>3 DEF Mine, Marked
  <2>4. \A s \in Session : Mine(p, s)' => Mine(p, s) /\ (Marked(s) => Marked(s)')
    BY <1>2, <2>2, CalmKeepsMine DEF Calm
  <2>5. CreateOK(p)'
    BY <1>1, <2>3, <2>4 DEF CreateOK
  <2> QED BY <2>2, <2>5 DEF ScanOK, KickOK, Kicks
<1>5. ASSUME thr' = [thr EXCEPT ![p].pc = "create", ![p].e = thr[p].ses]
      PROVE  ScanOK(p)' /\ KickOK(p)' /\ CreateOK(p)'
  <2>1. "create" \in Pcs
    BY DEF Pcs
  <2>2. thr[p].ses \in Slots
    BY <1>1 DEF Slots
  <2>4. thr' = [thr EXCEPT ![p] = [thr[p] EXCEPT !.pc = "create", !.e = thr[p].ses]]
    BY <1>5, Zenon
  <2>5. thr[p] \in Thread
    BY <1>1
  <2>6. [thr[p] EXCEPT !.pc = "create", !.e = thr[p].ses]
           = [pc |-> "create", ses |-> thr[p].ses, adm |-> thr[p].adm, i |-> thr[p].i,
              e |-> thr[p].ses, todo |-> thr[p].todo]
    BY <2>1, <2>2, <2>5, SeenFields, Zenon
  <2>7. thr'[p] = [thr[p] EXCEPT !.pc = "create", !.e = thr[p].ses]
    BY <1>1, <2>4
  <2>3. thr'[p].pc = "create" /\ thr'[p].e = thr[p].ses
    BY <2>6, <2>7
  <2> QED BY <1>1, <2>3, RegistryConstants DEF ScanOK, KickOK, CreateOK, Kicks
<1>6. ASSUME Goto(p, "exists")
      PROVE  ScanOK(p)' /\ KickOK(p)' /\ CreateOK(p)'
  <2>1. "exists" \in Pcs
    BY DEF Pcs
  <2>2. thr'[p].pc = "exists"
    BY <1>1, <1>6, <2>1, WentTo
  <2> QED BY <2>2, NoClaim
<1>7. ASSUME SetAt(p, thr[p].i + 1), Readable(p), ~SameAdmin(p)
      PROVE  ScanOK(p)' /\ KickOK(p)' /\ CreateOK(p)'
  <2>1. /\ thr'[p].pc = "scan" /\ thr'[p].adm = thr[p].adm /\ thr'[p].i = thr[p].i + 1
    BY <1>1, <1>7, MovedTo
  <2>2. \A s \in Session : Mine(p, s)' => Mine(p, s) /\ (Marked(s) => Marked(s)')
    BY <1>2, <2>1, CalmKeepsMine DEF Calm
  <2>3. thr[p].i + 1 <= Len(list) /\ p \notin stale
    BY <1>1, <1>7 DEF Readable
  <2>4. \A k \in 1..thr[p].i, s \in Session : list[k] = s /\ Mine(p, s) => Marked(s)
    BY <1>1, <1>3, <2>3 DEF ScanOK
  <2>5. \A s \in Session : list[thr[p].i + 1] = s => ~Mine(p, s)
    BY <1>7 DEF SameAdmin, Current, Mine
  <2>6. \A k \in 1..(thr[p].i + 1) : k \in 1..thr[p].i \/ k = thr[p].i + 1
    BY <1>1
  <2>7. \A k \in 1..(thr[p].i + 1), s \in Session : list[k] = s /\ Mine(p, s) => Marked(s)
    BY <2>4, <2>5, <2>6
  <2>8. ScanOK(p)'
    BY <1>1, <2>1, <2>2, <2>3, <2>7 DEF ScanOK
  <2> QED BY <2>1, <2>8 DEF KickOK, CreateOK, Kicks
<1>8. \/ Goto(p, "create") /\ AtEnd(p) /\ p \notin stale
      \/ thr' = [thr EXCEPT ![p].pc = "create", ![p].e = thr[p].ses]
      \/ Goto(p, "exists")
      \/ SetAt(p, thr[p].i + 1) /\ Readable(p) /\ ~SameAdmin(p)
  BY DEF ScanStep, OneAtATime
<1> QED BY <1>2, <1>4, <1>5, <1>6, <1>7, <1>8, ThreadSolo

(* What a kick begins with is all there is. *)
LEMMA ResolveSolo ==
    ASSUME OneAtATime, IInv, SInv, NEW p \in Login, Resolve(p)
    PROVE  SInv'
<1> DEFINE S == {s \in Entries \ {Null} : LoggedIn(s) /\ cred[s] = thr[p].adm}
<1>1. /\ thr[p].pc = "exists" /\ UNCHANGED <<list, cred, valid, stale, blame>>
      /\ thr \in [Login -> Thread] /\ Len(list) \in Nat
  BY Facts DEF Resolve, Same
<1>2. Calm
  BY ThreadIsCalm
<1>3. \/ Finish(p)
      \/ thr' = [thr EXCEPT ![p].pc = "kick", ![p].i = Len(list), ![p].todo = S]
  BY DEF Resolve, OneAtATime
<1>4. CASE Finish(p)
  BY <1>1, <1>2, <1>4, Finished, ThreadSolo
<1>5. CASE thr' = [thr EXCEPT ![p].pc = "kick", ![p].i = Len(list), ![p].todo = S]
  <2>1. S \in SUBSET Session /\ "kick" \in Pcs
    BY EntriesAre, Facts DEF Slots, Pcs
  <2>2. \A s \in Session : Mine(p, s) => s \in S \/ Marked(s)
    <3>1. thr[p].pc \notin Stored
      BY <1>1 DEF Stored
    <3>2. \A s \in Session : LoggedIn(s) => s \in Entries \cup blame
      BY <3>1, AllListed
    <3> QED BY <3>2, RegistryConstants DEF Mine, Marked
  <2> HIDE DEF S
  <2>6. "kick" \in Pcs
    BY DEF Pcs
  <2>7. S \in SUBSET Session
    BY <2>1
  <2>8. thr[p] \in Thread
    BY <1>1
  <2>9. Len(list) \in Nat
    BY <1>1
  <2>10. thr' = [thr EXCEPT ![p] = [thr[p] EXCEPT !.pc = "kick", !.i = Len(list), !.todo = S]]
    BY <1>5, Zenon
  <2>11. [thr[p] EXCEPT !.pc = "kick", !.i = Len(list), !.todo = S]
            = [pc |-> "kick", ses |-> thr[p].ses, adm |-> thr[p].adm, i |-> Len(list),
               e |-> thr[p].e, todo |-> S]
    BY <2>6, <2>7, <2>8, <2>9, KickFields, Zenon
  <2>12. thr'[p] = [thr[p] EXCEPT !.pc = "kick", !.i = Len(list), !.todo = S]
    BY <1>1, <2>10
  <2>3. thr'[p].pc = "kick" /\ thr'[p].adm = thr[p].adm /\ thr'[p].todo = S
    BY <2>11, <2>12
  <2>4. \A s \in Session : Mine(p, s)' => Mine(p, s) /\ (Marked(s) => Marked(s)')
    BY <1>2, <2>3, CalmKeepsMine DEF Calm
  <2>5. KickOK(p)'
    BY <1>1, <2>2, <2>3, <2>4 DEF KickOK
  <2> QED BY <1>2, <2>3, <2>5, ThreadSolo DEF ScanOK, CreateOK
<1> QED BY <1>3, <1>4, <1>5

(* A kick that has come down to the end has nobody left. *)
LEMMA KickStepSolo ==
    ASSUME OneAtATime, IInv, SInv, NEW p \in Login, KickStep(p)
    PROVE  SInv'
<1> DEFINE k == thr[p].i
<1>1. /\ thr[p].pc = "kick" /\ UNCHANGED <<list, cred, valid, stale, blame>>
      /\ thr \in [Login -> Thread] /\ Len(list) \in Nat /\ k \in Nat
      /\ KickOK(p) /\ ReachesOK(p)
  BY Facts, ThreadIs DEF KickStep, Same, SInv, IInv
<1>2. Calm
  BY ThreadIsCalm
<1>3. \/ k = 0 /\ Goto(p, "create")
      \/ Finish(p)
      \/ k \in 1..Len(list) /\ SetAt(p, k - 1)
      \/ /\ k \in 1..Len(list) /\ list[k] \in valid
         /\ thr' = [thr EXCEPT ![p].pc = "kickOut", ![p].e = list[k]]
  BY DEF KickStep
<1>4. CASE Finish(p)
  BY <1>1, <1>2, <1>4, Finished, ThreadSolo
<1>5. CASE k = 0 /\ Goto(p, "create")
  <2>1. "create" \in Pcs
    BY DEF Pcs
  <2>2. thr'[p].pc = "create" /\ thr'[p].adm = thr[p].adm
    BY <1>1, <1>5, <2>1, WentTo
  <2>3. \A j \in 1..Len(list) : ~(j <= thr[p].i)
    BY <1>5
  <2>4. \A s \in Session : Mine(p, s) => Marked(s)
    BY <1>1, <2>3 DEF KickOK, ReachesOK, Mine, Kicks, Marked
  <2>5. \A s \in Session : Mine(p, s)' => Mine(p, s) /\ (Marked(s) => Marked(s)')
    BY <1>2, <2>2, CalmKeepsMine DEF Calm
  <2>6. CreateOK(p)'
    BY <1>1, <2>4, <2>5 DEF CreateOK
  <2> QED BY <1>2, <2>2, <2>6, ThreadSolo DEF ScanOK, KickOK, Kicks
<1>6. CASE k \in 1..Len(list) /\ SetAt(p, k - 1)
  <2>1. k - 1 \in Nat
    BY <1>1, <1>6
  <2>2. thr'[p].pc = "kick" /\ thr'[p].adm = thr[p].adm /\ thr'[p].todo = thr[p].todo
    BY <1>1, <1>6, <2>1, MovedTo
  <2>3. KickOK(p)'
    BY <1>1, <1>2, <2>2, KickStays DEF Calm, Kicks
  <2> QED BY <1>2, <2>2, <2>3, ThreadSolo DEF ScanOK, CreateOK
<1>7. CASE /\ k \in 1..Len(list) /\ list[k] \in valid
           /\ thr' = [thr EXCEPT ![p].pc = "kickOut", ![p].e = list[k]]
  <2>1. "kickOut" \in Pcs /\ list[k] \in Slots
    BY <1>7, Facts DEF Pcs, Slots
  <2>2. thr'[p].pc = "kickOut" /\ thr'[p].adm = thr[p].adm /\ thr'[p].todo = thr[p].todo
    BY <1>1, <1>7, <2>1, SeenIs
  <2>3. KickOK(p)'
    BY <1>1, <1>2, <2>2, KickStays DEF Calm, Kicks
  <2> QED BY <1>2, <2>2, <2>3, ThreadSolo DEF ScanOK, CreateOK
<1> QED BY <1>3, <1>4, <1>5, <1>6, <1>7

LEMMA KickOutSolo ==
    ASSUME OneAtATime, IInv, SInv, NEW p \in Login, KickOut(p)
    PROVE  SInv'
<1>1. /\ thr[p].pc = "kickOut" /\ thr \in [Login -> Thread] /\ thr[p].i \in Nat /\ thr[p].i # 0
      /\ KickOK(p)
  BY Facts, ThreadIs DEF KickOut, SInv
<1>2. Calm
  BY ThreadIsCalm
<1>3. \/ Finish(p)
      \/ thr' = [thr EXCEPT ![p].pc = "kick", ![p].i = thr[p].i - 1, ![p].e = Null]
  BY DEF KickOut
<1>4. CASE Finish(p)
  BY <1>1, <1>2, <1>4, Finished, ThreadSolo
<1>5. CASE thr' = [thr EXCEPT ![p].pc = "kick", ![p].i = thr[p].i - 1, ![p].e = Null]
  <2>1. "kick" \in Pcs /\ Null \in Slots
    BY DEF Pcs, Slots
  <2>2. thr[p].i - 1 \in Nat
    BY <1>1
  <2>3. thr'[p].pc = "kick" /\ thr'[p].adm = thr[p].adm /\ thr'[p].todo = thr[p].todo
    BY <1>1, <1>5, <2>1, <2>2, KickedIs
  <2>4. KickOK(p)'
    BY <1>1, <1>2, <2>3, KickStays DEF Calm, Kicks
  <2> QED BY <1>2, <2>3, <2>4, ThreadSolo DEF ScanOK, CreateOK
<1> QED BY <1>3, <1>4, <1>5

(* A browser that comes without a session gets one nobody is logged in on.   *)
LEMMA StartSolo ==
    ASSUME OneAtATime, IInv, SInv, NEW p \in Login, NEW s \in Session, NEW a \in Admin,
           Start(p, s, a)
    PROVE  SInv'
<1>1. /\ valid' = valid \cup {s} /\ UNCHANGED <<list, cred>>
      /\ blame' = IF s \in valid THEN blame ELSE blame \ {s}
      /\ thr \in [Login -> Thread] /\ Len(list) \in Nat
  BY Facts DEF Start
<1>2. thr'[p].pc = "scan" /\ thr'[p].i = 0
  <2>1. thr' = [thr EXCEPT ![p] = [IdleThr EXCEPT !.pc = "scan", !.ses = s, !.adm = a]]
    BY Zenon DEF Start
  <2>2. thr'[p] = [IdleThr EXCEPT !.pc = "scan", !.ses = s, !.adm = a]
    BY <1>1, <2>1
  <2> QED BY <2>2, StartedThread
<1>3. NoNewLogin
  BY <1>1 DEF IInv, CredOK, NoNewLogin, LoggedIn
<1>4. BlindKept
  <2>1. \A t \in Session : Blind(t) # s
    BY RegistryConstants DEF Blind
  <2> QED BY <1>1, <2>1 DEF BlindKept
<1>5. OneUnlessBlind'
  BY <1>3, <1>4, CalmKeepsOne DEF SInv
<1>6. ScanOK(p)' /\ KickOK(p)' /\ CreateOK(p)'
  <2>1. 0 <= Len(list) /\ \A k \in 1..0 : FALSE
    BY <1>1
  <2> QED BY <1>1, <1>2, <2>1 DEF ScanOK, KickOK, CreateOK, Kicks
<1> QED BY <1>5, <1>6 DEF SInv, OneAtATime

(* Who gets in has seen every other session of the operator end, or is        *)
(* marked as one that could not look.                                        *)
LEMMA CreateSolo ==
    ASSUME OneAtATime, IInv, SInv, NEW p \in Login, Create(p)
    PROVE  SInv'
<1>1. PICK s \in Session :
         /\ cred' = [cred EXCEPT ![s] = thr[p].adm]
         /\ valid' = valid \cup {s}
         /\ blame' = (blame \ {s, Blind(s)})
                       \cup IF thr[p].e # Null THEN {Blind(s)} ELSE {}
         /\ thr' = [q \in Login |->
                      IF q = p THEN [thr[p] EXCEPT !.pc = "check", !.ses = s, !.i = 0,
                                                   !.e = Null, !.todo = {}]
                      ELSE [thr[q] EXCEPT !.todo = @ \ {s}]]
  BY Zenon DEF Create
<1>2. thr[p].pc = "create" /\ thr[p] \in Thread /\ CreateOK(p)
  BY ThreadIs DEF Create, SInv
<1>3. thr'[p].pc = "check"
  <2>1. thr'[p] = [thr[p] EXCEPT !.pc = "check", !.ses = s, !.i = 0, !.e = Null, !.todo = {}]
    BY <1>1, Zenon
  <2>2. "check" \in Pcs
    BY DEF Pcs
  <2>3. s \in Slots
    BY DEF Slots
  <2>4. thr[p] \in Thread
    BY <1>2
  <2>5. 0 \in Nat
    OBVIOUS
  <2>6. [thr[p] EXCEPT !.pc = "check", !.ses = s, !.i = 0, !.e = Null, !.todo = {}]
           = [pc |-> "check", ses |-> s, adm |-> thr[p].adm, i |-> 0, e |-> Null, todo |-> {}]
    BY <2>2, <2>3, <2>4, <2>5, CreatedFields, Zenon
  <2> QED BY <2>1, <2>6
<1>4. ScanOK(p)' /\ KickOK(p)' /\ CreateOK(p)'
  BY <1>3, NoClaim
<1>5. ASSUME NEW t \in Session, t # s
      PROVE  /\ LoggedIn(t)' <=> LoggedIn(t)
             /\ cred'[t] = cred[t]
             /\ t \in blame => t \in blame'
             /\ Blind(t) \in blame => Blind(t) \in blame'
  <2>1. t # Blind(s) /\ Blind(t) # s /\ Blind(t) # Blind(s)
    BY <1>5, RegistryConstants DEF Blind
  <2>2. cred'[t] = cred[t]
    BY <1>1, <1>5, Facts
  <2>3. t \in valid' <=> t \in valid
    BY <1>1, <1>5
  <2>4. LoggedIn(t)' <=> LoggedIn(t)
    BY <2>2, <2>3 DEF LoggedIn
  <2> HIDE DEF Blind
  <2> QED BY <1>1, <1>5, <2>1, <2>2, <2>4
<1>6. cred'[s] = thr[p].adm
  BY <1>1, Facts
<1>7. ASSUME NEW t \in Session, t # s, LoggedIn(t)', cred'[t] = thr[p].adm
      PROVE  t \in blame' \/ Blind(t) \in blame' \/ Blind(s) \in blame'
  <2>1. CASE thr[p].e # Null
    BY <1>1, <2>1
  <2>2. CASE thr[p].e = Null
    <3>1. Mine(p, t)
      BY <1>5, <1>7 DEF Mine
    <3> QED BY <1>2, <1>5, <1>7, <2>2, <3>1 DEF CreateOK, Marked
  <2> QED BY <2>1, <2>2
<1>8. OneUnlessBlind'
  <2>1. SUFFICES ASSUME NEW t \in Session, NEW u \in Session, LoggedIn(t)', LoggedIn(u)',
                        cred'[t] = cred'[u], t # u
                 PROVE  blame' \cap {t, u, Blind(t), Blind(u)} # {}
    BY DEF OneUnlessBlind, Blind
  <2>2. CASE t = s
    BY <1>6, <1>7, <2>1, <2>2
  <2>3. CASE u = s
    BY <1>6, <1>7, <2>1, <2>3
  <2>4. CASE t # s /\ u # s
    <3>1. blame \cap {t, u, Blind(t), Blind(u)} # {}
      BY <1>5, <2>1, <2>4 DEF SInv, OneUnlessBlind
    <3> HIDE DEF Blind
    <3> QED BY <1>5, <2>4, <3>1
  <2> QED BY <2>2, <2>3, <2>4
<1> QED BY <1>4, <1>8 DEF SInv, OneAtATime

LEMMA EnteringSolo ==
    ASSUME OneAtATime, IInv, SInv, NEW p \in Login,
           KickFails(p) \/ CheckStep(p) \/ AddRead(p) \/ AddStore(p)
    PROVE  SInv'
<1>1. thr \in [Login -> Thread] /\ thr[p].i \in Nat
  BY Facts, ThreadIs
<1>2. Calm
  BY ThreadIsCalm
<1>3. CASE Finish(p)
  BY <1>1, <1>2, <1>3, Finished, ThreadSolo
<1>4. CASE Goto(p, "add")
  <2>1. "add" \in Pcs
    BY DEF Pcs
  <2>2. thr'[p].pc = "add"
    BY <1>1, <1>4, <2>1, WentTo
  <2> QED BY <1>2, <2>2, NoClaim, ThreadSolo
<1>5. CASE thr[p].pc = "check" /\ SetAt(p, thr[p].i + 1)
  <2>1. thr'[p].pc = "check"
    BY <1>1, <1>5, MovedTo
  <2> QED BY <1>2, <2>1, NoClaim, ThreadSolo
<1>6. CASE thr' = [thr EXCEPT ![p].pc = "store", ![p].i = Len(list)]
  <2>1. thr' = [thr EXCEPT ![p] = [thr[p] EXCEPT !.pc = "store", !.i = Len(list)]]
    BY <1>6, Zenon
  <2>2. thr[p] \in Thread
    BY <1>1
  <2>3. "store" \in Pcs
    BY DEF Pcs
  <2>4. Len(list) \in Nat
    BY Facts
  <2>5. [thr[p] EXCEPT !.pc = "store", !.i = Len(list)]
           = [pc |-> "store", ses |-> thr[p].ses, adm |-> thr[p].adm, i |-> Len(list),
              e |-> thr[p].e, todo |-> thr[p].todo]
    BY <2>2, <2>3, <2>4, OutFields, Zenon
  <2>6. thr'[p] = [thr[p] EXCEPT !.pc = "store", !.i = Len(list)]
    BY <1>1, <2>1
  <2>7. thr'[p].pc = "store"
    BY <2>5, <2>6
  <2> QED BY <1>2, <2>7, NoClaim, ThreadSolo
<1> QED BY <1>3, <1>4, <1>5, <1>6 DEF KickFails, CheckStep, AddRead, AddStore

(* The page of the mail code marks the session it lets in. *)
LEMMA StoreCredentialSolo ==
    ASSUME OneAtATime, IInv, SInv, NEW s \in Session, NEW a \in Admin \cup {Nobody},
           StoreCredential(s, a)
    PROVE  SInv'
<1>1. /\ valid' = valid \cup {s} /\ cred' = [cred EXCEPT ![s] = a]
      /\ blame' = (IF s \in valid THEN blame ELSE blame \ {s, Blind(s)})
                     \cup (IF a # Nobody /\ s \notin Entries THEN {s} ELSE {})
                     \cup (IF a # Nobody THEN {Blind(s)} ELSE {})
      /\ UNCHANGED <<list, stale>>
  BY DEF StoreCredential, OneAtATime
<1>2. \A q \in Login :
         /\ thr'[q].pc = thr[q].pc /\ thr'[q].adm = thr[q].adm /\ thr'[q].i = thr[q].i
         /\ thr'[q].e = thr[q].e
         /\ thr'[q].todo = IF a # Nobody THEN thr[q].todo \ {s} ELSE thr[q].todo
  BY ThreadsAfterCode, Facts
<1>3. cred'[s] = a /\ \A t \in Session : t # s => cred'[t] = cred[t]
  BY <1>1, Facts
<1>4. ASSUME NEW t \in Session, LoggedIn(t)'
      PROVE  \/ t = s /\ Blind(s) \in blame'
             \/ /\ t # s /\ LoggedIn(t) /\ cred'[t] = cred[t]
                /\ t \in blame => t \in blame'
                /\ Blind(t) \in blame => Blind(t) \in blame'
  <2>1. CASE t = s
    BY <1>1, <1>3, <1>4, <2>1 DEF LoggedIn
  <2>2. CASE t # s
    <3>1. t # Blind(s) /\ Blind(t) # s /\ Blind(t) # Blind(s)
      BY <2>2, RegistryConstants DEF Blind
    <3>2. LoggedIn(t) /\ cred'[t] = cred[t]
      BY <1>1, <1>3, <1>4, <2>2 DEF LoggedIn
    <3> HIDE DEF Blind
    <3> QED BY <1>1, <2>2, <3>1, <3>2
  <2> QED BY <2>1, <2>2
<1>5. OneUnlessBlind'
  <2>1. SUFFICES ASSUME NEW t \in Session, NEW u \in Session, LoggedIn(t)', LoggedIn(u)',
                        cred'[t] = cred'[u], t # u
                 PROVE  blame' \cap {t, u, Blind(t), Blind(u)} # {}
    BY DEF OneUnlessBlind, Blind
  <2>2. CASE t = s \/ u = s
    BY <1>4, <2>1, <2>2
  <2>3. CASE t # s /\ u # s
    <3>1. blame \cap {t, u, Blind(t), Blind(u)} # {}
      BY <1>4, <2>1, <2>3 DEF SInv, OneUnlessBlind
    <3> HIDE DEF Blind
    <3> QED BY <1>4, <2>1, <2>3, <3>1
  <2> QED BY <2>2, <2>3
<1>6. ASSUME NEW p \in Login, NEW t \in Session, Mine(p, t)'
      PROVE  \/ t = s /\ Marked(t)'
             \/ t # s /\ Mine(p, t) /\ (Marked(t) => Marked(t)')
  <2>1. LoggedIn(t)' /\ cred'[t] = thr[p].adm
    BY <1>2, <1>6 DEF Mine
  <2>2. Blind(t)' = Blind(t) /\ Blind(s)' = Blind(s)
    BY DEF Blind
  <2> HIDE DEF Blind
  <2> QED BY <1>4, <2>1, <2>2 DEF Mine, Marked
<1>7. ASSUME NEW p \in Login PROVE ScanOK(p)' /\ KickOK(p)' /\ CreateOK(p)'
  <2>1. ScanOK(p) /\ KickOK(p) /\ CreateOK(p)
    BY DEF SInv
  <2>2. ScanOK(p)'
    BY <1>1, <1>2, <1>6, <2>1 DEF ScanOK
  <2>3. KickOK(p)'
    BY <1>2, <1>6, <2>1 DEF KickOK
  <2>4. CreateOK(p)'
    BY <1>2, <1>6, <2>1 DEF CreateOK
  <2> QED BY <2>2, <2>3, <2>4
<1> QED BY <1>5, <1>7 DEF SInv

LEMMA NextSolo ==
    ASSUME OneAtATime, IInv, SInv, [Next]_vars
    PROVE  SInv'
<1>1. CASE User
  <2>1. UserCalm \/ \E s \in Session, a \in Admin \cup {Nobody} : StoreCredential(s, a)
    BY <1>1 DEF User, UserCalm
  <2> QED BY <2>1, OthersAreCalm, OtherSolo, StoreCredentialSolo
<1>4. CASE Sweep \/ UNCHANGED vars
  BY <1>4, OthersAreCalm, OtherSolo
<1>2. CASE Begin
  BY <1>2, StartSolo DEF Begin
<1>3. CASE \E p \in Login : Step(p) \/ KickFails(p)
  BY <1>3, ScanSolo, ResolveSolo, KickStepSolo, KickOutSolo, CreateSolo, EnteringSolo DEF Step
<1> QED BY <1>1, <1>2, <1>3, <1>4 DEF Next

(* While logins come one at a time under the policies "A" and "B", an         *)
(* operator has a single session whatever the periodic pass, users, the       *)
(* container and failing audit rows do in between, unless isExistId was cut   *)
(* short, the page of the mail code let one in, or an accident took an entry  *)
(* off the list.  (setLoginEnv, statusUpdate.)                               *)
THEOREM OneSessionPerOperator ==
    ASSUME OneAtATime
    PROVE  Spec => []OneUnlessBlind
<1>1. Init => SInv
  <2>1. SUFFICES ASSUME Init PROVE SInv
    OBVIOUS
  <2>2. OneUnlessBlind
    BY <2>1 DEF Init, OneUnlessBlind, LoggedIn
  <2>3. \A p \in Login : thr[p].pc = "idle"
    BY <2>1 DEF Init, IdleThr
  <2> QED BY <2>2, <2>3 DEF SInv, ScanOK, KickOK, CreateOK, Kicks
<1>2. IInv /\ SInv /\ [Next]_vars => SInv'
  BY NextSolo
<1>3. SInv => OneUnlessBlind
  BY DEF SInv
<1> QED BY <1>1, <1>2, <1>3, Invariant, PTL DEF Spec
=============================================================================
