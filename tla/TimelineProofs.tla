---------------------------- MODULE TimelineProofs ----------------------------
(* Proofs about Timeline, for any rooms and lengths, any size of a page and *)
(* of the pane, and any number of requests in flight.                       *)
EXTENDS Timeline, SequenceTheorems, FiniteSetTheorems, TLAPS

PageRec == [room : Rooms, lo : Nat, hi : Nat, lead : {"div", "date", "msg"}]

(* A page holds messages, of its room. *)
Sound(p) == p \in PageRec /\ 1 <= p.lo /\ p.lo <= p.hi /\ p.hi <= Length[p.room]

Live(op) == {q \in reqs : q.op = op /\ ~q.stray}
Some(op) == \E q \in reqs : q.op = op

-----------------------------------------------------------------------------
(* The inductive invariant. *)

(* What is asked as the pane stands is asked for its room. *)
ReqsOK ==
    /\ reqs \subseteq Requests /\ IsFiniteSet(reqs) /\ Cardinality(reqs) <= MaxInFlight
    /\ \A q \in reqs : q.room \in Rooms /\ (~q.stray => q.room = room)

PagesOK ==
    /\ pages \in Seq(PageRec) /\ Len(pages) <= ViewPages
    /\ \A i \in 1..Len(pages) : Sound(pages[i])
    /\ pages # <<>> /\ Top.lead = "msg" => Top.lo < Top.hi

RestOK ==
    /\ room \in Rooms \/ (room = NoRoom /\ reqs = {} /\ texts = {"select"} /\ ~nextShown /\ ~prevShown)
    /\ texts \subseteq Texts
    /\ nextShown \in BOOLEAN /\ prevShown \in BOOLEAN /\ readDrawn \in BOOLEAN
    /\ masks \subseteq {"list", "panel"}
    /\ drawn \in [detail : BOOLEAN, prev : BOOLEAN]
    /\ past \subseteq Mishaps

(* A handler that threw is the only one to leave a set unread on the pane. *)
Drawn == "thrown" \in past \/ (drawn.detail /\ drawn.prev /\ readDrawn)

(* Another room's pages are on the pane only until its users are answered. *)
Opening == Unless({"stray", "unopened"},
                  (\A i \in 1..Len(pages) : pages[i].room = room) \/ Some("users"))

(* One request for a next page at a time, counted from the last message, unless *)
(* that page was dropped meanwhile; the same for previous pages.            *)
NextAsked ==
    \A q \in Live("next") :
        /\ pages # <<>> /\ q.room = Top.room /\ ~nextShown
        /\ q.at = LastMessage \/ {"crossed", "cut"} \subseteq past
        /\ \A t \in Live("next") : t = q

PrevAsked ==
    \A q \in Live("prev") :
        /\ pages # <<>> /\ q.room = Top.room /\ ~prevShown
        /\ q.at = FirstMessage \/ {"crossed", "headless"} \subseteq past
        /\ \A t \in Live("prev") : t = q

Headed == "headless" \in past \/ (pages # <<>> => Top.lead # "date")

Joined == Unless({"crossed", "eaten"},
                 \A i \in 1..Len(pages) - 1 : pages[i + 1].lo = pages[i].hi + 1)

NewestOK == pages # <<>> => Unless({"cut", "thrown", "failed"},
                nextShown \/ Bottom.hi = Length[Bottom.room] \/ Some("next"))

OldestOK == pages # <<>> => Unless({"headless", "thrown", "failed"},
                Top.lo = 1 \/ (prevShown /\ FirstMessage = Top.lo) \/ Some("prev"))

NoNextOK == pages # <<>> /\ "noNext" \in texts =>
                Unless({"cut"}, Bottom.hi = Length[Bottom.room] /\ ~nextShown)

NoPrevOK == pages # <<>> /\ "noPrev" \in texts => Unless({"headless"}, Top.lo = 1)

SameRoom == \A i \in 1..Len(pages) : pages[i].room = Top.room

PaneOK ==
    /\ SameRoom /\ NextAsked /\ PrevAsked /\ Headed /\ Joined
    /\ NewestOK /\ OldestOK /\ NoNextOK /\ NoPrevOK

(* Until an answer that was overtaken has come onto it. *)
Pane == "stray" \in past \/ PaneOK

IInv == ReqsOK /\ PagesOK /\ RestOK /\ MasksHaveOwners /\ Drawn /\ Opening /\ Pane

-----------------------------------------------------------------------------
(* Constants and queries. *)
LEMMA Sizes ==
    /\ NoRoom \notin Rooms /\ \A r \in Rooms : Length[r] \in Nat
    /\ DayLength \in Nat /\ Limit \in Nat /\ Limit # 0 /\ MaxInFlight \in Nat
    /\ ViewPages \in Nat /\ ViewPages >= 2
<1>1. ViewPages \in Nat /\ ViewPages # 0 /\ ViewPages # 1
  BY TimelineAssumption
<1> QED BY <1>1, TimelineAssumption

(* A group that a query answers for a room. *)
GroupOf(r, g) == g.lo \in Nat /\ g.hi \in Int /\ 1 <= g.lo /\ g.hi <= Length[r]

LEMMA NewestIs == ASSUME NEW r \in Rooms PROVE GroupOf(r, Newest(r))
<1>1. Length[r] \in Nat /\ Limit \in Nat
  BY Sizes
<1> QED BY <1>1 DEF GroupOf, Newest

LEMMA FromIs == ASSUME NEW r \in Rooms, NEW n \in Nat, n # 0 PROVE GroupOf(r, From(r, n))
<1>1. Length[r] \in Nat /\ Limit \in Nat
  BY Sizes
<1> QED BY <1>1 DEF GroupOf, From, Lesser

LEMMA AfterIs ==
    ASSUME NEW r \in Rooms, NEW n \in Nat
    PROVE  /\ GroupOf(r, After(r, n)) /\ After(r, n).lo = n + 1
           /\ ~IsFull(After(r, n)) /\ ~IsEmpty(After(r, n)) => After(r, n).hi = Length[r]
           /\ IsEmpty(After(r, n)) => Length[r] <= n
<1>1. Length[r] \in Nat /\ Limit \in Nat /\ Limit # 0
  BY Sizes
<1>2. After(r, n).lo = n + 1 /\ After(r, n).hi = Lesser((n + 1) + Limit - 1, Length[r])
  BY DEF After, From
<1>3. n + 1 \in Nat /\ n + 1 # 0
  OBVIOUS
<1> QED BY <1>1, <1>2, <1>3, FromIs DEF After, IsFull, IsEmpty, Lesser

LEMMA BeforeIs ==
    ASSUME NEW r \in Rooms, NEW n \in Nat, n # 0
    PROVE  /\ GroupOf(r, Before(r, n))
           /\ n <= Length[r] => Before(r, n).hi = n - 1
           /\ ~IsFull(Before(r, n)) /\ n <= Length[r] => Before(r, n).lo = 1
           /\ IsEmpty(Before(r, n)) /\ n <= Length[r] => n = 1
<1>1. Length[r] \in Nat /\ Limit \in Nat /\ Limit # 0
  BY Sizes
<1>2. /\ Before(r, n).lo = IF n > Limit THEN n - Limit ELSE 1
      /\ Before(r, n).hi = Lesser(n - 1, Length[r])
  BY DEF Before
<1> QED BY <1>1, <1>2 DEF GroupOf, IsFull, IsEmpty, Lesser

LEMMA LeadIs ==
    ASSUME NEW g
    PROVE  LeadOfList2(g) \in {"div", "msg"} /\ (LeadOfList2(g) = "msg" => g.lo # g.hi)
BY DEF LeadOfList2

LEMMA PageIs ==
    ASSUME NEW r \in Rooms, NEW g, GroupOf(r, g), ~IsEmpty(g), NEW l \in {"div", "msg"}
    PROVE  /\ Sound(Page(r, g, l)) /\ Page(r, g, l).room = r /\ Page(r, g, l).lead = l
           /\ Page(r, g, l).lo = g.lo /\ Page(r, g, l).hi = g.hi
<1>1. Length[r] \in Nat
  BY Sizes
<1>2. g.hi \in Nat /\ g.lo <= g.hi
  BY DEF GroupOf, IsEmpty
<1> QED BY <1>1, <1>2 DEF Page, Sound, PageRec, GroupOf

-----------------------------------------------------------------------------
(* The history. *)
LEMMA NotedIs ==
    ASSUME past \subseteq Mishaps, NEW M \in SUBSET Mishaps
    PROVE  /\ Noted(M) \subseteq Mishaps
           /\ "stray" \in past \cup M => "stray" \in Noted(M)
           /\ "stray" \notin Noted(M) => "stray" \notin past \cup M /\ Noted(M) = past \cup M
           /\ "thrown" \in past \cup M => "thrown" \in Noted(M)
           /\ "unopened" \in past => "unopened" \in Noted(M)
BY DEF Noted

-----------------------------------------------------------------------------
(* Requests. *)

(* T is S with more of it astray. *)
Tame(S, T) ==
    /\ T \subseteq Requests /\ IsFiniteSet(T) /\ Cardinality(T) <= Cardinality(S)
    /\ \A t \in T : ~t.stray => t \in S
    /\ \A t \in T : \E s \in S : s.op = t.op /\ s.room = t.room
    /\ \A s \in S : \E t \in T : t.op = s.op

LEMMA StrayIs ==
    ASSUME NEW q \in Requests, NEW b \in BOOLEAN
    PROVE  [q EXCEPT !.stray = b] = [op |-> q.op, room |-> q.room, at |-> q.at, stray |-> b]
<1>1. q = [op |-> q.op, room |-> q.room, at |-> q.at, stray |-> q.stray]
  BY DEF Requests
<1>2. ASSUME NEW t, t = [q EXCEPT !.stray = b]
      PROVE  t = [op |-> q.op, room |-> q.room, at |-> q.at, stray |-> b]
  BY <1>1, <1>2
<1> QED BY <1>2, Zenon

LEMMA TameSame == ASSUME NEW S \in SUBSET Requests, IsFiniteSet(S) PROVE Tame(S, S)
<1>1. Cardinality(S) \in Nat
  BY FS_CardinalityType
<1> QED BY <1>1 DEF Tame

(* Marking some of a set astray. *)
LEMMA Marked ==
    ASSUME NEW S \in SUBSET Requests, IsFiniteSet(S), NEW f, NEW T,
           f = [q \in S |-> [op |-> q.op, room |-> q.room, at |-> q.at,
                             stray |-> f[q].stray]],
           \A q \in S : f[q].stray \in BOOLEAN /\ (q.stray => f[q].stray),
           T = {f[q] : q \in S}
    PROVE  Tame(S, T)
<1>1. \A q \in S : /\ f[q] = [op |-> q.op, room |-> q.room, at |-> q.at, stray |-> f[q].stray]
                   /\ f[q] \in T
  <2>1. \A q \in S : f[q] = [op |-> q.op, room |-> q.room, at |-> q.at, stray |-> f[q].stray]
    BY Zenon
  <2> QED BY <2>1
<1>2. ASSUME NEW q \in S
      PROVE  /\ f[q] \in Requests /\ f[q].op = q.op /\ f[q].room = q.room
             /\ ~f[q].stray => f[q] = q
  <2>1. q \in Requests
    OBVIOUS
  <2>2. q = [op |-> q.op, room |-> q.room, at |-> q.at, stray |-> q.stray]
    BY <2>1 DEF Requests
  <2>3. f[q] = [op |-> q.op, room |-> q.room, at |-> q.at, stray |-> f[q].stray]
    BY <1>1
  <2>4. f[q] \in Requests
    BY <2>1, <2>3 DEF Requests
  <2>5. q.stray \in BOOLEAN /\ f[q].stray \in BOOLEAN
    BY <2>1 DEF Requests
  <2>6. ~f[q].stray => q.stray = f[q].stray
    BY <2>5
  <2>7. ~f[q].stray => f[q] = q
    BY <2>2, <2>3, <2>6, Zenon
  <2> QED BY <2>3, <2>4, <2>7
<1>3. IsFiniteSet(T) /\ Cardinality(T) <= Cardinality(S)
  <2>1. f \in Surjection(S, T)
    <3>1. f = [q \in S |-> f[q]]
      BY Zenon
    <3> QED BY <1>1, <3>1 DEF Surjection
  <2> QED BY <2>1, FS_Surjection
<1> QED BY <1>1, <1>2, <1>3 DEF Tame

LEMMA OvertakenIs ==
    ASSUME NEW S \in SUBSET Requests, IsFiniteSet(S)
    PROVE  /\ Tame(S, Overtaken(S))
           /\ \A t \in Overtaken(S) : ~t.stray => t.op \notin {"next", "prev"}
<1> DEFINE f == [q \in S |-> [q EXCEPT !.stray = q.stray \/ q.op \in {"next", "prev"}]]
<1>1. ASSUME NEW q \in S
      PROVE  /\ f[q] = [op |-> q.op, room |-> q.room, at |-> q.at,
                        stray |-> q.stray \/ q.op \in {"next", "prev"}]
             /\ (q.stray \/ q.op \in {"next", "prev"}) \in BOOLEAN
  <2>1. (q.stray \/ q.op \in {"next", "prev"}) \in BOOLEAN
    OBVIOUS
  <2>2. q \in Requests
    OBVIOUS
  <2>3. f[q] = [q EXCEPT !.stray = q.stray \/ q.op \in {"next", "prev"}]
    OBVIOUS
  <2> QED BY <2>1, <2>2, <2>3, StrayIs, Zenon
<1>2. Overtaken(S) = {f[q] : q \in S}
  BY DEF Overtaken
<1>3. f = [q \in S |-> f[q]]
  OBVIOUS
<1> HIDE DEF f
<1>4. ASSUME NEW q \in S
      PROVE  /\ f[q].stray = (q.stray \/ q.op \in {"next", "prev"}) /\ f[q].op = q.op
             /\ f[q] = [op |-> q.op, room |-> q.room, at |-> q.at, stray |-> f[q].stray]
  <2>1. f[q] = [op |-> q.op, room |-> q.room, at |-> q.at,
                stray |-> q.stray \/ q.op \in {"next", "prev"}]
    BY <1>1
  <2>2. ASSUME NEW b, b = (q.stray \/ q.op \in {"next", "prev"})
        PROVE  f[q].stray = b /\ f[q].op = q.op
    <3>1. f[q] = [op |-> q.op, room |-> q.room, at |-> q.at, stray |-> b]
      BY <2>1, <2>2, Zenon
    <3> QED BY <3>1
  <2>3. f[q].stray = (q.stray \/ q.op \in {"next", "prev"}) /\ f[q].op = q.op
    BY <2>2, Zenon
  <2> QED BY <2>1, <2>3, Zenon
<1>5. f = [q \in S |-> [op |-> q.op, room |-> q.room, at |-> q.at, stray |-> f[q].stray]]
  BY <1>3, <1>4, Zenon
<1>6. \A q \in S : f[q].stray \in BOOLEAN /\ (q.stray => f[q].stray)
  BY <1>1, <1>4, Zenon
<1>7. Tame(S, Overtaken(S))
  BY <1>2, <1>5, <1>6, Marked
<1>8. \A q \in S : ~f[q].stray => f[q].op \notin {"next", "prev"}
  BY <1>4, Zenon
<1> QED BY <1>2, <1>7, <1>8

(* ClickPerson: the room r is named, and s was. *)
Strayed(S, r, s) == {[q EXCEPT !.stray = @ \/ r # s] : q \in S}

LEMMA StrayedIs ==
    ASSUME NEW S \in SUBSET Requests, IsFiniteSet(S), NEW r, NEW s
    PROVE  Tame(S, Strayed(S, r, s)) /\ (r # s => \A t \in Strayed(S, r, s) : t.stray)
<1> DEFINE f == [q \in S |-> [q EXCEPT !.stray = q.stray \/ r # s]]
<1>1. ASSUME NEW q \in S
      PROVE  /\ f[q] = [op |-> q.op, room |-> q.room, at |-> q.at, stray |-> q.stray \/ r # s]
             /\ (q.stray \/ r # s) \in BOOLEAN
  <2>1. (q.stray \/ r # s) \in BOOLEAN
    OBVIOUS
  <2>2. q \in Requests
    OBVIOUS
  <2>3. f[q] = [q EXCEPT !.stray = q.stray \/ r # s]
    OBVIOUS
  <2> QED BY <2>1, <2>2, <2>3, StrayIs, Zenon
<1>2. Strayed(S, r, s) = {f[q] : q \in S}
  BY DEF Strayed
<1>3. f = [q \in S |-> f[q]]
  OBVIOUS
<1> HIDE DEF f
<1>4. ASSUME NEW q \in S
      PROVE  /\ f[q].stray = (q.stray \/ r # s)
             /\ f[q] = [op |-> q.op, room |-> q.room, at |-> q.at, stray |-> f[q].stray]
  <2>1. f[q] = [op |-> q.op, room |-> q.room, at |-> q.at, stray |-> q.stray \/ r # s]
    BY <1>1
  <2>2. ASSUME NEW b, b = (q.stray \/ r # s)
        PROVE  f[q].stray = b
    <3>1. f[q] = [op |-> q.op, room |-> q.room, at |-> q.at, stray |-> b]
      BY <2>1, <2>2, Zenon
    <3> QED BY <3>1
  <2>3. f[q].stray = (q.stray \/ r # s)
    BY <2>2, Zenon
  <2> QED BY <2>1, <2>3, Zenon
<1>5. f = [q \in S |-> [op |-> q.op, room |-> q.room, at |-> q.at, stray |-> f[q].stray]]
  BY <1>3, <1>4, Zenon
<1>6. \A q \in S : f[q].stray \in BOOLEAN /\ (q.stray => f[q].stray)
  BY <1>1, <1>4, Zenon
<1>7. Tame(S, Strayed(S, r, s))
  BY <1>2, <1>5, <1>6, Marked
<1>8. \A q \in S : r # s => f[q].stray
  BY <1>4, Zenon
<1> QED BY <1>2, <1>7, <1>8

LEMMA OneGone ==
    ASSUME ReqsOK, NEW q \in reqs
    PROVE  /\ reqs \ {q} \subseteq Requests /\ IsFiniteSet(reqs \ {q})
           /\ Cardinality(reqs \ {q}) < MaxInFlight
<1>1. IsFiniteSet(reqs) /\ Cardinality(reqs) \in Nat /\ Cardinality(reqs) <= MaxInFlight
  BY FS_CardinalityType DEF ReqsOK
<1>2. IsFiniteSet(reqs \ {q}) /\ Cardinality(reqs \ {q}) = Cardinality(reqs) - 1
  BY <1>1, FS_RemoveElement
<1>3. MaxInFlight \in Nat
  BY Sizes
<1> QED BY <1>1, <1>2, <1>3 DEF ReqsOK

(* A tame set with room for one more, and one more. *)
LEMMA SendIs ==
    ASSUME NEW S \in SUBSET Requests, IsFiniteSet(S), Cardinality(S) < MaxInFlight,
           NEW T, Tame(S, T), NEW op \in Ops, NEW r \in Rooms, NEW n \in Nat, NEW b \in BOOLEAN
    PROVE  /\ Send(T, op, r, n, b) \subseteq Requests /\ IsFiniteSet(Send(T, op, r, n, b))
           /\ Cardinality(Send(T, op, r, n, b)) <= MaxInFlight
<1> DEFINE new == [op |-> op, room |-> r, at |-> n, stray |-> b]
<1>1. new \in Requests
  BY DEF Requests
<1>2. T \subseteq Requests /\ IsFiniteSet(T) /\ Cardinality(T) <= Cardinality(S)
  BY DEF Tame
<1>3. Cardinality(S) \in Nat /\ Cardinality(T) \in Nat /\ MaxInFlight \in Nat
  BY <1>2, FS_CardinalityType, Sizes
<1>4. Send(T, op, r, n, b) = T \cup {new}
  BY DEF Send
<1> HIDE DEF new
<1>5. IsFiniteSet(T \cup {new}) /\ Cardinality(T \cup {new}) <= Cardinality(T) + 1
  <2>1. IsFiniteSet(T \cup {new})
        /\ Cardinality(T \cup {new}) = IF new \in T THEN Cardinality(T) ELSE Cardinality(T) + 1
    BY <1>2, FS_AddElement
  <2> QED BY <2>1, <1>3
<1>6. Cardinality(T \cup {new}) <= MaxInFlight
  <2>1. Cardinality(T \cup {new}) \in Nat
    BY <1>5, FS_CardinalityType
  <2> QED BY <2>1, <1>2, <1>3, <1>5
<1> QED BY <1>1, <1>2, <1>4, <1>5, <1>6

LEMMA SendHas ==
    ASSUME NEW T, NEW op, NEW r, NEW n, NEW b
    PROVE  /\ T \subseteq Send(T, op, r, n, b)
           /\ \A q \in Send(T, op, r, n, b) :
                q \in T \/ (q.op = op /\ q.room = r /\ q.at = n /\ q.stray = b)
           /\ \E q \in Send(T, op, r, n, b) : q.op = op /\ q.stray = b
<1> DEFINE new == [op |-> op, room |-> r, at |-> n, stray |-> b]
<1>1. new.op = op /\ new.room = r /\ new.at = n /\ new.stray = b
  OBVIOUS
<1>2. Send(T, op, r, n, b) = T \cup {new}
  BY DEF Send
<1> HIDE DEF new
<1> QED BY <1>1, <1>2, Zenon

LEMMA SendTo ==
    ASSUME NEW T, NEW op, NEW r, NEW n, NEW b
    PROVE  \A q \in Send(T, op, r, n, b) : q \in T \/ (q.op = op /\ q.room = r /\ q.at = n)
BY SendHas

LEMMA EndsAre ==
    ASSUME PagesOK
    PROVE  /\ FirstMessage \in Nat /\ LastMessage \in Nat
           /\ pages # <<>> =>
                             /\ Sound(Top) /\ Sound(Bottom) /\ LastMessage = Bottom.hi
                             /\ LastMessage # 0 /\ Len(pages) \in Nat /\ Len(pages) >= 1
                             /\ (Top.lead # "date") => (FirstMessage = Top.lo /\ FirstMessage # 0)
                             /\ (Top.lead = "date") => (FirstMessage = 0)
<1>1. CASE pages = <<>>
  BY <1>1 DEF FirstMessage, LastMessage
<1>2. CASE pages # <<>>
  <2>1. Len(pages) \in Nat /\ Len(pages) >= 1
    BY <1>2 DEF PagesOK
  <2>2. Sound(Top) /\ Sound(Bottom)
    BY <2>1 DEF PagesOK, Top, Bottom
  <2>3. Top.lo \in Nat /\ Top.lo # 0 /\ Bottom.hi \in Nat /\ Bottom.hi # 0
    BY <2>2 DEF Sound, PageRec
  <2> QED BY <1>2, <2>1, <2>2, <2>3 DEF FirstMessage, LastMessage
<1> QED BY <1>1, <1>2

-----------------------------------------------------------------------------
(* The requests. *)

(* What an action leaves in flight, after it has cleared the pane or not. *)
LEMMA Kept ==
    ASSUME ReqsOK, NEW S, S \subseteq reqs, NEW T, Tame(S, T)
    PROVE  /\ \A q \in T : q.room \in Rooms /\ (~q.stray => q.room = room)
           /\ T \subseteq Requests /\ IsFiniteSet(T) /\ Cardinality(T) <= MaxInFlight
<1>1. IsFiniteSet(reqs) /\ Cardinality(reqs) <= MaxInFlight
  BY DEF ReqsOK
<1>2. IsFiniteSet(S) /\ Cardinality(S) <= Cardinality(reqs)
  BY <1>1, FS_Subset
<1>3. IsFiniteSet(T) /\ Cardinality(T) <= Cardinality(S) /\ T \subseteq Requests
  BY DEF Tame
<1>4. /\ Cardinality(reqs) \in Nat /\ Cardinality(S) \in Nat /\ Cardinality(T) \in Nat
      /\ MaxInFlight \in Nat
  BY <1>1, <1>2, <1>3, FS_CardinalityType, Sizes
<1> QED BY <1>1, <1>2, <1>3, <1>4 DEF ReqsOK, Tame

LEMMA SentOK ==
    ASSUME ReqsOK, NEW S, S \subseteq reqs, Cardinality(S) < MaxInFlight,
           NEW T, Tame(S, T), NEW op \in Ops, NEW r \in Rooms, NEW n \in Nat, NEW b \in BOOLEAN,
           ~b => r = room,
           reqs' = Send(T, op, r, n, b), room' = room
    PROVE  ReqsOK'
<1>1. S \subseteq Requests /\ IsFiniteSet(S)
  <2>1. IsFiniteSet(reqs) /\ reqs \subseteq Requests
    BY DEF ReqsOK
  <2> QED BY <2>1, FS_Subset
<1>2. reqs' \subseteq Requests /\ IsFiniteSet(reqs') /\ Cardinality(reqs') <= MaxInFlight
  BY <1>1, SendIs
<1>3. ASSUME NEW q \in reqs' PROVE q.room \in Rooms /\ (~q.stray => q.room = room)
  <2>1. q \in T \/ (q.op = op /\ q.room = r /\ q.at = n /\ q.stray = b)
    BY SendHas
  <2> QED BY <2>1, Kept
<1> QED BY <1>2, <1>3 DEF ReqsOK

LEMMA LeftOK ==
    ASSUME ReqsOK, NEW S, S \subseteq reqs, NEW T, Tame(S, T), reqs' = T, room' = room
    PROVE  ReqsOK'
BY Kept DEF ReqsOK

LEMMA ReqsFinite ==
    ASSUME ReqsOK, NEW S, S \subseteq reqs
    PROVE  S \in SUBSET Requests /\ IsFiniteSet(S) /\ Tame(S, S) /\ Tame(S, Overtaken(S))
<1>1. IsFiniteSet(reqs) /\ reqs \subseteq Requests
  BY DEF ReqsOK
<1>2. IsFiniteSet(S)
  BY <1>1, FS_Subset
<1> QED BY <1>1, <1>2, TameSame, OvertakenIs

LEMMA OpenRoomReqs ==
    ASSUME ReqsOK, room \in Rooms, NEW S, S \subseteq reqs, Cardinality(S) < MaxInFlight,
           OpenRoom(S), room' = room
    PROVE  ReqsOK'
<1>1. reqs' = Send(Overtaken(S), "total", room, 0, FALSE)
  BY DEF OpenRoom
<1>2. "total" \in Ops /\ 0 \in Nat /\ FALSE \in BOOLEAN /\ Tame(S, Overtaken(S))
  BY ReqsFinite DEF Ops
<1> QED BY <1>1, <1>2, SentOK

LEMMA ReqsStep == ASSUME ReqsOK, PagesOK, RestOK, Next PROVE ReqsOK'
<1> USE DEF Ops
<1>0. Tame(reqs, reqs) /\ 0 \in Nat /\ FALSE \in BOOLEAN
  BY ReqsFinite
<1>r. ASSUME NEW q \in reqs PROVE room \in Rooms
  BY <1>r DEF RestOK
<1>1. ASSUME NEW r \in Rooms, ClickPerson(r) PROVE ReqsOK'
  <2> DEFINE T == Strayed(reqs, r, room)
  <2>2. reqs' = Send(T, "users", r, 0, FALSE) /\ room' = r /\ Cardinality(reqs) < MaxInFlight
    BY <1>1 DEF ClickPerson, Strayed
  <2>1. Tame(reqs, T) /\ (r # room => \A t \in T : t.stray)
    BY StrayedIs, ReqsFinite
  <2> HIDE DEF T
  <2>3. reqs' \subseteq Requests /\ IsFiniteSet(reqs') /\ Cardinality(reqs') <= MaxInFlight
    BY <2>1, <2>2, <1>0, SendIs, ReqsFinite
  <2>4. ASSUME NEW q \in reqs' PROVE q.room \in Rooms /\ (~q.stray => q.room = r)
    <3>1. q \in Send(T, "users", r, 0, FALSE)
      BY <2>2
    <3>2. \A b : \A p \in Send(T, "users", r, 0, b) : p \in T \/ p.room = r
      BY SendTo
    <3>3. q \in T \/ q.room = r
      BY <3>1, <3>2, Zenon
    <3> QED BY <3>3, <2>1, Kept
  <2> QED BY <2>2, <2>3, <2>4 DEF ReqsOK
<1>2. CASE ClickSelectUser
  <2>1. room \in Rooms
    BY <1>2 DEF ClickSelectUser, RestOK
  <2> QED BY <1>2, <2>1, OpenRoomReqs DEF ClickSelectUser
<1>3. CASE ClickNext
  <2>1. room \in Rooms /\ LastMessage \in Nat /\ Astray \in BOOLEAN
    BY <1>3, EndsAre DEF ClickNext, RestOK, Astray
  <2>2. ~Astray => room = room
    OBVIOUS
  <2>3. reqs' = Send(reqs, "next", room, LastMessage, Astray) /\ room' = room
        /\ Cardinality(reqs) < MaxInFlight
    BY <1>3 DEF ClickNext
  <2>4. "next" \in Ops
    OBVIOUS
  <2> QED BY <2>1, <2>2, <2>3, <2>4, <1>0, SentOK
<1>4. CASE ClickPrev
  <2>1. room \in Rooms /\ FirstMessage \in Nat /\ Astray \in BOOLEAN
    BY <1>4, EndsAre DEF ClickPrev, RestOK, Astray
  <2>3. reqs' = Send(reqs, "prev", room, FirstMessage, Astray) /\ room' = room
        /\ Cardinality(reqs) < MaxInFlight
    BY <1>4 DEF ClickPrev
  <2>4. "prev" \in Ops
    OBVIOUS
  <2> QED BY <2>1, <2>3, <2>4, <1>0, SentOK
<1>5. CASE FindMessageList
  <2>1. room \in Rooms
    BY <1>5 DEF FindMessageList, RestOK
  <2>3. reqs' = Send(reqs, "find", room, 0, FALSE) /\ room' = room
        /\ Cardinality(reqs) < MaxInFlight
    BY <1>5 DEF FindMessageList
  <2>4. "find" \in Ops
    OBVIOUS
  <2> QED BY <2>1, <2>3, <2>4, <1>0, SentOK
<1>6. ASSUME NEW q \in reqs, Answer(q) PROVE ReqsOK'
  <2> DEFINE S == reqs \ {q}
  <2>1. S \subseteq reqs /\ Cardinality(S) < MaxInFlight /\ Tame(S, S) /\ Tame(S, Overtaken(S))
    BY OneGone, ReqsFinite
  <2>2. reqs' = S /\ room' = room => ReqsOK'
    BY <2>1, LeftOK
  <2>3. reqs' = Overtaken(S) /\ room' = room => ReqsOK'
    BY <2>1, LeftOK
  <2>4. q.room \in Rooms /\ (~q.stray => q.room = room) /\ q.stray \in BOOLEAN /\ room \in Rooms
    BY <1>r DEF ReqsOK, Requests
  <2>5. ASSUME UsersAnswer(q) PROVE ReqsOK'
    <3>1. room' = room /\ (OpenRoom(S) \/ reqs' = S)
      BY <2>5 DEF UsersAnswer
    <3> QED BY <3>1, <2>1, <2>2, <2>4, OpenRoomReqs
  <2>6. ASSUME TotalAnswer(q) PROVE ReqsOK'
    <3>1. room' = room /\ (reqs' = Send(Overtaken(S), "open", q.room, 0, q.stray) \/ reqs' = S)
      BY <2>6 DEF TotalAnswer
    <3>2. "open" \in Ops
      OBVIOUS
    <3>3. CASE reqs' = Send(Overtaken(S), "open", q.room, 0, q.stray)
      BY <3>1, <3>2, <3>3, <2>1, <2>4, <1>0, SentOK
    <3> QED BY <3>1, <3>3, <2>2
  <2>7. ASSUME OpenAnswer(q) PROVE ReqsOK'
    <3>1. room' = room /\ (reqs' = Overtaken(S) \/ reqs' = S)
      BY <2>7 DEF OpenAnswer
    <3> QED BY <3>1, <2>2, <2>3
  <2>8. ASSUME NextAnswer(q) \/ PrevAnswer(q) PROVE ReqsOK'
    BY <2>8, <2>2 DEF NextAnswer, PrevAnswer
  <2>9. ASSUME FindAnswer(q) PROVE ReqsOK'
    <3> DEFINE M == Length[room] + (IF q.room = room THEN 0 ELSE 1)
    <3>1. room' = room /\ ((\E n \in 1..M : reqs' = Send(Overtaken(S), "open", room, n, FALSE)) \/ reqs' = S)
      BY <2>9 DEF FindAnswer
    <3>2. CASE reqs' = S
      BY <3>1, <3>2, <2>2
    <3>3. CASE \E n \in 1..M : reqs' = Send(Overtaken(S), "open", room, n, FALSE)
      <4>1. PICK n \in 1..M : reqs' = Send(Overtaken(S), "open", room, n, FALSE)
        BY <3>3
      <4>2. M \in Int
        BY <2>4, Sizes
      <4>3. n \in Nat /\ "open" \in Ops
        BY <4>2
      <4> QED BY <3>1, <4>1, <4>3, <2>1, <2>4, <1>0, SentOK
    <3> QED BY <3>1, <3>2, <3>3
  <2> QED BY <1>6, <2>5, <2>6, <2>7, <2>8, <2>9 DEF Answer
<1> QED BY <1>1, <1>2, <1>3, <1>4, <1>5, <1>6 DEF Next

-----------------------------------------------------------------------------
(* A page arrives. *)

(* The page that is first once a full pane has lost one, and the one it has *)
(* when a previous page comes.                                              *)
Cut(s) == IF Full THEN s ELSE pages
TailThrows == Full /\ Cut(Tail(pages))[1].lead = "div"
FrontThrows == Cut(Front(pages)) # <<>> => Cut(Front(pages))[1].lead = "date"

LEMMA AppendPast ==
    ASSUME past \subseteq Mishaps, NEW q \in reqs, NEW g, AppendPage(q, g)
    PROVE  \E M \in SUBSET Mishaps :
              /\ past' = Noted(M)
              /\ q.stray => "stray" \in M
              /\ TailThrows => "thrown" \in M
              /\ Full => "headless" \in M /\ (Live("prev") # {} => "crossed" \in M)
<1> DEFINE M == OneIf("stray", q.stray) \union OneIf("thrown", TailThrows)
                  \union (IF Full THEN {"headless"} \union Crossed("prev") ELSE {})
<1>1. past' = Noted(M)
  BY Zenon DEF AppendPage, TailThrows, Cut
<1>2. M \in SUBSET Mishaps
  BY DEF OneIf, Crossed, Mishaps
<1>3. (q.stray => "stray" \in M) /\ (TailThrows => "thrown" \in M)
  BY DEF OneIf
<1>4. Full => "headless" \in M
  OBVIOUS
<1>5. Full /\ Live("prev") # {} => "crossed" \in M
  <2>1. Live("prev") # {} => "crossed" \in Crossed("prev")
    BY Zenon DEF Live, Crossed, OneIf
  <2> QED BY <2>1
<1> HIDE DEF M
<1> QED BY <1>1, <1>2, <1>3, <1>4, <1>5

LEMMA PrependPast ==
    ASSUME past \subseteq Mishaps, NEW q \in reqs, NEW g, PrependPage(q, g)
    PROVE  \E M \in SUBSET Mishaps :
              /\ past' = Noted(M)
              /\ q.stray => "stray" \in M
              /\ FrontThrows => "thrown" \in M
              /\ /\ ~FrontThrows /\ Day(g.hi) = Day(Cut(Front(pages))[1].lo)
                 /\ Cut(Front(pages))[1].lead = "msg"
                 => "eaten" \in M
              /\ Full /\ ~nextShown => "cut" \in M
              /\ Full /\ Live("next") # {} => "crossed" \in M
<1> DEFINE e == /\ ~FrontThrows /\ Day(g.hi) = Day(Cut(Front(pages))[1].lo)
                /\ Cut(Front(pages))[1].lead = "msg"
           M == OneIf("stray", q.stray) \union OneIf("thrown", FrontThrows)
                  \union OneIf("eaten", e) \union OneIf("cut", Full /\ ~nextShown)
                  \union (IF Full THEN Crossed("next") ELSE {})
<1>1. past' = Noted(M)
  BY Zenon DEF PrependPage, FrontThrows, Cut
<1>2. M \in SUBSET Mishaps
  BY DEF OneIf, Crossed, Mishaps
<1>3. (q.stray => "stray" \in M) /\ (FrontThrows => "thrown" \in M)
  BY DEF OneIf
<1>4. e => "eaten" \in M
  BY DEF OneIf
<1>5. Full /\ ~nextShown => "cut" \in M
  BY DEF OneIf
<1>6. Full /\ Live("next") # {} => "crossed" \in M
  <2>1. Live("next") # {} => "crossed" \in Crossed("next")
    BY Zenon DEF Live, Crossed, OneIf
  <2> QED BY <2>1
<1> HIDE DEF M
<1> QED BY <1>1, <1>2, <1>3, <1>4, <1>5, <1>6

DatedCut == IF Full THEN [Tail(pages) EXCEPT ![1] = Dated(@)] ELSE pages
Joint(g) == IF Day(g.hi) = Day(Cut(Front(pages))[1].lo)
            THEN [Cut(Front(pages)) EXCEPT ![1] = TakeLead(@)] ELSE Cut(Front(pages))

LEMMA AppendCases ==
    ASSUME NEW q, NEW g, AppendPage(q, g)
    PROVE  /\ nextShown' = (nextShown \/ IsFull(g))
           /\ drawn' = [drawn EXCEPT !.detail = ~TailThrows]
           /\ \/ /\ TailThrows /\ pages' = Cut(Tail(pages))
                 /\ masks' = masks /\ readDrawn' = readDrawn
              \/ /\ ~TailThrows
                 /\ pages' = Append(DatedCut, Page(q.room, g, LeadOfList2(g)))
                 /\ masks' = masks \ {"list"} /\ readDrawn' = drawn'["detail"]
<1>1. Full => Cut(Tail(pages)) = Tail(pages)
  BY DEF Cut
<1>2. ~Full => Cut(Tail(pages)) = pages
  BY DEF Cut
<1>3. CASE Full
  BY <1>1, <1>3, Zenon DEF AppendPage, TailThrows, DatedCut, Completed, Cut
<1>4. CASE ~Full
  BY <1>2, <1>4, Zenon DEF AppendPage, TailThrows, DatedCut, Completed, Cut
<1> QED BY <1>3, <1>4

LEMMA PrependCases ==
    ASSUME NEW q, NEW g, PrependPage(q, g)
    PROVE  /\ prevShown' = IsFull(g)
           /\ drawn' = [drawn EXCEPT !.prev = ~FrontThrows]
           /\ \/ /\ FrontThrows /\ pages' = Cut(Front(pages))
                 /\ masks' = masks /\ readDrawn' = readDrawn
              \/ /\ ~FrontThrows
                 /\ pages' = <<Page(q.room, g, "div")>> \o Joint(g)
                 /\ masks' = masks \ {"list"} /\ readDrawn' = drawn'["prev"]
<1>1. CASE FrontThrows
  BY <1>1, Zenon DEF PrependPage, FrontThrows, Joint, Completed, Cut
<1>2. CASE ~FrontThrows
  BY <1>2, Zenon DEF PrependPage, FrontThrows, Joint, Completed, Cut
<1> QED BY <1>1, <1>2

LEMMA FullIs ==
    ASSUME PagesOK
    PROVE  /\ Len(pages) \in Nat /\ (pages # <<>> => Len(pages) >= 1)
           /\ ~Full => Len(pages) + 1 <= ViewPages
           /\ Full => Len(pages) = ViewPages /\ Len(pages) >= 2
<1>1. Len(pages) \in Nat /\ Len(pages) <= ViewPages /\ pages \in Seq(PageRec)
  BY DEF PagesOK
<1>2. pages # <<>> => Len(pages) >= 1
  BY <1>1
<1> QED BY <1>1, <1>2, Sizes DEF Full

LEMMA TailIs ==
    ASSUME PagesOK, Full
    PROVE  /\ Tail(pages) \in Seq(PageRec) /\ Len(Tail(pages)) = Len(pages) - 1
           /\ \A i \in 1..Len(pages) - 1 : Tail(pages)[i] = pages[i + 1]
<1>1. pages \in Seq(PageRec) /\ Len(pages) \in Nat /\ Len(pages) >= 2
  BY FullIs DEF PagesOK
<1> QED BY <1>1

LEMMA FrontIs ==
    ASSUME PagesOK, Full
    PROVE  /\ Front(pages) \in Seq(PageRec) /\ Len(Front(pages)) = Len(pages) - 1
           /\ \A i \in 1..Len(pages) - 1 : Front(pages)[i] = pages[i]
<1>1. pages \in Seq(PageRec) /\ Len(pages) \in Nat /\ Len(pages) >= 2
  BY FullIs DEF PagesOK
<1>2. Front(pages) = [i \in 1..Len(pages) - 1 |-> pages[i]]
  BY <1>1 DEF Front
<1> QED BY <1>1, <1>2

(* The pages of t are those of s, but for their lead and the first of them. *)
Alike(s, t) ==
    /\ t \in Seq(PageRec) /\ Len(t) = Len(s)
    /\ \A i \in 1..Len(s) : Sound(t[i]) /\ t[i].room = s[i].room /\ t[i].hi = s[i].hi
    /\ \A i \in 2..Len(s) : t[i] = s[i]

LEMMA DatedIs ==
    ASSUME NEW s \in Seq(PageRec), Len(s) >= 1, \A i \in 1..Len(s) : Sound(s[i])
    PROVE  /\ Alike(s, [s EXCEPT ![1] = Dated(@)])
           /\ [s EXCEPT ![1] = Dated(@)][1].lead = "date"
           /\ [s EXCEPT ![1] = Dated(@)][1].lo = s[1].lo
<1> DEFINE t == [s EXCEPT ![1] = Dated(s[1])]
<1>0. s[1] \in PageRec /\ Sound(s[1]) /\ Len(s) \in Nat
  OBVIOUS
<1>1. /\ Dated(s[1]) \in PageRec /\ Dated(s[1]).room = s[1].room /\ Dated(s[1]).hi = s[1].hi
      /\ Dated(s[1]).lo = s[1].lo /\ Dated(s[1]).lead = "date"
  BY <1>0 DEF Dated, PageRec
<1>2. Sound(Dated(s[1]))
  BY <1>0, <1>1 DEF Sound
<1>3. t \in Seq(PageRec) /\ Len(t) = Len(s) /\ t[1] = Dated(s[1]) /\ \A i \in 2..Len(s) : t[i] = s[i]
  BY <1>0, <1>1
<1> HIDE DEF t
<1>4. Alike(s, t)
  BY <1>0, <1>1, <1>2, <1>3 DEF Alike
<1> QED BY <1>1, <1>3, <1>4 DEF t

LEMMA TakenIs ==
    ASSUME NEW s \in Seq(PageRec), Len(s) >= 1, \A i \in 1..Len(s) : Sound(s[i]),
           s[1].lead # "date", s[1].lead = "msg" => s[1].lo < s[1].hi
    PROVE  /\ Alike(s, [s EXCEPT ![1] = TakeLead(@)])
           /\ s[1].lead # "msg" => [s EXCEPT ![1] = TakeLead(@)][1].lo = s[1].lo
<1> DEFINE t == [s EXCEPT ![1] = TakeLead(s[1])]
           p == s[1]
<1>0. p \in PageRec /\ Sound(p) /\ Len(s) \in Nat
  OBVIOUS
<1>a. p.lead \in {"div", "msg"}
  BY <1>0 DEF PageRec
<1> HIDE DEF p
<1>1. /\ Sound(TakeLead(p)) /\ TakeLead(p).room = p.room /\ TakeLead(p).hi = p.hi
      /\ p.lead = "div" => TakeLead(p).lo = p.lo
  <2>1. CASE p.lead = "div"
    <3>1. TakeLead(p) = [p EXCEPT !.lead = "msg"]
      BY <2>1 DEF TakeLead
    <3> QED BY <1>0, <3>1 DEF PageRec, Sound
  <2>2. CASE p.lead = "msg"
    <3> DEFINE l == LeadOfList2([lo |-> p.lo + 1, hi |-> p.hi])
    <3>1. l \in {"div", "date", "msg"}
      BY LeadIs
    <3>2. TakeLead(p) = [p EXCEPT !.lo = p.lo + 1, !.lead = l]
      BY <2>2 DEF TakeLead
    <3>3. p.lo < p.hi
      BY <2>2 DEF p
    <3> HIDE DEF l
    <3>4. p = [room |-> p.room, lo |-> p.lo, hi |-> p.hi, lead |-> p.lead]
      BY <1>0 DEF PageRec
    <3>5. TakeLead(p) = [room |-> p.room, lo |-> p.lo + 1, hi |-> p.hi, lead |-> l]
      BY <3>2, <3>4
    <3>6. p.room \in Rooms /\ p.lo \in Nat /\ p.hi \in Nat /\ p.hi <= Length[p.room]
      BY <1>0 DEF PageRec, Sound
    <3>7. TakeLead(p) \in PageRec
      BY <3>1, <3>5, <3>6 DEF PageRec
    <3>8. TakeLead(p).lo = p.lo + 1 /\ TakeLead(p).hi = p.hi /\ TakeLead(p).room = p.room
      BY <3>5
    <3> QED BY <2>2, <3>3, <3>6, <3>7, <3>8 DEF Sound
  <2> QED BY <1>a, <2>1, <2>2
<1>2. TakeLead(p) \in PageRec
  BY <1>1 DEF Sound
<1>3. t \in Seq(PageRec) /\ Len(t) = Len(s) /\ t[1] = TakeLead(p) /\ \A i \in 2..Len(s) : t[i] = s[i]
  BY <1>0, <1>2 DEF p
<1> HIDE DEF t
<1>4. Alike(s, t)
  <2>1. Sound(t[1]) /\ t[1].room = s[1].room /\ t[1].hi = s[1].hi
    BY <1>1, <1>3 DEF p
  <2> QED BY <1>0, <1>3, <2>1 DEF Alike
<1>5. s[1].lead # "msg" => t[1].lo = s[1].lo
  BY <1>1, <1>3, <1>a DEF p
<1> QED BY <1>4, <1>5 DEF t

LEMMA PagesHold ==
    ASSUME NEW s \in Seq(PageRec), Len(s) <= ViewPages, \A i \in 1..Len(s) : Sound(s[i]),
           s # <<>> /\ s[1].lead = "msg" => s[1].lo < s[1].hi, pages' = s
    PROVE  PagesOK'
BY DEF PagesOK, Top

(* The pages that a full pane loses. *)
Gone == IF Full THEN 1 ELSE 0

LEMMA AppendShape ==
    ASSUME PagesOK, NEW q, NEW g, q.room \in Rooms, GroupOf(q.room, g), ~IsEmpty(g), AppendPage(q, g)
    PROVE  /\ Gone \in Nat /\ Len(pages) \in Nat /\ Len(pages) >= Gone + Gone
           /\ \A i \in 1..Len(pages) - Gone : /\ pages'[i].room = pages[i + Gone].room
                                           /\ pages'[i].lo = pages[i + Gone].lo
                                           /\ pages'[i].hi = pages[i + Gone].hi
                                           /\ Sound(pages'[i])
           /\ ~Full => \A i \in 1..Len(pages) : pages'[i] = pages[i]
           /\ Full => pages'[1].lead # "msg"
           /\ pages' \in Seq(PageRec)
           /\ \/ TailThrows /\ Len(pages') = Len(pages) - Gone
              \/ /\ ~TailThrows /\ Len(pages') = Len(pages) - Gone + 1
                 /\ pages'[Len(pages) - Gone + 1] = Page(q.room, g, LeadOfList2(g))
<1> DEFINE p == Page(q.room, g, LeadOfList2(g))
<1>1. Sound(p) /\ p \in PageRec
  <2>1. LeadOfList2(g) \in {"div", "msg"}
    BY LeadIs
  <2> QED BY <2>1, PageIs DEF Sound
<1>2. pages \in Seq(PageRec) /\ Len(pages) \in Nat /\ \A i \in 1..Len(pages) : Sound(pages[i])
  BY FullIs DEF PagesOK
<1>3. CASE ~Full
  <2>1. Gone = 0 /\ ~TailThrows /\ DatedCut = pages
    BY <1>3 DEF TailThrows, DatedCut, Gone
  <2>2. pages' = Append(pages, p)
    BY <2>1, AppendCases
  <2> HIDE DEF p
  <2>3. /\ pages' \in Seq(PageRec) /\ Len(pages') = Len(pages) + 1 /\ pages'[Len(pages) + 1] = p
        /\ \A i \in 1..Len(pages) : pages'[i] = pages[i]
    BY <1>1, <1>2, <2>2
  <2> QED BY <1>2, <1>3, <2>1, <2>3 DEF p
<1>4. CASE Full
  <2> DEFINE s == Tail(pages)  t == [s EXCEPT ![1] = Dated(@)]
  <2>1. Len(pages) >= 2 /\ s \in Seq(PageRec) /\ Len(s) = Len(pages) - 1
        /\ \A i \in 1..Len(pages) - 1 : s[i] = pages[i + 1]
    BY <1>4, FullIs, TailIs
  <2>2. Cut(Tail(pages)) = s /\ DatedCut = t /\ Gone = 1
    BY <1>4 DEF Cut, DatedCut, Gone
  <2> HIDE DEF s
  <2>3. \A i \in 1..Len(s) : Sound(s[i])
    BY <1>2, <2>1
  <2>4. Len(s) >= 1
    BY <1>2, <2>1
  <2>5. Alike(s, t) /\ t[1].lead = "date" /\ t[1].lo = s[1].lo
    BY <2>1, <2>3, <2>4, DatedIs
  <2> HIDE DEF t
  <2>6. CASE TailThrows
    <3>1. pages' = s
      BY <2>2, <2>6, AppendCases
    <3>2. s[1].lead = "div"
      BY <2>2, <2>6 DEF TailThrows
    <3> QED BY <1>2, <1>4, <2>1, <2>2, <2>3, <2>6, <3>1, <3>2
  <2>7. CASE ~TailThrows
    <3>1. pages' = Append(t, p)
      BY <2>2, <2>7, AppendCases
    <3> HIDE DEF p
    <3>2. t \in Seq(PageRec) /\ Len(t) = Len(pages) - 1
      BY <2>1, <2>5 DEF Alike
    <3>3. /\ pages' \in Seq(PageRec) /\ Len(pages') = Len(pages) /\ pages'[Len(pages)] = p
          /\ \A i \in 1..Len(pages) - 1 : pages'[i] = t[i]
      BY <1>1, <1>2, <2>1, <3>1, <3>2
    <3>4. \A i \in 1..Len(pages) - 1 : /\ t[i].room = s[i].room /\ t[i].hi = s[i].hi
                                       /\ t[i].lo = s[i].lo /\ Sound(t[i])
      BY <1>2, <2>1, <2>5 DEF Alike
    <3>5. Len(pages) - Gone = Len(pages) - 1 /\ Len(pages) - Gone + 1 = Len(pages)
      BY <1>2, <2>2
    <3>6. \A i \in 1..Len(pages) - Gone : /\ pages'[i].room = pages[i + Gone].room
                                       /\ pages'[i].lo = pages[i + Gone].lo
                                       /\ pages'[i].hi = pages[i + Gone].hi
                                       /\ Sound(pages'[i])
      <4>1. \A i \in 1..Len(pages) - 1 : /\ pages'[i].room = pages[i + 1].room
                                         /\ pages'[i].lo = pages[i + 1].lo
                                         /\ pages'[i].hi = pages[i + 1].hi
                                         /\ Sound(pages'[i])
        BY <2>1, <3>3, <3>4
      <4> QED BY <2>2, <4>1
    <3>7. pages'[1] = t[1]
      BY <1>2, <2>1, <3>3
    <3>8. pages'[Len(pages) - Gone + 1] = p /\ Len(pages') = Len(pages) - Gone + 1
      BY <3>3, <3>5
    <3>9. Len(pages) >= Gone + Gone /\ Gone \in Nat
      BY <2>1, <2>2
    <3> QED BY <1>2, <1>4, <2>5, <2>7, <3>3, <3>6, <3>7, <3>8, <3>9 DEF p
  <2> QED BY <2>6, <2>7
<1> QED BY <1>3, <1>4

LEMMA PrependShape ==
    ASSUME PagesOK, NEW q, NEW g, q.room \in Rooms, GroupOf(q.room, g), ~IsEmpty(g), PrependPage(q, g)
    PROVE  /\ Gone \in Nat /\ Len(pages) \in Nat /\ Len(pages) >= Gone + Gone
           /\ pages' \in Seq(PageRec)
           /\ \/ /\ FrontThrows /\ Len(pages') = Len(pages) - Gone
                 /\ \A i \in 1..Len(pages) - Gone : pages'[i] = pages[i]
              \/ /\ ~FrontThrows /\ Len(pages') = Len(pages) - Gone + 1 /\ Len(pages) - Gone >= 1
                 /\ Top.lead # "date" /\ pages'[1] = Page(q.room, g, "div")
                 /\ \A i \in 1..Len(pages) - Gone : /\ pages'[i + 1].room = pages[i].room
                                                 /\ pages'[i + 1].hi = pages[i].hi
                                                 /\ Sound(pages'[i + 1])
                 /\ \A i \in 2..Len(pages) - Gone : pages'[i + 1].lo = pages[i].lo
                 /\ \/ pages'[2].lo = Top.lo
                    \/ /\ Day(g.hi) = Day(Cut(Front(pages))[1].lo)
                       /\ Cut(Front(pages))[1].lead = "msg"
<1> DEFINE p == Page(q.room, g, "div")  s == Cut(Front(pages))  n == Len(pages) - Gone
<1>1. Sound(p) /\ p \in PageRec
  <2>1. "div" \in {"div", "msg"}
    OBVIOUS
  <2> QED BY <2>1, PageIs DEF Sound
<1>2. pages \in Seq(PageRec) /\ Len(pages) \in Nat /\ \A i \in 1..Len(pages) : Sound(pages[i])
  BY FullIs DEF PagesOK
<1>0. Gone = IF Full THEN 1 ELSE 0
  BY DEF Gone
<1>3. Gone \in Nat /\ Len(pages) >= Gone + Gone /\ n \in Nat
  BY <1>0, <1>2, FullIs
<1>4. s \in Seq(PageRec) /\ Len(s) = n /\ \A i \in 1..n : s[i] = pages[i]
  <2>1. CASE Full
    BY <1>0, <2>1, FrontIs DEF Cut
  <2>2. CASE ~Full
    <3>1. s = pages /\ n = Len(pages)
      BY <1>0, <1>2, <2>2 DEF Cut
    <3> QED BY <1>2, <3>1
  <2> QED BY <2>1, <2>2
<1>5. \A i \in 1..Len(s) : Sound(s[i])
  <2>1. n <= Len(pages)
    BY <1>2, <1>3
  <2> QED BY <1>2, <1>3, <1>4, <2>1
<1>6. CASE FrontThrows
  <2>1. pages' = s
    BY <1>6, PrependCases
  <2> QED BY <1>2, <1>3, <1>4, <1>6, <2>1
<1>7. CASE ~FrontThrows
  <2>1. s # <<>> /\ s[1].lead # "date"
    BY <1>7 DEF FrontThrows
  <2>2. pages' = <<p>> \o Joint(g)
    BY <1>7, PrependCases
  <2>3. Joint(g) = IF Day(g.hi) = Day(s[1].lo) THEN [s EXCEPT ![1] = TakeLead(@)] ELSE s
    BY DEF Joint
  <2> HIDE DEF s, p
  <2>4. n >= 1 /\ s[1] = Top /\ 1 \in 1..n
    <3>1. n >= 1
      BY <1>3, <1>4, <2>1
    <3> QED BY <1>3, <1>4, <3>1 DEF Top
  <2>5. s[1].lead = "msg" => s[1].lo < s[1].hi
    <3>1. pages # <<>>
      BY <1>2, <1>3, <2>4
    <3> QED BY <2>4, <3>1 DEF PagesOK
  <2>6. /\ Alike(s, Joint(g))
        /\ Joint(g)[1].lo = s[1].lo \/ (Day(g.hi) = Day(s[1].lo) /\ s[1].lead = "msg")
    <3>1. CASE Day(g.hi) = Day(s[1].lo)
      <4>1. Joint(g) = [s EXCEPT ![1] = TakeLead(@)]
        BY <2>3, <3>1
      <4> QED BY <1>4, <1>5, <2>1, <2>4, <2>5, <3>1, <4>1, TakenIs
    <3>2. CASE Day(g.hi) # Day(s[1].lo)
      <4>1. Joint(g) = s
        BY <2>3, <3>2
      <4> QED BY <1>4, <1>5, <4>1 DEF Alike
    <3> QED BY <3>1, <3>2
  <2> HIDE DEF n
  <2>7. Joint(g) \in Seq(PageRec) /\ Len(Joint(g)) = n
    BY <1>4, <2>6 DEF Alike
  <2>8. /\ pages' \in Seq(PageRec) /\ Len(pages') = n + 1 /\ pages'[1] = p
        /\ \A i \in 1..n : pages'[i + 1] = Joint(g)[i]
    BY <1>1, <1>3, <2>2, <2>7
  <2>9. \A i \in 1..n : /\ Joint(g)[i].room = pages[i].room /\ Joint(g)[i].hi = pages[i].hi
                        /\ Sound(Joint(g)[i])
    BY <1>3, <1>4, <2>6 DEF Alike
  <2>10. \A i \in 2..n : Joint(g)[i].lo = pages[i].lo
    BY <1>3, <1>4, <2>6 DEF Alike
  <2>11. pages'[2] = Joint(g)[1]
    BY <1>3, <2>4, <2>8
  <2>12. \A i \in 1..n : /\ pages'[i + 1].room = pages[i].room
                         /\ pages'[i + 1].hi = pages[i].hi /\ Sound(pages'[i + 1])
    BY <2>8, <2>9
  <2>13. \A i \in 2..n : pages'[i + 1].lo = pages[i].lo
    BY <1>3, <2>8, <2>10
  <2> QED BY <1>2, <1>3, <1>7, <2>1, <2>4, <2>6, <2>8, <2>11, <2>12, <2>13 DEF s, p, n
<1> QED BY <1>6, <1>7

LEMMA NextGroupIs ==
    ASSUME ReqsOK, NEW q \in reqs, NEW g \in NextGroups(q)
    PROVE  /\ ~IsEmpty(g) => GroupOf(q.room, g)
           /\ q.at # 0 => g = After(q.room, q.at)
<1>1. q.room \in Rooms /\ q.at \in Nat
  BY DEF ReqsOK, Requests
<1>2. CASE q.at # 0
  <2>1. g = After(q.room, q.at)
    BY <1>2 DEF NextGroups
  <2> QED BY <1>1, <2>1, AfterIs
<1>3. CASE q.at = 0
  <2>1. g = From(q.room, 1) \/ g = [lo |-> 1, hi |-> 0]
    BY <1>3 DEF NextGroups
  <2>2. IsEmpty([lo |-> 1, hi |-> 0])
    BY DEF IsEmpty
  <2> QED BY <1>1, <1>3, <2>1, <2>2, FromIs
<1> QED BY <1>2, <1>3

LEMMA PrevGroupIs ==
    ASSUME ReqsOK, NEW q \in reqs, NEW g \in PrevGroups(q)
    PROVE  /\ ~IsEmpty(g) => GroupOf(q.room, g)
           /\ q.at # 0 => g = Before(q.room, q.at)
<1>1. q.room \in Rooms /\ q.at \in Nat
  BY DEF ReqsOK, Requests
<1>2. CASE q.at # 0
  <2>1. g = Before(q.room, q.at)
    BY <1>2 DEF PrevGroups
  <2> QED BY <1>1, <1>2, <2>1, BeforeIs
<1>3. CASE q.at = 0
  <2>1. g = Newest(q.room) \/ g = [lo |-> 1, hi |-> 0]
    BY <1>3 DEF PrevGroups
  <2>2. IsEmpty([lo |-> 1, hi |-> 0])
    BY DEF IsEmpty
  <2> QED BY <1>1, <1>3, <2>1, <2>2, NewestIs
<1> QED BY <1>2, <1>3

LEMMA OpenedIs ==
    ASSUME ReqsOK, NEW q \in reqs, NEW g, NEW l,
           g = IF q.at = 0 THEN Newest(q.room) ELSE From(q.room, q.at),
           l = IF q.at = 0 THEN "div" ELSE LeadOfList2(g), ~IsEmpty(g)
    PROVE  /\ Sound(Page(q.room, g, l)) /\ Page(q.room, g, l).room = q.room
           /\ l \in {"div", "msg"} /\ Page(q.room, g, l).lead = l
           /\ l = "msg" => Page(q.room, g, l).lo < Page(q.room, g, l).hi
<1>1. q.room \in Rooms /\ q.at \in Nat
  BY DEF ReqsOK, Requests
<1>2. GroupOf(q.room, g)
  BY <1>1, NewestIs, FromIs
<1>3. l \in {"div", "msg"} /\ (l = "msg" => g.lo # g.hi)
  BY LeadIs
<1>4. g.lo \in Nat /\ g.hi \in Int /\ g.lo <= g.hi
  BY <1>2 DEF GroupOf, IsEmpty
<1> QED BY <1>1, <1>2, <1>3, <1>4, PageIs

LEMMA PagesStep == ASSUME ReqsOK, PagesOK, RestOK, Next PROVE PagesOK'
<1>1. pages' = pages => PagesOK'
  BY DEF PagesOK, Top
<1>2. pages' = <<>> => PagesOK'
  <2> SUFFICES ASSUME pages' = <<>> PROVE PagesOK'
    OBVIOUS
  <2>1. pages' \in Seq(PageRec) /\ Len(pages') = 0 /\ Len(pages') <= ViewPages
    BY Sizes
  <2>2. \A i \in 1..Len(pages') : Sound(pages'[i])
    BY <2>1
  <2> QED BY <2>1, <2>2 DEF PagesOK, Top
<1>3. ASSUME NEW q \in reqs, OpenAnswer(q) PROVE PagesOK'
  <2> DEFINE g == IF q.at = 0 THEN Newest(q.room) ELSE From(q.room, q.at)
             l == IF q.at = 0 THEN "div" ELSE LeadOfList2(g)
             p == Page(q.room, g, l)
  <2>1. \/ pages' = pages \/ pages' = <<>>
        \/ ~IsEmpty(g) /\ pages' = <<p>>
    BY <1>3, Zenon DEF OpenAnswer
  <2>2. CASE ~IsEmpty(g) /\ pages' = <<p>>
    <3>1. Sound(p) /\ p.lead = l /\ (l = "msg" => p.lo < p.hi)
      BY <2>2, OpenedIs
    <3> HIDE DEF p, l
    <3>2. pages' \in Seq(PageRec) /\ Len(pages') = 1 /\ pages'[1] = p
      BY <2>2, <3>1 DEF Sound
    <3>3. 1 <= ViewPages /\ \A i \in 1..Len(pages') : Sound(pages'[i])
      BY <3>1, <3>2, Sizes
    <3> QED BY <3>1, <3>2, <3>3 DEF PagesOK, Top
  <2> QED BY <2>1, <2>2, <1>1, <1>2
<1>4. ASSUME NEW q \in reqs, NEW g \in NextGroups(q), ~IsEmpty(g), AppendPage(q, g) PROVE PagesOK'
  <2>0. Gone = IF Full THEN 1 ELSE 0
    BY DEF Gone
  <2>1. q.room \in Rooms /\ GroupOf(q.room, g)
    BY <1>4, NextGroupIs DEF ReqsOK
  <2> DEFINE p == Page(q.room, g, LeadOfList2(g))
  <2>2. LeadOfList2(g) \in {"div", "msg"} /\ (LeadOfList2(g) = "msg" => g.lo # g.hi)
    BY LeadIs
  <2>3. Sound(p) /\ (p.lead = "msg" => p.lo < p.hi)
    <3>1. g.lo \in Nat /\ g.hi \in Int /\ g.lo <= g.hi
      BY <1>4, <2>1 DEF GroupOf, IsEmpty
    <3> QED BY <1>4, <2>1, <2>2, <3>1, PageIs
  <2>4. /\ Gone \in Nat /\ Len(pages) \in Nat /\ Len(pages) >= Gone + Gone /\ pages' \in Seq(PageRec)
        /\ \A i \in 1..Len(pages) - Gone : Sound(pages'[i])
        /\ ~Full => \A i \in 1..Len(pages) : pages'[i] = pages[i]
        /\ Full => pages'[1].lead # "msg"
        /\ \/ TailThrows /\ Len(pages') = Len(pages) - Gone
           \/ Len(pages') = Len(pages) - Gone + 1 /\ pages'[Len(pages) - Gone + 1] = p
    <3>1. AppendPage(q, g) /\ ~IsEmpty(g) /\ q.room \in Rooms /\ GroupOf(q.room, g)
      BY <1>4, <2>1
    <3>2. /\ Gone \in Nat /\ Len(pages) \in Nat /\ Len(pages) >= Gone + Gone /\ pages' \in Seq(PageRec)
          /\ \A i \in 1..Len(pages) - Gone : Sound(pages'[i])
      BY <2>0, <3>1, AppendShape
    <3>3. /\ ~Full => \A i \in 1..Len(pages) : pages'[i] = pages[i]
          /\ Full => pages'[1].lead # "msg"
      BY <2>0, <3>1, AppendShape
    <3>4. \/ TailThrows /\ Len(pages') = Len(pages) - Gone
          \/ Len(pages') = Len(pages) - Gone + 1 /\ pages'[Len(pages) - Gone + 1] = p
      <4>1. AppendPage(q, g) /\ ~IsEmpty(g) /\ q.room \in Rooms /\ GroupOf(q.room, g)
            /\ PagesOK /\ Gone = IF Full THEN 1 ELSE 0
        BY <2>0, <3>1
      <4>2. \/ TailThrows /\ Len(pages') = Len(pages) - Gone
            \/ /\ ~TailThrows /\ Len(pages') = Len(pages) - Gone + 1
               /\ pages'[Len(pages) - Gone + 1] = Page(q.room, g, LeadOfList2(g))
        BY <4>1, AppendShape, Zenon
      <4> QED BY <4>2
    <3> QED BY <3>2, <3>3, <3>4
  <2> HIDE DEF p
  <2>5. \A i \in 1..Len(pages') : Sound(pages'[i])
    BY <2>3, <2>4
  <2>6. Len(pages') <= ViewPages
    <3>1. Full => Len(pages) = ViewPages
      BY FullIs
    <3>2. ~Full => Len(pages) + 1 <= ViewPages
      BY FullIs
    <3> QED BY <2>0, <2>4, <3>1, <3>2, Sizes
  <2>7. pages' # <<>> /\ pages'[1].lead = "msg" => pages'[1].lo < pages'[1].hi
    <3>1. CASE Full
      BY <2>4, <3>1
    <3>2. CASE ~Full /\ pages # <<>>
      <4>1. pages'[1] = pages[1]
        BY <2>4, <3>2, FullIs
      <4> QED BY <3>2, <4>1 DEF PagesOK, Top
    <3>3. CASE ~Full /\ pages = <<>>
      <4>1. Gone = 0 /\ Len(pages) = 0
        BY <2>0, <3>3
      <4>2. pages' = <<>> \/ pages'[1] = p
        BY <2>4, <4>1
      <4> QED BY <2>3, <4>2
    <3> QED BY <3>1, <3>2, <3>3
  <2> QED BY <2>4, <2>5, <2>6, <2>7, PagesHold
<1>5. ASSUME NEW q \in reqs, NEW g \in PrevGroups(q), ~IsEmpty(g), PrependPage(q, g) PROVE PagesOK'
  <2>0. Gone = IF Full THEN 1 ELSE 0
    BY DEF Gone
  <2>1. q.room \in Rooms /\ GroupOf(q.room, g)
    BY <1>5, PrevGroupIs DEF ReqsOK
  <2> DEFINE p == Page(q.room, g, "div")
  <2>2. Sound(p) /\ p.lead = "div"
    <3>1. "div" \in {"div", "msg"}
      OBVIOUS
    <3> QED BY <1>5, <2>1, <3>1, PageIs
  <2> HIDE DEF p
  <2>3. /\ Gone \in Nat /\ Len(pages) \in Nat /\ Len(pages) >= Gone + Gone /\ pages' \in Seq(PageRec)
        /\ \/ /\ Len(pages') = Len(pages) - Gone
              /\ \A i \in 1..Len(pages) - Gone : pages'[i] = pages[i]
           \/ /\ Len(pages') = Len(pages) - Gone + 1 /\ pages'[1] = p
              /\ \A i \in 1..Len(pages) - Gone : Sound(pages'[i + 1])
    BY <2>0, <2>1, <1>5, PrependShape DEF p
  <2>4. \A i \in 1..Len(pages) : Sound(pages[i])
    BY DEF PagesOK
  <2>5. \A i \in 1..Len(pages') : Sound(pages'[i])
    <3>1. CASE Len(pages') = Len(pages) - Gone /\ \A i \in 1..Len(pages) - Gone : pages'[i] = pages[i]
      <4>1. \A i \in 1..Len(pages') : i \in 1..Len(pages) /\ pages'[i] = pages[i]
        BY <2>3, <3>1
      <4> QED BY <2>4, <4>1
    <3>2. CASE /\ Len(pages') = Len(pages) - Gone + 1 /\ pages'[1] = p
               /\ \A i \in 1..Len(pages) - Gone : Sound(pages'[i + 1])
      <4>1. ASSUME NEW i \in 1..Len(pages'), i # 1 PROVE Sound(pages'[i])
        <5>1. i - 1 \in 1..Len(pages) - Gone /\ (i - 1) + 1 = i
          BY <2>3, <3>2, <4>1
        <5> QED BY <3>2, <5>1
      <4> QED BY <2>2, <3>2, <4>1
    <3> QED BY <2>3, <3>1, <3>2
  <2>6. Len(pages') <= ViewPages
    <3>1. Full => Len(pages) = ViewPages
      BY FullIs
    <3>2. ~Full => Len(pages) + 1 <= ViewPages
      BY FullIs
    <3> QED BY <2>0, <2>3, <3>1, <3>2, Sizes
  <2>7. pages' # <<>> /\ pages'[1].lead = "msg" => pages'[1].lo < pages'[1].hi
    <3>1. CASE pages'[1] = p
      BY <2>2, <3>1
    <3>2. CASE Len(pages') = Len(pages) - Gone /\ \A i \in 1..Len(pages) - Gone : pages'[i] = pages[i]
      <4>1. pages' # <<>> => pages # <<>> /\ pages'[1] = pages[1]
        BY <2>3, <3>2
      <4> QED BY <4>1 DEF PagesOK, Top
    <3> QED BY <2>3, <3>1, <3>2
  <2> QED BY <2>3, <2>5, <2>6, <2>7, PagesHold
<1>6. ASSUME NEW q \in reqs, Answer(q) PROVE PagesOK'
  <2>1. UsersAnswer(q) => pages' = pages \/ pages' = <<>>
    BY DEF UsersAnswer, OpenRoom, Cleared
  <2>2. TotalAnswer(q) => pages' = pages \/ pages' = <<>>
    BY DEF TotalAnswer, Cleared
  <2>3. FindAnswer(q) => pages' = pages \/ pages' = <<>>
    BY DEF FindAnswer, Cleared
  <2>4. NextAnswer(q) => pages' = pages \/ \E g \in NextGroups(q) : ~IsEmpty(g) /\ AppendPage(q, g)
    BY DEF NextAnswer
  <2>5. PrevAnswer(q) => pages' = pages \/ \E g \in PrevGroups(q) : ~IsEmpty(g) /\ PrependPage(q, g)
    BY DEF PrevAnswer
  <2> QED BY <1>1, <1>2, <1>3, <1>4, <1>5, <1>6, <2>1, <2>2, <2>3, <2>4, <2>5 DEF Answer
<1>7. ASSUME NEW r \in Rooms, ClickPerson(r) PROVE PagesOK'
  BY <1>1, <1>7 DEF ClickPerson
<1>8. ClickSelectUser \/ ClickNext \/ ClickPrev \/ FindMessageList => pages' = pages \/ pages' = <<>>
  BY DEF ClickSelectUser, ClickNext, ClickPrev, FindMessageList, OpenRoom, Cleared
<1> QED BY <1>1, <1>2, <1>6, <1>7, <1>8 DEF Next

-----------------------------------------------------------------------------
(* The rest of the page. *)

LEMMA RoomNamed == ASSUME RestOK, Next PROVE room' \in Rooms /\ (room' = room \/ \E r \in Rooms : ClickPerson(r))
<1>1. ASSUME NEW q \in reqs, Answer(q) PROVE room' = room /\ room \in Rooms
  <2>1. room \in Rooms
    BY DEF RestOK
  <2>2. room' = room
    BY <1>1, Zenon
       DEF Answer, UsersAnswer, TotalAnswer, OpenAnswer, NextAnswer, PrevAnswer, FindAnswer
  <2> QED BY <2>1, <2>2
<1>2. ASSUME NEW r \in Rooms, ClickPerson(r) PROVE room' \in Rooms
  BY <1>2 DEF ClickPerson
<1>3. ClickSelectUser \/ ClickNext \/ ClickPrev \/ FindMessageList => room' = room /\ room \in Rooms
  BY DEF ClickSelectUser, ClickNext, ClickPrev, FindMessageList, RestOK
<1> QED BY <1>1, <1>2, <1>3 DEF Next

(* What the history can gain, and that nothing but a newest page takes from it. *)
LEMMA PastStep ==
    ASSUME RestOK, Next
    PROVE  /\ past' \subseteq Mishaps
           /\ \/ past' = past
              \/ \E M \in SUBSET Mishaps : past' = Noted(M)
              \/ \E q \in reqs : UsersAnswer(q) /\ past' = past \union {"unopened"}
              \/ \E q \in reqs : /\ OpenAnswer(q) /\ pages' # <<>>
                                 /\ past' = IF q.stray THEN {"stray"} ELSE {}
<1>0. past \subseteq Mishaps
  BY DEF RestOK
<1>1. \A M \in SUBSET Mishaps : Noted(M) \subseteq Mishaps
  BY <1>0, NotedIs
<1>2. ASSUME NEW q \in reqs, UsersAnswer(q)
      PROVE  past' = past \/ past' = past \union {"unopened"}
  BY <1>2 DEF UsersAnswer
<1>3. ASSUME NEW q \in reqs, OpenAnswer(q)
      PROVE  past' = past \/ (pages' # <<>> /\ past' = IF q.stray THEN {"stray"} ELSE {})
  <2>1. past' = past \/ ((\E p : pages' = <<p>>) /\ past' = IF q.stray THEN {"stray"} ELSE {})
    BY <1>3, Zenon DEF OpenAnswer
  <2>2. \A p : <<p>> # <<>>
    OBVIOUS
  <2> QED BY <2>1, <2>2, Zenon
<1>4. ASSUME NEW q \in reqs, NextAnswer(q)
      PROVE  \E M \in SUBSET Mishaps : past' = Noted(M)
  <2>1. ASSUME NEW g, AppendPage(q, g) PROVE \E M \in SUBSET Mishaps : past' = Noted(M)
    BY <1>0, <2>1, AppendPast, Zenon
  <2>2. OneIf("stray", q.stray) \in SUBSET Mishaps /\ {"failed"} \in SUBSET Mishaps
    BY DEF OneIf, Mishaps
  <2> QED BY <1>4, <2>1, <2>2 DEF NextAnswer
<1>5. ASSUME NEW q \in reqs, PrevAnswer(q)
      PROVE  \E M \in SUBSET Mishaps : past' = Noted(M)
  <2>1. ASSUME NEW g, PrependPage(q, g) PROVE \E M \in SUBSET Mishaps : past' = Noted(M)
    BY <1>0, <2>1, PrependPast, Zenon
  <2>2. OneIf("stray", q.stray) \in SUBSET Mishaps /\ {"failed"} \in SUBSET Mishaps
    BY DEF OneIf, Mishaps
  <2> QED BY <1>5, <2>1, <2>2 DEF PrevAnswer
<1>6. ASSUME NEW q \in reqs, TotalAnswer(q) \/ FindAnswer(q) PROVE past' = past
  BY <1>6 DEF TotalAnswer, FindAnswer
<1>7. ASSUME NEW r \in Rooms, ClickPerson(r) PROVE past' = past
  BY <1>7 DEF ClickPerson
<1>8. ClickSelectUser \/ ClickNext \/ ClickPrev \/ FindMessageList => past' = past
  BY DEF ClickSelectUser, ClickNext, ClickPrev, FindMessageList
<1>9. \/ past' = past
      \/ \E M \in SUBSET Mishaps : past' = Noted(M)
      \/ \E q \in reqs : UsersAnswer(q) /\ past' = past \union {"unopened"}
      \/ \E q \in reqs : /\ OpenAnswer(q) /\ pages' # <<>>
                         /\ past' = IF q.stray THEN {"stray"} ELSE {}
  BY <1>2, <1>3, <1>4, <1>5, <1>6, <1>7, <1>8 DEF Next, Answer
<1> QED BY <1>0, <1>1, <1>9 DEF Mishaps

LEMMA RestStep == ASSUME ReqsOK, PagesOK, RestOK, Next PROVE RestOK'
<1> DEFINE U == /\ texts' \subseteq Texts
                /\ nextShown' \in BOOLEAN /\ prevShown' \in BOOLEAN /\ readDrawn' \in BOOLEAN
                /\ masks' \subseteq {"list", "panel"}
                /\ drawn' \in [detail : BOOLEAN, prev : BOOLEAN]
<1>0. /\ texts \subseteq Texts
      /\ nextShown \in BOOLEAN /\ prevShown \in BOOLEAN /\ readDrawn \in BOOLEAN
      /\ masks \subseteq {"list", "panel"}
      /\ drawn \in [detail : BOOLEAN, prev : BOOLEAN]
  BY DEF RestOK
<1>1. ASSUME NEW r \in Rooms, ClickPerson(r) PROVE U
  BY <1>0, <1>1 DEF ClickPerson
<1>2. ClickSelectUser \/ ClickNext \/ ClickPrev \/ FindMessageList => U
  BY <1>0 DEF ClickSelectUser, ClickNext, ClickPrev, FindMessageList, OpenRoom, Cleared
<1>3. ASSUME NEW q \in reqs, UsersAnswer(q) \/ TotalAnswer(q) \/ FindAnswer(q) PROVE U
  BY <1>0, <1>3 DEF UsersAnswer, TotalAnswer, FindAnswer, OpenRoom, Cleared
<1>4. ASSUME NEW q \in reqs, OpenAnswer(q) PROVE U
  <2>1. texts' \subseteq Texts /\ masks' \subseteq {"list", "panel"}
    BY <1>0, <1>4, Zenon DEF OpenAnswer, Texts
  <2>2. nextShown' \in BOOLEAN /\ prevShown' \in BOOLEAN
    BY <1>0, <1>4 DEF OpenAnswer
  <2>3. drawn' = drawn \/ drawn' = [detail |-> TRUE, prev |-> TRUE]
    BY <1>4 DEF OpenAnswer
  <2>6. [detail |-> TRUE, prev |-> TRUE] \in [detail : BOOLEAN, prev : BOOLEAN]
    OBVIOUS
  <2>4. drawn' \in [detail : BOOLEAN, prev : BOOLEAN]
    BY <1>0, <2>3, <2>6, Zenon
  <2>5. readDrawn' \in BOOLEAN
    BY <1>4, <2>4 DEF OpenAnswer
  <2> QED BY <2>1, <2>2, <2>4, <2>5
<1>5. ASSUME NEW q \in reqs, NextAnswer(q) PROVE U
  <2>1. ASSUME NEW g, AppendPage(q, g)
        PROVE  /\ nextShown' \in BOOLEAN /\ masks' \subseteq {"list", "panel"}
               /\ drawn' \in [detail : BOOLEAN, prev : BOOLEAN] /\ readDrawn' \in BOOLEAN
    <3>1. drawn' = [drawn EXCEPT !.detail = ~TailThrows] /\ nextShown' = (nextShown \/ IsFull(g))
      BY <2>1, AppendCases
    <3>2. drawn' \in [detail : BOOLEAN, prev : BOOLEAN] /\ nextShown' \in BOOLEAN
      BY <1>0, <3>1
    <3>3. (masks' = masks /\ readDrawn' = readDrawn)
          \/ (masks' = masks \ {"list"} /\ readDrawn' = drawn'["detail"])
      BY <2>1, AppendCases
    <3> QED BY <1>0, <3>2, <3>3
  <2>2. ASSUME Completed("detail"), drawn' = drawn \/ drawn' = [drawn EXCEPT !.detail = TRUE]
        PROVE  /\ masks' \subseteq {"list", "panel"} /\ readDrawn' \in BOOLEAN
               /\ drawn' \in [detail : BOOLEAN, prev : BOOLEAN]
    <3>1. drawn' \in [detail : BOOLEAN, prev : BOOLEAN]
      BY <1>0, <2>2
    <3> QED BY <1>0, <2>2, <3>1 DEF Completed
  <2>3. prevShown' = prevShown /\ (texts' = texts \/ texts' = texts \union {"noNext"})
    BY <1>5 DEF NextAnswer
  <2>4. texts' \subseteq Texts
    BY <1>0, <2>3 DEF Texts
  <2>5. \/ \E g : AppendPage(q, g)
        \/ /\ Completed("detail") /\ (nextShown' = FALSE \/ nextShown' = nextShown)
           /\ drawn' = drawn \/ drawn' = [drawn EXCEPT !.detail = TRUE]
    BY <1>5 DEF NextAnswer
  <2> QED BY <1>0, <2>1, <2>2, <2>3, <2>4, <2>5
<1>6. ASSUME NEW q \in reqs, PrevAnswer(q) PROVE U
  <2>1. ASSUME NEW g, PrependPage(q, g)
        PROVE  /\ prevShown' \in BOOLEAN /\ masks' \subseteq {"list", "panel"}
               /\ drawn' \in [detail : BOOLEAN, prev : BOOLEAN] /\ readDrawn' \in BOOLEAN
    <3>1. drawn' = [drawn EXCEPT !.prev = ~FrontThrows] /\ prevShown' = IsFull(g)
      BY <2>1, PrependCases
    <3>2. drawn' \in [detail : BOOLEAN, prev : BOOLEAN] /\ prevShown' \in BOOLEAN
      BY <1>0, <3>1 DEF IsFull
    <3>3. (masks' = masks /\ readDrawn' = readDrawn)
          \/ (masks' = masks \ {"list"} /\ readDrawn' = drawn'["prev"])
      BY <2>1, PrependCases
    <3> QED BY <1>0, <3>2, <3>3
  <2>2. ASSUME Completed("prev"), drawn' = drawn \/ drawn' = [drawn EXCEPT !.prev = TRUE]
        PROVE  /\ masks' \subseteq {"list", "panel"} /\ readDrawn' \in BOOLEAN
               /\ drawn' \in [detail : BOOLEAN, prev : BOOLEAN]
    <3>1. drawn' \in [detail : BOOLEAN, prev : BOOLEAN]
      BY <1>0, <2>2
    <3> QED BY <1>0, <2>2, <3>1 DEF Completed
  <2>3. nextShown' = nextShown /\ (texts' = texts \/ texts' = texts \union {"noPrev"})
    BY <1>6 DEF PrevAnswer
  <2>4. texts' \subseteq Texts
    BY <1>0, <2>3 DEF Texts
  <2>5. \/ \E g : PrependPage(q, g)
        \/ /\ Completed("prev") /\ (prevShown' = FALSE \/ prevShown' = prevShown)
           /\ drawn' = drawn \/ drawn' = [drawn EXCEPT !.prev = TRUE]
    BY <1>6 DEF PrevAnswer
  <2> QED BY <1>0, <2>1, <2>2, <2>3, <2>4, <2>5
<1>7. U
  BY <1>1, <1>2, <1>3, <1>4, <1>5, <1>6 DEF Next, Answer
<1> HIDE DEF U
<1>8. room' \in Rooms /\ past' \subseteq Mishaps
  BY RoomNamed, PastStep
<1> QED BY <1>7, <1>8 DEF RestOK, U

(* A request is in flight until it is answered. *)
LEMMA SomeStays ==
    ASSUME ReqsOK, Next, NEW o, Some(o), \A q \in reqs : q.op = o => ~Answer(q)
    PROVE  \E t \in reqs' : t.op = o
<1>0. \A S, T, U : Tame(S, T) /\ T \subseteq U /\ (\E s \in S : s.op = o) => \E t \in U : t.op = o
  BY Zenon DEF Tame
<1>1. ASSUME NEW T, Tame(reqs, T), T \subseteq reqs' PROVE \E t \in reqs' : t.op = o
  BY <1>0, <1>1, Zenon DEF Some
<1>2. ASSUME NEW r \in Rooms, ClickPerson(r) PROVE \E t \in reqs' : t.op = o
  <2>1. reqs' = Send(Strayed(reqs, r, room), "users", r, 0, FALSE)
    BY <1>2, Zenon DEF ClickPerson, Strayed
  <2>2. Strayed(reqs, r, room) \subseteq reqs' /\ Tame(reqs, Strayed(reqs, r, room))
    BY <2>1, StrayedIs, ReqsFinite DEF Send
  <2> QED BY <2>2, <1>1
<1>3. ClickNext \/ ClickPrev \/ FindMessageList => reqs \subseteq reqs'
  BY DEF ClickNext, ClickPrev, FindMessageList, Send
<1>4. ClickSelectUser => Overtaken(reqs) \subseteq reqs'
  BY DEF ClickSelectUser, OpenRoom, Send
<1>5. ASSUME NEW q \in reqs, Answer(q) PROVE \E t \in reqs' : t.op = o
  <2> DEFINE S == reqs \ {q}
  <2>1. \E s \in S : s.op = o
    BY <1>5 DEF Some
  <2>2. Tame(S, S) /\ Tame(S, Overtaken(S))
    BY ReqsFinite
  <2>3. S \subseteq reqs' \/ Overtaken(S) \subseteq reqs'
    <3>1. UsersAnswer(q) => reqs' = S \/ Overtaken(S) \subseteq reqs'
      BY DEF UsersAnswer, OpenRoom, Send
    <3>2. TotalAnswer(q) => reqs' = S \/ Overtaken(S) \subseteq reqs'
      BY DEF TotalAnswer, Send
    <3>3. OpenAnswer(q) => reqs' = S \/ Overtaken(S) \subseteq reqs'
      BY DEF OpenAnswer
    <3>4. NextAnswer(q) \/ PrevAnswer(q) => reqs' = S
      BY DEF NextAnswer, PrevAnswer
    <3>5. FindAnswer(q) => reqs' = S \/ Overtaken(S) \subseteq reqs'
      BY DEF FindAnswer, Send
    <3> QED BY <1>5, <3>1, <3>2, <3>3, <3>4, <3>5 DEF Answer
  <2> QED BY <2>1, <2>2, <2>3, <1>0
<1>6. Tame(reqs, reqs) /\ Tame(reqs, Overtaken(reqs))
  BY ReqsFinite
<1> QED BY <1>1, <1>2, <1>3, <1>4, <1>5, <1>6 DEF Next

LEMMA MasksFrom ==
    ASSUME Next PROVE masks' \subseteq masks \/ (\E S : OpenRoom(S)) \/ FindMessageList
<1>1. ASSUME NEW r \in Rooms, ClickPerson(r) PROVE masks' \subseteq masks
  BY <1>1 DEF ClickPerson
<1>2. ClickSelectUser => \E S : OpenRoom(S)
  BY DEF ClickSelectUser
<1>3. ClickNext \/ ClickPrev => masks' \subseteq masks
  BY DEF ClickNext, ClickPrev
<1>4. ASSUME NEW q \in reqs, UsersAnswer(q) PROVE masks' \subseteq masks \/ \E S : OpenRoom(S)
  BY <1>4 DEF UsersAnswer
<1>5. ASSUME NEW q \in reqs, TotalAnswer(q) \/ OpenAnswer(q) \/ FindAnswer(q)
      PROVE  masks' \subseteq masks
  BY <1>5, Zenon DEF TotalAnswer, OpenAnswer, FindAnswer
<1>6. ASSUME NEW q \in reqs, NextAnswer(q) PROVE masks' \subseteq masks
  <2>1. ASSUME NEW g, AppendPage(q, g) PROVE masks' \subseteq masks
    BY <2>1, AppendCases, Zenon
  <2>2. Completed("detail") => masks' \subseteq masks
    BY DEF Completed
  <2> QED BY <1>6, <2>1, <2>2 DEF NextAnswer
<1>7. ASSUME NEW q \in reqs, PrevAnswer(q) PROVE masks' \subseteq masks
  <2>1. ASSUME NEW g, PrependPage(q, g) PROVE masks' \subseteq masks
    BY <2>1, PrependCases, Zenon
  <2>2. Completed("prev") => masks' \subseteq masks
    BY DEF Completed
  <2> QED BY <1>7, <2>1, <2>2 DEF PrevAnswer
<1> QED BY <1>1, <1>2, <1>3, <1>4, <1>5, <1>6, <1>7 DEF Next, Answer

LEMMA MasksStep == ASSUME ReqsOK, RestOK, MasksHaveOwners, Next PROVE MasksHaveOwners'
<1>1. ASSUME "list" \in masks' PROVE \E q \in reqs' : q.op = "total"
  <2>1. CASE "list" \in masks /\ ~(\E q \in reqs : TotalAnswer(q))
    <3>1. Some("total")
      BY <2>1 DEF MasksHaveOwners, Some
    <3>2. ASSUME NEW q \in reqs, q.op = "total" PROVE ~Answer(q)
      BY <2>1, <3>2 DEF Answer, UsersAnswer, OpenAnswer, NextAnswer, PrevAnswer, FindAnswer
    <3> QED BY <3>1, <3>2, SomeStays
  <2>2. ASSUME NEW q \in reqs, TotalAnswer(q) PROVE FALSE
    BY <1>1, <2>2 DEF TotalAnswer
  <2>3. CASE "list" \notin masks
    <3>1. FindMessageList => masks' = masks \union {"panel"}
      BY DEF FindMessageList
    <3>2. PICK S : OpenRoom(S)
      BY <1>1, <2>3, <3>1, MasksFrom
    <3>3. \A b : \E q \in Send(Overtaken(S), "total", room, 0, b) : q.op = "total"
      BY SendHas
    <3> QED BY <3>2, <3>3, Zenon DEF OpenRoom
  <2> QED BY <2>1, <2>2, <2>3
<1>2. ASSUME "panel" \in masks' PROVE \E q \in reqs' : q.op = "find"
  <2>1. CASE "panel" \in masks /\ ~(\E q \in reqs : FindAnswer(q))
    <3>1. Some("find")
      BY <2>1 DEF MasksHaveOwners, Some
    <3>2. ASSUME NEW q \in reqs, q.op = "find" PROVE ~Answer(q)
      BY <2>1, <3>2 DEF Answer, UsersAnswer, OpenAnswer, NextAnswer, PrevAnswer, TotalAnswer
    <3> QED BY <3>1, <3>2, SomeStays
  <2>2. ASSUME NEW q \in reqs, FindAnswer(q) PROVE FALSE
    BY <1>2, <2>2 DEF FindAnswer
  <2>3. CASE "panel" \notin masks
    <3>1. ASSUME NEW S, OpenRoom(S) PROVE masks' = masks \union {"list"}
      BY <3>1 DEF OpenRoom
    <3>2. FindMessageList
      BY <1>2, <2>3, <3>1, MasksFrom
    <3>3. \A b : \E q \in Send(reqs, "find", room, 0, b) : q.op = "find"
      BY SendHas
    <3> QED BY <3>2, <3>3, Zenon DEF FindMessageList
  <2> QED BY <2>1, <2>2, <2>3
<1> QED BY <1>1, <1>2 DEF MasksHaveOwners

LEMMA DrawnStep == ASSUME RestOK, Drawn, Next PROVE Drawn'
<1>0. past \subseteq Mishaps /\ drawn \in [detail : BOOLEAN, prev : BOOLEAN]
  BY DEF RestOK
<1>1. \A M \in SUBSET Mishaps : "thrown" \in past \union M => "thrown" \in Noted(M)
  BY <1>0, NotedIs
<1>2. past' = past /\ drawn' = drawn /\ readDrawn' = readDrawn => Drawn'
  BY DEF Drawn
<1>3. ASSUME NEW q \in reqs, UsersAnswer(q) PROVE Drawn'
  BY <1>3 DEF UsersAnswer, Drawn
<1>4. ASSUME NEW q \in reqs, OpenAnswer(q) PROVE Drawn'
  <2>1. readDrawn' = drawn'.detail
    BY <1>4 DEF OpenAnswer
  <2>2. drawn' = [detail |-> TRUE, prev |-> TRUE] \/ (drawn' = drawn /\ past' = past)
    BY <1>4 DEF OpenAnswer
  <2> QED BY <2>1, <2>2 DEF Drawn
<1>5. ASSUME NEW q \in reqs, NextAnswer(q) PROVE Drawn'
  <2>1. ASSUME NEW g, AppendPage(q, g) PROVE Drawn'
    <3>1. PICK M \in SUBSET Mishaps : past' = Noted(M) /\ (TailThrows => "thrown" \in M)
      BY <1>0, <2>1, AppendPast, Zenon
    <3>2. drawn' = [drawn EXCEPT !.detail = ~TailThrows]
          /\ (TailThrows \/ readDrawn' = drawn'["detail"])
      BY <2>1, AppendCases
    <3>3. drawn'.detail = ~TailThrows /\ drawn'.prev = drawn.prev
      BY <1>0, <3>2
    <3> QED BY <1>1, <3>1, <3>2, <3>3 DEF Drawn
  <2>2. ASSUME Completed("detail"), drawn' = drawn \/ drawn' = [drawn EXCEPT !.detail = TRUE],
               NEW M \in SUBSET Mishaps, past' = Noted(M)
        PROVE  Drawn'
    <3>1. readDrawn' = drawn'.detail
      BY <2>2 DEF Completed
    <3>2. (drawn'.detail = drawn.detail \/ drawn'.detail) /\ drawn'.prev = drawn.prev
      BY <1>0, <2>2
    <3> QED BY <1>1, <2>2, <3>1, <3>2 DEF Drawn
  <2>3. OneIf("stray", q.stray) \in SUBSET Mishaps /\ {"failed"} \in SUBSET Mishaps
    BY DEF OneIf, Mishaps
  <2>4. \/ \E g : AppendPage(q, g)
        \/ /\ Completed("detail") /\ (drawn' = drawn \/ drawn' = [drawn EXCEPT !.detail = TRUE])
           /\ past' = Noted(OneIf("stray", q.stray)) \/ past' = Noted({"failed"})
    BY <1>5 DEF NextAnswer
  <2> QED BY <2>1, <2>2, <2>3, <2>4
<1>6. ASSUME NEW q \in reqs, PrevAnswer(q) PROVE Drawn'
  <2>1. ASSUME NEW g, PrependPage(q, g) PROVE Drawn'
    <3>1. PICK M \in SUBSET Mishaps : past' = Noted(M) /\ (FrontThrows => "thrown" \in M)
      BY <1>0, <2>1, PrependPast, Zenon
    <3>2. drawn' = [drawn EXCEPT !.prev = ~FrontThrows]
          /\ (FrontThrows \/ readDrawn' = drawn'["prev"])
      BY <2>1, PrependCases
    <3>3. drawn'.prev = ~FrontThrows /\ drawn'.detail = drawn.detail
      BY <1>0, <3>2
    <3> QED BY <1>1, <3>1, <3>2, <3>3 DEF Drawn
  <2>2. ASSUME Completed("prev"), drawn' = drawn \/ drawn' = [drawn EXCEPT !.prev = TRUE],
               NEW M \in SUBSET Mishaps, past' = Noted(M)
        PROVE  Drawn'
    <3>1. readDrawn' = drawn'.prev
      BY <2>2 DEF Completed
    <3>2. (drawn'.prev = drawn.prev \/ drawn'.prev) /\ drawn'.detail = drawn.detail
      BY <1>0, <2>2
    <3> QED BY <1>1, <2>2, <3>1, <3>2 DEF Drawn
  <2>3. OneIf("stray", q.stray) \in SUBSET Mishaps /\ {"failed"} \in SUBSET Mishaps
    BY DEF OneIf, Mishaps
  <2>4. \/ \E g : PrependPage(q, g)
        \/ /\ Completed("prev") /\ (drawn' = drawn \/ drawn' = [drawn EXCEPT !.prev = TRUE])
           /\ past' = Noted(OneIf("stray", q.stray)) \/ past' = Noted({"failed"})
    BY <1>6 DEF PrevAnswer
  <2> QED BY <2>1, <2>2, <2>3, <2>4
<1>7. ASSUME NEW q \in reqs, TotalAnswer(q) \/ FindAnswer(q) PROVE Drawn'
  BY <1>2, <1>7 DEF TotalAnswer, FindAnswer
<1>8. ASSUME NEW r \in Rooms, ClickPerson(r) PROVE Drawn'
  BY <1>2, <1>8 DEF ClickPerson
<1>9. ClickSelectUser \/ ClickNext \/ ClickPrev \/ FindMessageList => Drawn'
  BY <1>2 DEF ClickSelectUser, ClickNext, ClickPrev, FindMessageList
<1> QED BY <1>3, <1>4, <1>5, <1>6, <1>7, <1>8, <1>9 DEF Next, Answer

LEMMA NotedKeeps ==
    ASSUME past \subseteq Mishaps, NEW M \in SUBSET Mishaps, past' = Noted(M)
    PROVE  /\ past \intersect {"stray", "unopened"} # {} => past' \intersect {"stray", "unopened"} # {}
           /\ "stray" \in M => "stray" \in past'
           /\ "stray" \notin past' => "stray" \notin past /\ past' = past \union M
BY NotedIs

LEMMA OpeningStep == ASSUME ReqsOK, PagesOK, RestOK, Opening, Next PROVE Opening'
<1> DEFINE Here == \A i \in 1..Len(pages) : pages[i].room = room
           Bad == past \intersect {"stray", "unopened"} # {}
<1>0. past \subseteq Mishaps /\ (Bad \/ Here \/ Some("users"))
  BY DEF RestOK, Opening, Unless
<1>1. ASSUME Bad' \/ Here' \/ (\E t \in reqs' : t.op = "users") PROVE Opening'
  BY <1>1, Zenon DEF Opening, Unless, Some
<1>2. pages' = <<>> => Here'
  OBVIOUS
<1>3. Some("users") /\ (\A q \in reqs : ~UsersAnswer(q)) => \E t \in reqs' : t.op = "users"
  <2>1. ASSUME NEW q \in reqs, q.op = "users", Answer(q) PROVE UsersAnswer(q)
    BY <2>1 DEF Answer, TotalAnswer, OpenAnswer, NextAnswer, PrevAnswer, FindAnswer
  <2> QED BY <2>1, SomeStays
<1>4. ASSUME NEW q \in reqs, UsersAnswer(q) PROVE Opening'
  <2>1. pages' = <<>> \/ "unopened" \in past'
    BY <1>4 DEF UsersAnswer, OpenRoom, Cleared
  <2> QED BY <1>1, <1>2, <2>1
<1>5. ASSUME NEW r \in Rooms, ClickPerson(r) PROVE Opening'
  <2>1. \A b : \E q \in Send(Strayed(reqs, r, room), "users", r, 0, b) : q.op = "users"
    BY SendHas
  <2>2. \E t \in reqs' : t.op = "users"
    BY <1>5, <2>1, Zenon DEF ClickPerson, Strayed
  <2> QED BY <1>1, <2>2
<1>6. ASSUME pages' = pages, room' = room, past' = past \/ \E M \in SUBSET Mishaps : past' = Noted(M)
      PROVE  Opening'
  <2>1. Bad => Bad'
    BY <1>0, <1>6, NotedKeeps
  <2>2. Here => Here'
    BY <1>6
  <2> HIDE DEF Here, Bad
  <2> QED BY <1>0, <1>1, <1>3, <1>4, <2>1, <2>2
<1>7. ASSUME ClickSelectUser PROVE Opening'
  BY <1>1, <1>2, <1>7 DEF ClickSelectUser, OpenRoom, Cleared
<1>8. ASSUME ClickNext \/ ClickPrev \/ FindMessageList PROVE Opening'
  BY <1>6, <1>8 DEF ClickNext, ClickPrev, FindMessageList
<1>9. ASSUME NEW q \in reqs, TotalAnswer(q) \/ FindAnswer(q) PROVE Opening'
  BY <1>1, <1>2, <1>6, <1>9 DEF TotalAnswer, FindAnswer, Cleared
<1>10. ASSUME NEW q \in reqs, OpenAnswer(q) PROVE Opening'
  <2> DEFINE g == IF q.at = 0 THEN Newest(q.room) ELSE From(q.room, q.at)
             l == IF q.at = 0 THEN "div" ELSE LeadOfList2(g)
             p == Page(q.room, g, l)
  <2>1. \/ pages' = pages /\ past' = past
        \/ pages' = <<>>
        \/ ~IsEmpty(g) /\ pages' = <<p>> /\ past' = IF q.stray THEN {"stray"} ELSE {}
    BY <1>10, Zenon DEF OpenAnswer
  <2>2. room' = room
    BY <1>10 DEF OpenAnswer
  <2>3. ASSUME ~IsEmpty(g), pages' = <<p>>, ~q.stray PROVE Here'
    <3>1. p.room = q.room /\ q.room = room
      BY <2>3, OpenedIs DEF ReqsOK
    <3> HIDE DEF p
    <3>2. Len(pages') = 1 /\ pages'[1] = p
      BY <2>3
    <3> QED BY <2>2, <3>1, <3>2
  <2> HIDE DEF p, g
  <2> QED BY <1>1, <1>2, <1>6, <2>1, <2>2, <2>3
<1>11. ASSUME NEW q \in reqs, NextAnswer(q) PROVE Opening'
  <2>1. room' = room
    BY <1>11 DEF NextAnswer
  <2>2. ASSUME NEW g \in NextGroups(q), ~IsEmpty(g), AppendPage(q, g) PROVE Opening'
    <3>1. PICK M \in SUBSET Mishaps : past' = Noted(M) /\ (q.stray => "stray" \in M)
      BY <1>0, <2>2, AppendPast, Zenon
    <3>2. (Bad => Bad') /\ (q.stray => Bad')
      BY <1>0, <3>1, NotedKeeps
    <3>3. q.room \in Rooms /\ GroupOf(q.room, g) /\ (~q.stray => q.room = room)
      BY <2>2, NextGroupIs DEF ReqsOK
    <3> DEFINE p == Page(q.room, g, LeadOfList2(g))
    <3>4. /\ Gone \in Nat /\ Len(pages) \in Nat /\ Len(pages) >= Gone + Gone
          /\ \A i \in 1..Len(pages) - Gone : pages'[i].room = pages[i + Gone].room
          /\ \/ Len(pages') = Len(pages) - Gone
             \/ Len(pages') = Len(pages) - Gone + 1 /\ pages'[Len(pages) - Gone + 1] = p
      BY <2>2, <3>3, AppendShape
    <3>5. p.room = q.room
      BY DEF Page
    <3> HIDE DEF p
    <3>6. Here /\ ~q.stray => Here'
      <4> SUFFICES ASSUME Here, ~q.stray, NEW i \in 1..Len(pages') PROVE pages'[i].room = room
        BY <2>1
      <4>1. CASE i \in 1..Len(pages) - Gone
        <5>1. i + Gone \in 1..Len(pages)
          BY <3>4, <4>1
        <5> QED BY <3>4, <4>1, <5>1
      <4>2. CASE i \notin 1..Len(pages) - Gone
        <5>1. i = Len(pages) - Gone + 1 /\ pages'[i] = p
          BY <3>4, <4>2
        <5> QED BY <3>3, <3>5, <5>1
      <4> QED BY <4>1, <4>2
    <3> HIDE DEF Here, Bad
    <3> QED BY <1>0, <1>1, <1>3, <1>4, <3>2, <3>6
  <2>3. OneIf("stray", q.stray) \in SUBSET Mishaps /\ {"failed"} \in SUBSET Mishaps
    BY DEF OneIf, Mishaps
  <2>4. \/ \E g \in NextGroups(q) : ~IsEmpty(g) /\ AppendPage(q, g)
        \/ pages' = pages /\ (past' = Noted(OneIf("stray", q.stray)) \/ past' = Noted({"failed"}))
    BY <1>11 DEF NextAnswer
  <2> QED BY <1>6, <2>1, <2>2, <2>3, <2>4
<1>12. ASSUME NEW q \in reqs, PrevAnswer(q) PROVE Opening'
  <2>1. room' = room
    BY <1>12 DEF PrevAnswer
  <2>2. ASSUME NEW g \in PrevGroups(q), ~IsEmpty(g), PrependPage(q, g) PROVE Opening'
    <3>1. PICK M \in SUBSET Mishaps : past' = Noted(M) /\ (q.stray => "stray" \in M)
      BY <1>0, <2>2, PrependPast, Zenon
    <3>2. (Bad => Bad') /\ (q.stray => Bad')
      BY <1>0, <3>1, NotedKeeps
    <3>3. q.room \in Rooms /\ GroupOf(q.room, g) /\ (~q.stray => q.room = room)
      BY <2>2, PrevGroupIs DEF ReqsOK
    <3> DEFINE p == Page(q.room, g, "div")  n == Len(pages) - Gone
    <3>4. /\ Gone \in Nat /\ Len(pages) \in Nat /\ Len(pages) >= Gone + Gone
          /\ \/ /\ Len(pages') = Len(pages) - Gone
                /\ \A i \in 1..Len(pages) - Gone : pages'[i] = pages[i]
             \/ /\ Len(pages') = Len(pages) - Gone + 1 /\ pages'[1] = p
                /\ \A i \in 1..Len(pages) - Gone : pages'[i + 1].room = pages[i].room
      BY <2>2, <3>3, PrependShape
    <3>5. p.room = q.room
      BY DEF Page
    <3>6. n \in Nat /\ n <= Len(pages)
      BY <3>4
    <3> HIDE DEF p, n
    <3>7. \/ Len(pages') = n /\ \A i \in 1..n : pages'[i] = pages[i]
          \/ Len(pages') = n + 1 /\ pages'[1] = p /\ \A i \in 1..n : pages'[i + 1].room = pages[i].room
      BY <3>4 DEF n
    <3>8. Here /\ ~q.stray => Here'
      <4>1. CASE Len(pages') = n /\ \A i \in 1..n : pages'[i] = pages[i]
        BY <2>1, <3>4, <3>6, <4>1
      <4>2. CASE Len(pages') = n + 1 /\ pages'[1] = p /\ \A i \in 1..n : pages'[i + 1].room = pages[i].room
        <5> SUFFICES ASSUME Here, ~q.stray, NEW i \in 1..Len(pages') PROVE pages'[i].room = room
          BY <2>1
        <5>1. CASE i = 1
          BY <3>3, <3>5, <4>2, <5>1
        <5>2. CASE i # 1
          <6>1. i - 1 \in 1..n /\ (i - 1) + 1 = i /\ i - 1 \in 1..Len(pages)
            BY <3>4, <3>6, <4>2, <5>2
          <6> QED BY <4>2, <6>1
        <5> QED BY <5>1, <5>2
      <4> QED BY <3>7, <4>1, <4>2
    <3> HIDE DEF Here, Bad
    <3> QED BY <1>0, <1>1, <1>3, <1>4, <3>2, <3>8
  <2>3. OneIf("stray", q.stray) \in SUBSET Mishaps /\ {"failed"} \in SUBSET Mishaps
    BY DEF OneIf, Mishaps
  <2>4. \/ \E g \in PrevGroups(q) : ~IsEmpty(g) /\ PrependPage(q, g)
        \/ pages' = pages /\ (past' = Noted(OneIf("stray", q.stray)) \/ past' = Noted({"failed"}))
    BY <1>12 DEF PrevAnswer
  <2> QED BY <1>6, <2>1, <2>2, <2>3, <2>4
<1> QED BY <1>4, <1>5, <1>7, <1>8, <1>9, <1>10, <1>11, <1>12 DEF Next, Answer

-----------------------------------------------------------------------------
(* The pane. *)

Paging(t) == ~t.stray /\ t.op \in {"next", "prev"}

LEMMA PaneCleared ==
    ASSUME pages' = <<>>, \A t \in reqs' : ~Paging(t)
    PROVE  PaneOK'
<1>1. Len(pages') = 0 /\ Len(pages') - 1 = -1
  OBVIOUS
<1>2. SameRoom' /\ Joined'
  BY <1>1 DEF SameRoom, Joined, Unless
<1>3. NextAsked' /\ PrevAsked'
  BY DEF NextAsked, PrevAsked, Live, Paging
<1>4. Headed' /\ NewestOK' /\ OldestOK' /\ NoNextOK' /\ NoPrevOK'
  BY DEF Headed, NewestOK, OldestOK, NoNextOK, NoPrevOK
<1> QED BY <1>2, <1>3, <1>4 DEF PaneOK

(* A step that leaves the pane alone. *)
LEMMA PaneStays ==
    ASSUME PaneOK, pages' = pages, texts' = texts, nextShown' = nextShown, prevShown' = prevShown,
           past \subseteq past', \A t \in reqs' : Paging(t) => t \in reqs,
           Some("next") => "failed" \in past' \/ \E t \in reqs' : t.op = "next",
           Some("prev") => "failed" \in past' \/ \E t \in reqs' : t.op = "prev"
    PROVE  PaneOK'
<1>1. Top' = Top /\ Bottom' = Bottom /\ FirstMessage' = FirstMessage /\ LastMessage' = LastMessage
  BY DEF Top, Bottom, FirstMessage, LastMessage
<1>2. \A t \in reqs' : /\ ~t.stray /\ t.op = "next" => t \in Live("next")
                       /\ ~t.stray /\ t.op = "prev" => t \in Live("prev")
  BY DEF Live, Paging
<1>3. SameRoom' /\ Headed'
  BY <1>1 DEF PaneOK, SameRoom, Headed
<1>4. Joined'
  BY DEF PaneOK, Joined, Unless
<1>5. NextAsked'
  BY <1>1, <1>2 DEF PaneOK, NextAsked, Live
<1>6. PrevAsked'
  BY <1>1, <1>2 DEF PaneOK, PrevAsked, Live
<1>7. NewestOK'
  BY <1>1 DEF PaneOK, NewestOK, Unless, Some
<1>8. OldestOK'
  BY <1>1 DEF PaneOK, OldestOK, Unless, Some
<1>9. NoNextOK' /\ NoPrevOK'
  BY <1>1 DEF PaneOK, NoNextOK, NoPrevOK, Unless
<1> QED BY <1>3, <1>4, <1>5, <1>6, <1>7, <1>8, <1>9 DEF PaneOK

(* A newest page, or the one a search led to. *)
LEMMA PaneOpened ==
    ASSUME NEW p, Sound(p), p.lead # "date", pages' = <<p>>, texts' = {},
           nextShown' = TRUE, prevShown' = TRUE, \A t \in reqs' : ~Paging(t)
    PROVE  PaneOK'
<1>1. Len(pages') = 1 /\ pages'[1] = p /\ Top' = p /\ pages' # <<>>
  BY DEF Top
<1>2. FirstMessage' = p.lo
  BY <1>1 DEF FirstMessage
<1>3. SameRoom' /\ Joined'
  BY <1>1 DEF SameRoom, Joined, Unless, Top
<1>4. NextAsked' /\ PrevAsked'
  BY DEF NextAsked, PrevAsked, Live, Paging
<1>5. Headed' /\ NewestOK' /\ OldestOK' /\ NoNextOK' /\ NoPrevOK'
  BY <1>1, <1>2 DEF Headed, NewestOK, OldestOK, NoNextOK, NoPrevOK, Unless
<1> QED BY <1>3, <1>4, <1>5 DEF PaneOK

LEMMA PaneClickNext == ASSUME ReqsOK, PagesOK, RestOK, PaneOK, ClickNext PROVE PaneOK'
<1>1. /\ nextShown /\ nextShown' = FALSE /\ prevShown' = prevShown
      /\ pages' = pages /\ texts' = texts /\ past' = past
  BY DEF ClickNext
<1>2. reqs' = Send(reqs, "next", room, LastMessage, Astray)
  BY DEF ClickNext
<1>3. Top' = Top /\ Bottom' = Bottom /\ FirstMessage' = FirstMessage /\ LastMessage' = LastMessage
  BY <1>1 DEF Top, Bottom, FirstMessage, LastMessage
<1>4. Live("next") = {}
  BY <1>1 DEF PaneOK, NextAsked
<1>5. reqs \subseteq reqs'
      /\ \A t \in reqs' : t \in reqs \/ (t.op = "next" /\ t.room = room /\ t.at = LastMessage /\ t.stray = Astray)
  BY <1>2, SendHas
<1>6. \E t \in reqs' : t.op = "next"
  BY <1>2, SendHas
<1>7. reqs' = reqs \union {[op |-> "next", room |-> room, at |-> LastMessage, stray |-> Astray]}
  BY <1>2 DEF Send
<1>8. SameRoom' /\ Headed'
  BY <1>1, <1>3 DEF PaneOK, SameRoom, Headed
<1>9. Joined'
  BY <1>1 DEF PaneOK, Joined, Unless
<1>10. NextAsked'
  <2> DEFINE n == [op |-> "next", room |-> room, at |-> LastMessage, stray |-> Astray]
  <2>1. n.op = "next" /\ n.room = room /\ n.at = LastMessage /\ n.stray = Astray
    OBVIOUS
  <2>2. reqs' = reqs \union {n}
    BY <1>7
  <2> HIDE DEF n
  <2>3. \A t \in reqs' : t.op = "next" /\ ~t.stray => t = n
    BY <1>4, <2>2 DEF Live
  <2>4. ~Astray => pages # <<>> /\ room = Top.room
    BY DEF Astray, PaneOK, SameRoom
  <2> QED BY <1>1, <1>3, <2>1, <2>3, <2>4 DEF NextAsked, Live
<1>11. PrevAsked'
  <2>1. \A t \in reqs' : t.op = "prev" => t \in reqs
    BY <1>5
  <2> QED BY <1>1, <1>3, <2>1 DEF PaneOK, PrevAsked, Live
<1>12. NewestOK'
  BY <1>6 DEF NewestOK, Unless, Some
<1>13. OldestOK'
  BY <1>1, <1>3, <1>5 DEF PaneOK, OldestOK, Unless, Some
<1>14. NoNextOK' /\ NoPrevOK'
  BY <1>1, <1>3 DEF PaneOK, NoNextOK, NoPrevOK, Unless
<1> QED BY <1>8, <1>9, <1>10, <1>11, <1>12, <1>13, <1>14 DEF PaneOK

LEMMA PaneClickPrev == ASSUME ReqsOK, PagesOK, RestOK, PaneOK, ClickPrev PROVE PaneOK'
<1>1. /\ prevShown /\ prevShown' = FALSE /\ nextShown' = nextShown
      /\ pages' = pages /\ texts' = texts /\ past' = past
  BY DEF ClickPrev
<1>2. reqs' = Send(reqs, "prev", room, FirstMessage, Astray)
  BY DEF ClickPrev
<1>3. Top' = Top /\ Bottom' = Bottom /\ FirstMessage' = FirstMessage /\ LastMessage' = LastMessage
  BY <1>1 DEF Top, Bottom, FirstMessage, LastMessage
<1>4. Live("prev") = {}
  BY <1>1 DEF PaneOK, PrevAsked
<1>5. reqs \subseteq reqs'
      /\ \A t \in reqs' : t \in reqs \/ (t.op = "prev" /\ t.room = room /\ t.at = FirstMessage /\ t.stray = Astray)
  BY <1>2, SendHas
<1>6. \E t \in reqs' : t.op = "prev"
  BY <1>2, SendHas
<1>7. reqs' = reqs \union {[op |-> "prev", room |-> room, at |-> FirstMessage, stray |-> Astray]}
  BY <1>2 DEF Send
<1>8. SameRoom' /\ Headed'
  BY <1>1, <1>3 DEF PaneOK, SameRoom, Headed
<1>9. Joined'
  BY <1>1 DEF PaneOK, Joined, Unless
<1>10. PrevAsked'
  <2> DEFINE n == [op |-> "prev", room |-> room, at |-> FirstMessage, stray |-> Astray]
  <2>1. n.op = "prev" /\ n.room = room /\ n.at = FirstMessage /\ n.stray = Astray
    OBVIOUS
  <2>2. reqs' = reqs \union {n}
    BY <1>7
  <2> HIDE DEF n
  <2>3. \A t \in reqs' : t.op = "prev" /\ ~t.stray => t = n
    BY <1>4, <2>2 DEF Live
  <2>4. ~Astray => pages # <<>> /\ room = Top.room
    BY DEF Astray, PaneOK, SameRoom
  <2> QED BY <1>1, <1>3, <2>1, <2>3, <2>4 DEF PrevAsked, Live
<1>11. NextAsked'
  <2>1. \A t \in reqs' : t.op = "next" => t \in reqs
    BY <1>5
  <2> QED BY <1>1, <1>3, <2>1 DEF PaneOK, NextAsked, Live
<1>12. OldestOK'
  BY <1>6 DEF OldestOK, Unless, Some
<1>13. NewestOK'
  BY <1>1, <1>3, <1>5 DEF PaneOK, NewestOK, Unless, Some
<1>14. NoNextOK' /\ NoPrevOK'
  BY <1>1, <1>3 DEF PaneOK, NoNextOK, NoPrevOK, Unless
<1> QED BY <1>8, <1>9, <1>10, <1>11, <1>12, <1>13, <1>14 DEF PaneOK

LEMMA PaneAppend ==
    ASSUME ReqsOK, PagesOK, RestOK, PaneOK, NEW q \in Live("next"), NEW g \in NextGroups(q),
           ~IsEmpty(g), AppendPage(q, g), texts' = texts, prevShown' = prevShown,
           reqs' = reqs \ {q}, "stray" \notin past'
    PROVE  PaneOK'
<1> DEFINE n == Len(pages) - Gone
           p == Page(q.room, g, LeadOfList2(g))
           counted == q.at = LastMessage
<1>0. q \in reqs /\ q.op = "next" /\ q.room \in Rooms /\ GroupOf(q.room, g)
  BY NextGroupIs DEF Live, ReqsOK
<1>1. pages # <<>> /\ q.room = Top.room /\ ~nextShown /\ (counted \/ {"crossed", "cut"} \subseteq past)
      /\ \A t \in Live("next") : t = q
  BY DEF PaneOK, NextAsked
<1>2. /\ past \subseteq past' /\ (TailThrows => "thrown" \in past') /\ (Full => "headless" \in past')
      /\ Full /\ Live("prev") # {} => "crossed" \in past'
  <2>1. past \subseteq Mishaps
    BY DEF RestOK
  <2>2. PICK M \in SUBSET Mishaps :
              /\ past' = Noted(M)
              /\ q.stray => "stray" \in M
              /\ TailThrows => "thrown" \in M
              /\ Full => "headless" \in M /\ (Live("prev") # {} => "crossed" \in M)
    BY <1>0, <2>1, AppendPast
  <2>3. past' = past \union M
    BY <2>1, <2>2, NotedKeeps
  <2> QED BY <2>2, <2>3
<1>3. p.room = q.room /\ p.lo = g.lo /\ p.hi = g.hi
  BY DEF Page
<1>4. /\ Gone \in Nat /\ Len(pages) \in Nat /\ pages' \in Seq(PageRec)
      /\ \A i \in 1..Len(pages) - Gone : /\ pages'[i].room = pages[i + Gone].room
                                         /\ pages'[i].lo = pages[i + Gone].lo
                                         /\ pages'[i].hi = pages[i + Gone].hi
      /\ ~Full => \A i \in 1..Len(pages) : pages'[i] = pages[i]
  BY <1>0, AppendShape
<1>5. \/ TailThrows /\ Len(pages') = n
      \/ ~TailThrows /\ Len(pages') = n + 1 /\ pages'[n + 1] = p
  BY <1>0, AppendShape
<1>6. n \in Nat /\ n >= 1 /\ (~Full => n = Len(pages) /\ Gone = 0)
  BY <1>1, <1>4, FullIs DEF Gone
<1>7. \A i \in 1..n : i + Gone \in 1..Len(pages)
  BY <1>4
<1>8. n + Gone = Len(pages)
  BY <1>4
<1>9. /\ counted => g = After(q.room, q.at) /\ g.lo = Bottom.hi + 1
      /\ counted /\ ~IsFull(g) => g.hi = Length[q.room]
      /\ Bottom.hi \in Nat /\ Bottom.hi <= Length[q.room] /\ Bottom.room = q.room
      /\ g.lo <= g.hi /\ g.lo \in Nat /\ g.hi \in Int /\ g.hi <= Length[q.room]
  <2>1. LastMessage = Bottom.hi /\ LastMessage # 0 /\ Sound(Bottom) /\ Len(pages) >= 1
    BY <1>1, EndsAre
  <2>2. Bottom.room = Top.room
    BY <1>4, <2>1 DEF PaneOK, SameRoom, Bottom
  <2>3. Bottom.hi \in Nat /\ Bottom.hi <= Length[q.room]
    BY <1>1, <2>1, <2>2 DEF Sound, PageRec
  <2>4. q.at \in Nat
    BY <1>0 DEF ReqsOK, Requests
  <2>5. counted => g = After(q.room, q.at)
    BY <1>0, <2>1, NextGroupIs
  <2>6. counted => g.lo = Bottom.hi + 1 /\ (~IsFull(g) => g.hi = Length[q.room])
    BY <1>0, <2>1, <2>4, <2>5, AfterIs
  <2>7. g.lo <= g.hi /\ g.lo \in Nat /\ g.hi \in Int /\ g.hi <= Length[q.room]
    BY <1>0 DEF GroupOf, IsEmpty
  <2> QED BY <1>1, <2>2, <2>3, <2>5, <2>6, <2>7
<1> HIDE DEF n, p, counted
<1>10. pages' # <<>> /\ Top' = pages'[1] /\ Top'.room = Top.room /\ (~Full => Top' = Top)
  <2>1. Len(pages') >= 1
    BY <1>5, <1>6
  <2>2. pages'[1].room = pages[1 + Gone].room /\ 1 + Gone \in 1..Len(pages)
    BY <1>4, <1>6, <1>7 DEF n
  <2>3. pages[1 + Gone].room = Top.room
    BY <2>2 DEF PaneOK, SameRoom
  <2>4. ~Full => pages'[1] = pages[1]
    BY <1>4, <1>6
  <2> QED BY <2>1, <2>2, <2>3, <2>4 DEF Top
<1>11. SameRoom'
  <2>1. ASSUME NEW i \in 1..n PROVE pages'[i].room = Top.room
    <3>1. pages'[i].room = pages[i + Gone].room
      BY <1>4 DEF n
    <3> QED BY <1>7, <3>1 DEF PaneOK, SameRoom
  <2>2. ASSUME NEW i \in 1..Len(pages') PROVE pages'[i].room = Top.room
    <3>1. i \in 1..n \/ pages'[i] = p
      BY <1>5, <1>6
    <3> QED BY <1>1, <1>3, <2>1, <3>1
  <2> QED BY <1>10, <2>2 DEF SameRoom
<1>12. NextAsked'
  <2>1. Live("next")' = {}
    BY <1>1 DEF Live
  <2> QED BY <2>1 DEF NextAsked
<1>13. PrevAsked'
  <2>1. Live("prev")' = Live("prev")
    BY <1>0 DEF Live
  <2>2. ~Full => FirstMessage' = FirstMessage
    BY <1>1, <1>10 DEF FirstMessage
  <2> QED BY <1>2, <1>10, <2>1, <2>2 DEF PaneOK, PrevAsked
<1>14. Headed'
  BY <1>1, <1>2, <1>10 DEF PaneOK, Headed
<1>15. Joined'
  <2> SUFFICES ASSUME past' \intersect {"crossed", "eaten"} = {}, NEW i \in 1..Len(pages') - 1
               PROVE  pages'[i + 1].lo = pages'[i].hi + 1
    BY DEF Joined, Unless
  <2>1. counted /\ \A j \in 1..Len(pages) - 1 : pages[j + 1].lo = pages[j].hi + 1
    BY <1>1, <1>2 DEF PaneOK, Joined, Unless
  <2>2. CASE i \in 1..n - 1
    <3>1. i \in 1..n /\ i + 1 \in 1..n /\ i + Gone \in 1..Len(pages) - 1
      BY <1>4, <1>6, <1>8, <2>2
    <3>2. pages'[i + 1].lo = pages[(i + 1) + Gone].lo /\ pages'[i].hi = pages[i + Gone].hi
      BY <1>4, <3>1 DEF n
    <3>3. (i + 1) + Gone = (i + Gone) + 1
      BY <1>4, <1>6, <2>2
    <3> QED BY <2>1, <3>1, <3>2, <3>3
  <2>3. CASE i \notin 1..n - 1
    <3>1. i = n /\ pages'[n + 1] = p
      BY <1>5, <1>6, <2>3
    <3>2. pages'[n].hi = pages[n + Gone].hi
      BY <1>4, <1>6 DEF n
    <3>3. pages'[n].hi = Bottom.hi
      BY <1>8, <3>2 DEF Bottom
    <3> QED BY <1>3, <1>9, <2>1, <3>1, <3>3
  <2> QED BY <2>2, <2>3
<1>16. ~TailThrows => Bottom' = p
  BY <1>5 DEF Bottom
<1>17. nextShown' = (nextShown \/ IsFull(g))
  BY AppendCases
<1>18. NewestOK'
  BY <1>1, <1>2, <1>3, <1>9, <1>16, <1>17 DEF NewestOK, Unless, counted
<1>19. OldestOK'
  <2>1. ~Full => FirstMessage' = FirstMessage
    BY <1>1, <1>10 DEF FirstMessage
  <2>2. Some("prev") => \E t \in reqs' : t.op = "prev"
    BY <1>0 DEF Some
  <2> QED BY <1>1, <1>2, <1>10, <2>1, <2>2 DEF PaneOK, OldestOK, Unless, Some
<1>20. NoNextOK'
  <2>1. "noNext" \in texts /\ "cut" \notin past => Bottom.hi = Length[q.room]
    BY <1>1, <1>9 DEF PaneOK, NoNextOK, Unless
  <2>2. counted /\ Bottom.hi = Length[q.room] => FALSE
    BY <1>9
  <2> QED BY <1>1, <1>2, <2>1, <2>2 DEF NoNextOK, Unless
<1>21. NoPrevOK'
  BY <1>1, <1>2, <1>10 DEF PaneOK, NoPrevOK, Unless
<1> QED BY <1>11, <1>12, <1>13, <1>14, <1>15, <1>18, <1>19, <1>20, <1>21 DEF PaneOK

LEMMA PaneNoNext ==
    ASSUME ReqsOK, PagesOK, RestOK, PaneOK, NEW q \in Live("next"), NEW g \in NextGroups(q),
           IsEmpty(g), pages' = pages, texts' = texts \union {"noNext"}, nextShown' = FALSE,
           prevShown' = prevShown, past \subseteq past', reqs' = reqs \ {q}
    PROVE  PaneOK'
<1>0. q \in reqs /\ q.op = "next" /\ q.room \in Rooms /\ q.at \in Nat
  BY DEF Live, ReqsOK, Requests
<1>1. /\ pages # <<>> /\ q.room = Top.room /\ ~nextShown /\ \A t \in Live("next") : t = q
      /\ q.at = LastMessage \/ "cut" \in past
  BY DEF PaneOK, NextAsked
<1>2. Top' = Top /\ Bottom' = Bottom /\ FirstMessage' = FirstMessage /\ LastMessage' = LastMessage
  BY DEF Top, Bottom, FirstMessage, LastMessage
<1>3. q.at = LastMessage => Bottom.hi = Length[Bottom.room]
  <2>1. LastMessage = Bottom.hi /\ LastMessage # 0 /\ Sound(Bottom) /\ Len(pages) \in Nat /\ Len(pages) >= 1
    BY <1>1, EndsAre
  <2>2. Bottom.room = Top.room
    BY <2>1 DEF PaneOK, SameRoom, Bottom
  <2>3. q.at = LastMessage => Length[q.room] <= q.at
    BY <1>0, <2>1, NextGroupIs, AfterIs
  <2>4. Bottom.hi \in Nat /\ Bottom.hi <= Length[Bottom.room] /\ Length[q.room] \in Nat
    BY <1>0, <2>1, Sizes DEF Sound, PageRec
  <2> QED BY <1>1, <2>1, <2>2, <2>3, <2>4
<1>4. Live("next")' = {} /\ Live("prev")' = Live("prev")
  BY <1>0, <1>1 DEF Live
<1>5. SameRoom' /\ Headed'
  BY <1>2 DEF PaneOK, SameRoom, Headed
<1>6. Joined'
  BY DEF PaneOK, Joined, Unless
<1>7. NextAsked' /\ PrevAsked'
  BY <1>2, <1>4 DEF PaneOK, NextAsked, PrevAsked
<1>8. NewestOK' /\ NoNextOK'
  BY <1>1, <1>2, <1>3 DEF NewestOK, NoNextOK, Unless
<1>9. OldestOK'
  <2>1. Some("prev") => \E t \in reqs' : t.op = "prev"
    BY <1>0 DEF Some
  <2> QED BY <1>2, <2>1 DEF PaneOK, OldestOK, Unless, Some
<1>10. NoPrevOK'
  BY <1>2 DEF PaneOK, NoPrevOK, Unless
<1> QED BY <1>5, <1>6, <1>7, <1>8, <1>9, <1>10 DEF PaneOK

LEMMA PanePrepend ==
    ASSUME ReqsOK, PagesOK, RestOK, PaneOK, NEW q \in Live("prev"), NEW g \in PrevGroups(q),
           ~IsEmpty(g), PrependPage(q, g), texts' = texts, nextShown' = nextShown,
           reqs' = reqs \ {q}, "stray" \notin past'
    PROVE  PaneOK'
<1> DEFINE n == Len(pages) - Gone
           p == Page(q.room, g, "div")
           counted == q.at = FirstMessage
           joined == pages'[2].lo = Top.lo
<1>0. q \in reqs /\ q.op = "prev" /\ q.room \in Rooms /\ GroupOf(q.room, g)
  BY PrevGroupIs DEF Live, ReqsOK
<1>1. /\ pages # <<>> /\ q.room = Top.room /\ ~prevShown
      /\ counted \/ {"crossed", "headless"} \subseteq past
      /\ \A t \in Live("prev") : t = q
  BY DEF PaneOK, PrevAsked
<1>2. PICK M \in SUBSET Mishaps :
              /\ past' = Noted(M)
              /\ q.stray => "stray" \in M
              /\ FrontThrows => "thrown" \in M
              /\ /\ ~FrontThrows /\ Day(g.hi) = Day(Cut(Front(pages))[1].lo)
                 /\ Cut(Front(pages))[1].lead = "msg"
                 => "eaten" \in M
              /\ Full /\ ~nextShown => "cut" \in M
              /\ Full /\ Live("next") # {} => "crossed" \in M
  BY <1>0, PrependPast DEF RestOK
<1>3. past' = past \union M
  BY <1>2, NotedKeeps DEF RestOK
<1>4. p.room = q.room /\ p.lo = g.lo /\ p.hi = g.hi /\ p.lead = "div"
  BY DEF Page
<1>5. Gone \in Nat /\ Len(pages) \in Nat /\ pages' \in Seq(PageRec)
  BY <1>0, PrependShape
<1>6. \/ /\ FrontThrows /\ Len(pages') = n
         /\ \A i \in 1..n : pages'[i] = pages[i]
      \/ /\ ~FrontThrows /\ Len(pages') = n + 1
         /\ Top.lead # "date" /\ pages'[1] = p
         /\ \A i \in 1..n : pages'[i + 1].room = pages[i].room /\ pages'[i + 1].hi = pages[i].hi
         /\ \A i \in 2..n : pages'[i + 1].lo = pages[i].lo
         /\ joined \/ "eaten" \in past'
  BY <1>0, <1>2, <1>3, PrependShape
<1>7. n \in Nat /\ n >= 1 /\ n <= Len(pages) /\ (~Full => n = Len(pages))
  BY <1>1, <1>5, FullIs DEF Gone
<1>8. /\ g.lo <= g.hi /\ g.lo \in Nat /\ g.hi \in Int /\ g.hi <= Length[q.room]
      /\ Top.lo \in Nat /\ 1 <= Top.lo
      /\ counted /\ Top.lead # "date" =>
            /\ q.at = Top.lo /\ g.hi = Top.lo - 1 /\ Top.lo # 1 /\ (~IsFull(g) => g.lo = 1)
  <2>1. Sound(Top) /\ (Top.lead # "date" => FirstMessage = Top.lo /\ FirstMessage # 0)
    BY <1>1, EndsAre
  <2>2. Top.lo \in Nat /\ 1 <= Top.lo /\ Top.lo <= Length[q.room]
    <3>1. Top.lo \in Nat /\ Top.hi \in Nat /\ 1 <= Top.lo /\ Top.lo <= Top.hi /\ Top.hi <= Length[q.room]
      BY <1>1, <2>1 DEF Sound, PageRec
    <3>2. Length[q.room] \in Nat
      BY <1>0, Sizes
    <3> QED BY <3>1, <3>2
  <2>3. g.lo <= g.hi /\ g.lo \in Nat /\ g.hi \in Int /\ g.hi <= Length[q.room]
    BY <1>0 DEF GroupOf, IsEmpty
  <2>4. ASSUME counted, Top.lead # "date"
        PROVE  /\ q.at = Top.lo /\ g.hi = Top.lo - 1 /\ Top.lo # 1
               /\ ~IsFull(g) => g.lo = 1
    <3>1. q.at = Top.lo /\ q.at # 0 /\ q.at \in Nat /\ q.at <= Length[q.room]
      BY <2>1, <2>2, <2>4
    <3>2. g = Before(q.room, q.at)
      BY <1>0, <3>1, PrevGroupIs
    <3>3. g.hi = q.at - 1 /\ (~IsFull(g) => g.lo = 1)
      BY <1>0, <3>1, <3>2, BeforeIs
    <3>4. g.lo >= 1
      BY <1>0 DEF GroupOf
    <3> QED BY <2>2, <2>3, <3>1, <3>3, <3>4
  <2> QED BY <2>2, <2>3, <2>4
<1> HIDE DEF n, p, counted, joined
<1>9. /\ pages' # <<>> /\ Top'.room = Top.room
      /\ FrontThrows => Top' = Top
      /\ ~FrontThrows => Top' = p
  <2>1. Len(pages') >= 1
    BY <1>6, <1>7
  <2>2. Top' = pages'[1] /\ Top = pages[1]
    BY DEF Top
  <2> QED BY <1>1, <1>4, <1>6, <1>7, <2>1, <2>2
<1>10. SameRoom'
  <2>1. \A i \in 1..n : pages[i].room = Top.room
    BY <1>5, <1>7 DEF PaneOK, SameRoom
  <2>2. CASE FrontThrows
    BY <1>6, <1>9, <2>1, <2>2 DEF SameRoom
  <2>3. CASE ~FrontThrows
    <3>1. ASSUME NEW i \in 1..Len(pages') PROVE pages'[i].room = Top.room
      <4>1. CASE i = 1
        BY <1>1, <1>4, <1>6, <2>3, <4>1
      <4>2. CASE i # 1
        <5>1. i - 1 \in 1..n /\ (i - 1) + 1 = i
          BY <1>6, <1>7, <2>3, <4>2
        <5> QED BY <1>6, <2>1, <2>3, <5>1
      <4> QED BY <4>1, <4>2
    <3> QED BY <1>9, <3>1 DEF SameRoom
  <2> QED BY <2>2, <2>3
<1>11. ~Full => /\ Bottom'.hi = Bottom.hi /\ Bottom'.room = Bottom.room
                /\ LastMessage' = LastMessage
  <2> SUFFICES ASSUME ~Full PROVE Bottom'.hi = Bottom.hi /\ Bottom'.room = Bottom.room
    BY <1>1, <1>9 DEF LastMessage
  <2>1. CASE FrontThrows
    BY <1>6, <1>7, <2>1 DEF Bottom
  <2>2. CASE ~FrontThrows
    <3>1. pages'[n + 1].hi = pages[n].hi /\ pages'[n + 1].room = pages[n].room
      BY <1>6, <1>7, <2>2
    <3>2. Len(pages') = n + 1 /\ Len(pages) = n
      BY <1>6, <1>7, <2>2
    <3> QED BY <3>1, <3>2 DEF Bottom
  <2> QED BY <2>1, <2>2
<1>12. PrevAsked'
  <2>1. Live("prev")' = {}
    BY <1>1 DEF Live
  <2> QED BY <2>1 DEF PrevAsked
<1>13. NextAsked'
  <2>1. Live("next")' = Live("next")
    BY <1>0 DEF Live
  <2>2. \A t \in Live("next") : ~nextShown
    BY DEF PaneOK, NextAsked
  <2>3. Full /\ Live("next") # {} => {"crossed", "cut"} \subseteq past'
    BY <1>2, <1>3, <2>2
  <2> QED BY <1>3, <1>9, <1>11, <2>1, <2>3 DEF PaneOK, NextAsked
<1>14. Headed'
  BY <1>1, <1>3, <1>4, <1>9 DEF PaneOK, Headed
<1>15. Joined'
  <2> SUFFICES ASSUME past' \intersect {"crossed", "eaten"} = {}, NEW i \in 1..Len(pages') - 1
               PROVE  pages'[i + 1].lo = pages'[i].hi + 1
    BY DEF Joined, Unless
  <2>1. counted /\ \A j \in 1..Len(pages) - 1 : pages[j + 1].lo = pages[j].hi + 1
    BY <1>1, <1>3 DEF PaneOK, Joined, Unless
  <2>2. CASE FrontThrows
    <3>1. i \in 1..n /\ i + 1 \in 1..n /\ i \in 1..Len(pages) - 1
      BY <1>5, <1>6, <1>7, <2>2
    <3> QED BY <1>6, <2>1, <2>2, <3>1
  <2>3. CASE ~FrontThrows /\ i = 1
    <3>1. pages'[2].lo = Top.lo /\ pages'[1] = p /\ Top.lead # "date"
      BY <1>6, <2>3 DEF joined
    <3>2. p.hi = Top.lo - 1
      BY <1>4, <1>8, <2>1, <3>1
    <3> QED BY <1>8, <2>3, <3>1, <3>2
  <2>4. CASE ~FrontThrows /\ i # 1
    <3> DEFINE j == i - 1
    <3>1. j \in 1..n /\ j + 1 \in 2..n /\ j \in 1..Len(pages) - 1 /\ i = j + 1
      BY <1>5, <1>6, <1>7, <2>4
    <3> HIDE DEF j
    <3>2. pages'[(j + 1) + 1].lo = pages[j + 1].lo
      BY <1>6, <2>4, <3>1
    <3>3. pages'[j + 1].hi = pages[j].hi
      BY <1>6, <2>4, <3>1
    <3> QED BY <2>1, <3>1, <3>2, <3>3
  <2> QED BY <2>2, <2>3, <2>4
<1>16. prevShown' = IsFull(g)
  BY PrependCases
<1>17. NewestOK'
  <2>1. Some("next") => \E t \in reqs' : t.op = "next"
    BY <1>0 DEF Some
  <2> QED BY <1>1, <1>2, <1>3, <1>11, <2>1 DEF PaneOK, NewestOK, Unless, Some
<1>18. OldestOK'
  <2>1. CASE FrontThrows
    BY <1>2, <1>3, <2>1 DEF OldestOK, Unless
  <2>2. CASE ~FrontThrows
    <3>1. Top' = p /\ FirstMessage' = p.lo
      BY <1>4, <1>9, <2>2 DEF FirstMessage
    <3>2. counted \/ "headless" \in past'
      BY <1>1, <1>3
    <3>3. counted /\ ~IsFull(g) => p.lo = 1
      BY <1>4, <1>6, <1>8, <2>2
    <3> QED BY <1>16, <3>1, <3>2, <3>3 DEF OldestOK, Unless
  <2> QED BY <2>1, <2>2
<1>19. NoNextOK'
  BY <1>1, <1>2, <1>3, <1>11 DEF PaneOK, NoNextOK, Unless
<1>20. NoPrevOK'
  <2>1. "noPrev" \in texts /\ "headless" \notin past => FALSE
    <3> SUFFICES ASSUME "noPrev" \in texts, "headless" \notin past PROVE FALSE
      OBVIOUS
    <3>1. Top.lo = 1 /\ Top.lead # "date" /\ counted
      BY <1>1 DEF PaneOK, NoPrevOK, Headed, Unless
    <3> QED BY <1>8, <3>1
  <2> QED BY <1>3, <2>1 DEF NoPrevOK, Unless
<1> QED BY <1>10, <1>12, <1>13, <1>14, <1>15, <1>17, <1>18, <1>19, <1>20 DEF PaneOK

LEMMA PaneNoPrev ==
    ASSUME ReqsOK, PagesOK, RestOK, PaneOK, NEW q \in Live("prev"), NEW g \in PrevGroups(q),
           IsEmpty(g), pages' = pages, texts' = texts \union {"noPrev"}, prevShown' = FALSE,
           nextShown' = nextShown, past \subseteq past', reqs' = reqs \ {q}
    PROVE  PaneOK'
<1>0. q \in reqs /\ q.op = "prev" /\ q.room \in Rooms /\ q.at \in Nat
  BY DEF Live, ReqsOK, Requests
<1>1. /\ pages # <<>> /\ q.room = Top.room /\ ~prevShown /\ \A t \in Live("prev") : t = q
      /\ q.at = FirstMessage \/ "headless" \in past
  BY DEF PaneOK, PrevAsked
<1>2. Top' = Top /\ Bottom' = Bottom /\ FirstMessage' = FirstMessage /\ LastMessage' = LastMessage
  BY DEF Top, Bottom, FirstMessage, LastMessage
<1>3. Top.lo = 1 \/ "headless" \in past
  <2> SUFFICES ASSUME "headless" \notin past PROVE Top.lo = 1
    OBVIOUS
  <2>1. q.at = FirstMessage /\ Top.lead # "date"
    BY <1>1 DEF PaneOK, Headed
  <2>2. FirstMessage = Top.lo /\ FirstMessage # 0 /\ Sound(Top)
    BY <1>1, <2>1, EndsAre
  <2>3. Top.lo \in Nat /\ Top.lo <= Length[q.room]
    <3>1. Top.lo \in Nat /\ Top.hi \in Nat /\ Top.lo <= Top.hi /\ Top.hi <= Length[q.room]
      BY <1>1, <2>2 DEF Sound, PageRec
    <3>2. Length[q.room] \in Nat
      BY <1>0, Sizes
    <3> QED BY <3>1, <3>2
  <2> QED BY <1>0, <2>1, <2>2, <2>3, PrevGroupIs, BeforeIs
<1>4. Live("prev")' = {} /\ Live("next")' = Live("next")
  BY <1>0, <1>1 DEF Live
<1>5. SameRoom' /\ Headed'
  BY <1>2 DEF PaneOK, SameRoom, Headed
<1>6. Joined'
  BY DEF PaneOK, Joined, Unless
<1>7. NextAsked' /\ PrevAsked'
  BY <1>2, <1>4 DEF PaneOK, NextAsked, PrevAsked
<1>8. OldestOK' /\ NoPrevOK'
  BY <1>1, <1>2, <1>3 DEF OldestOK, NoPrevOK, Unless
<1>9. NewestOK'
  <2>1. Some("next") => \E t \in reqs' : t.op = "next"
    BY <1>0 DEF Some
  <2> QED BY <1>2, <2>1 DEF PaneOK, NewestOK, Unless, Some
<1>10. NoNextOK'
  BY <1>2 DEF PaneOK, NoNextOK, Unless
<1> QED BY <1>5, <1>6, <1>7, <1>8, <1>9, <1>10 DEF PaneOK

LEMMA ClearedAway ==
    ASSUME ReqsOK, NEW S, S \subseteq reqs
    PROVE  /\ \A t \in Overtaken(S) : ~Paging(t)
           /\ \A o \in Ops \ {"next", "prev"} : \A r, n, b :
                 \A t \in Send(Overtaken(S), o, r, n, b) : ~Paging(t)
<1>1. \A t \in Overtaken(S) : ~t.stray => t.op \notin {"next", "prev"}
  BY ReqsFinite, OvertakenIs
<1>2. \A t \in Overtaken(S) : ~Paging(t)
  BY <1>1 DEF Paging
<1>3. ASSUME NEW o \in Ops \ {"next", "prev"}, NEW r, NEW n, NEW b, NEW t \in Send(Overtaken(S), o, r, n, b)
      PROVE  ~Paging(t)
  <2>1. t \in Overtaken(S) \/ t.op = o
    BY SendTo
  <2> QED BY <1>2, <2>1 DEF Paging
<1> QED BY <1>2, <1>3

LEMMA PaneStep == ASSUME ReqsOK, PagesOK, RestOK, Pane, Next PROVE Pane'
<1>0. past \subseteq Mishaps /\ ("stray" \in past \/ PaneOK)
  BY DEF RestOK, Pane
<1>1. PaneOK' => Pane'
  BY DEF Pane
<1>2. "stray" \in past' => Pane'
  BY DEF Pane
<1>3. pages' = <<>> /\ (\A t \in reqs' : ~Paging(t)) => Pane'
  BY <1>1, PaneCleared
<1>4. ASSUME pages' = pages, texts' = texts, nextShown' = nextShown, prevShown' = prevShown,
             past' = past \/ (past \subseteq past' /\ "failed" \in past'),
             \A t \in reqs' : Paging(t) => t \in reqs,
             "failed" \in past' \/ \A o \in {"next", "prev"} : Some(o) => \E t \in reqs' : t.op = o
      PROVE  Pane'
  BY <1>0, <1>1, <1>2, <1>4, PaneStays
<1>5. ASSUME NEW r \in Rooms, ClickPerson(r) PROVE Pane'
  <2>1. reqs' = Send(Strayed(reqs, r, room), "users", r, 0, FALSE)
    BY <1>5, Zenon DEF ClickPerson, Strayed
  <2>2. \A t \in reqs' : Paging(t) => t \in reqs
    <3>1. \A b : \A t \in Send(Strayed(reqs, r, room), "users", r, 0, b) :
              t \in Strayed(reqs, r, room) \/ t.op = "users"
      BY SendTo
    <3>2. \A t \in reqs' : t \in Strayed(reqs, r, room) \/ t.op = "users"
      BY <2>1, <3>1, Zenon
    <3>3. \A t \in Strayed(reqs, r, room) : ~t.stray => t \in reqs
      BY StrayedIs, ReqsFinite DEF Tame
    <3> QED BY <3>2, <3>3 DEF Paging
  <2>3. \A o \in {"next", "prev"} : Some(o) => \E t \in reqs' : t.op = o
    <3>1. Strayed(reqs, r, room) \subseteq reqs'
      BY <2>1 DEF Send
    <3>2. \A s \in reqs : \E t \in Strayed(reqs, r, room) : t.op = s.op
      BY StrayedIs, ReqsFinite DEF Tame
    <3> QED BY <3>1, <3>2 DEF Some
  <2>4. pages' = pages /\ texts' = texts /\ nextShown' = nextShown /\ prevShown' = prevShown /\ past' = past
    BY <1>5 DEF ClickPerson
  <2> QED BY <1>4, <2>2, <2>3, <2>4
<1>6. ASSUME NEW S, S \subseteq reqs, OpenRoom(S) PROVE Pane'
  <2>1. pages' = <<>> /\ reqs' = Send(Overtaken(S), "total", room, 0, FALSE)
    BY <1>6 DEF OpenRoom, Cleared
  <2>2. "total" \in Ops \ {"next", "prev"}
    BY DEF Ops
  <2>3. \A b : \A t \in Send(Overtaken(S), "total", room, 0, b) : ~Paging(t)
    BY <1>6, <2>2, ClearedAway
  <2>4. \A t \in reqs' : ~Paging(t)
    BY <2>1, <2>3, Zenon
  <2> QED BY <1>3, <2>1, <2>4
<1>7. CASE ClickSelectUser
  BY <1>6, <1>7 DEF ClickSelectUser
<1>8. CASE ClickNext
  <2>1. past' = past
    BY <1>8 DEF ClickNext
  <2> QED BY <1>0, <1>1, <1>2, <1>8, <2>1, PaneClickNext
<1>9. CASE ClickPrev
  <2>1. past' = past
    BY <1>9 DEF ClickPrev
  <2> QED BY <1>0, <1>1, <1>2, <1>9, <2>1, PaneClickPrev
<1>10. CASE FindMessageList
  <2>1. pages' = pages /\ texts' = texts /\ nextShown' = nextShown /\ prevShown' = prevShown /\ past' = past
    BY <1>10 DEF FindMessageList
  <2>2. reqs \subseteq reqs'
    BY <1>10 DEF FindMessageList, Send
  <2>3. \A b : \A t \in Send(reqs, "find", room, 0, b) : t \in reqs \/ t.op = "find"
    BY SendTo
  <2>4. \A t \in reqs' : t \in reqs \/ t.op = "find"
    BY <1>10, <2>3, Zenon DEF FindMessageList
  <2>5. \A t \in reqs' : Paging(t) => t \in reqs
    BY <2>4 DEF Paging
  <2>6. \A o \in {"next", "prev"} : Some(o) => \E t \in reqs' : t.op = o
    BY <2>2 DEF Some
  <2> QED BY <1>4, <2>1, <2>5, <2>6
<1>11. ASSUME NEW q \in reqs, q.op \notin {"next", "prev"}, reqs' = reqs \ {q}, pages' = pages,
              texts' = texts, nextShown' = nextShown, prevShown' = prevShown,
              past' = past
       PROVE  Pane'
  <2>1. \A o \in {"next", "prev"} : Some(o) => \E t \in reqs' : t.op = o
    BY <1>11 DEF Some
  <2> QED BY <1>4, <1>11, <2>1
<1>12. ASSUME NEW q \in reqs, UsersAnswer(q) PROVE Pane'
  <2>1. CASE OpenRoom(reqs \ {q})
    BY <1>6, <2>1
  <2>2. CASE ~OpenRoom(reqs \ {q})
    <3>1. /\ q.op = "users" /\ reqs' = reqs \ {q} /\ past' = past \union {"unopened"}
          /\ pages' = pages /\ texts' = texts /\ nextShown' = nextShown /\ prevShown' = prevShown
      BY <1>12, <2>2 DEF UsersAnswer
    <3>2. \A o \in {"next", "prev"} : Some(o) => \E t \in reqs' : t.op = o
      BY <3>1 DEF Some
    <3>3. PaneOK => PaneOK'
      BY <3>1, <3>2, PaneStays
    <3> QED BY <1>0, <1>1, <1>2, <3>1, <3>3
  <2> QED BY <2>1, <2>2
<1>13. ASSUME NEW q \in reqs, NEW r, NEW n, NEW b, pages' = <<>>,
              reqs' = Send(Overtaken(reqs \ {q}), "open", r, n, b)
       PROVE  Pane'
  <2>1. "open" \in Ops \ {"next", "prev"}
    BY DEF Ops
  <2>2. \A t \in reqs' : ~Paging(t)
    BY <1>13, <2>1, ClearedAway
  <2> QED BY <1>3, <1>13, <2>2
<1>14. ASSUME NEW q \in reqs, TotalAnswer(q) PROVE Pane'
  <2>1. \/ pages' = <<>> /\ reqs' = Send(Overtaken(reqs \ {q}), "open", q.room, 0, q.stray)
        \/ reqs' = reqs \ {q} /\ pages' = pages /\ texts' = texts
    BY <1>14 DEF TotalAnswer, Cleared
  <2>2. q.op = "total" /\ nextShown' = nextShown /\ prevShown' = prevShown /\ past' = past
    BY <1>14 DEF TotalAnswer
  <2> QED BY <1>11, <1>13, <2>1, <2>2
<1>15. ASSUME NEW q \in reqs, FindAnswer(q) PROVE Pane'
  <2>1. \/ \E n : pages' = <<>> /\ reqs' = Send(Overtaken(reqs \ {q}), "open", room, n, FALSE)
        \/ reqs' = reqs \ {q} /\ pages' = pages /\ texts' = texts
    BY <1>15, Zenon DEF FindAnswer, Cleared
  <2>2. q.op = "find" /\ nextShown' = nextShown /\ prevShown' = prevShown /\ past' = past
    BY <1>15 DEF FindAnswer
  <2>3. \A r, n, b : pages' = <<>> /\ reqs' = Send(Overtaken(reqs \ {q}), "open", r, n, b) => Pane'
    BY <1>13
  <2>4. (\E n : pages' = <<>> /\ reqs' = Send(Overtaken(reqs \ {q}), "open", room, n, FALSE)) => Pane'
    BY <2>3, Zenon
  <2> QED BY <1>11, <2>1, <2>2, <2>4
<1>16. ASSUME NEW q \in reqs, OpenAnswer(q) PROVE Pane'
  <2> DEFINE g == IF q.at = 0 THEN Newest(q.room) ELSE From(q.room, q.at)
             l == IF q.at = 0 THEN "div" ELSE LeadOfList2(g)
             p == Page(q.room, g, l)
  <2>1. q.op = "open"
    BY <1>16 DEF OpenAnswer
  <2>2. \/ /\ ~IsEmpty(g) /\ pages' = <<p>> /\ texts' = {} /\ nextShown' = TRUE /\ prevShown' = TRUE
           /\ reqs' = Overtaken(reqs \ {q})
        \/ pages' = <<>> /\ reqs' = Overtaken(reqs \ {q})
        \/ /\ reqs' = reqs \ {q} /\ pages' = pages /\ texts' = texts
           /\ nextShown' = nextShown /\ prevShown' = prevShown /\ past' = past
    BY <1>16, Zenon DEF OpenAnswer
  <2>3. ~IsEmpty(g) => Sound(p) /\ p.lead # "date"
    BY OpenedIs
  <2> HIDE DEF g, p, l
  <2>4. reqs' = Overtaken(reqs \ {q}) => \A t \in reqs' : ~Paging(t)
    BY ClearedAway
  <2>5. CASE /\ ~IsEmpty(g) /\ pages' = <<p>> /\ texts' = {} /\ nextShown' = TRUE /\ prevShown' = TRUE
             /\ reqs' = Overtaken(reqs \ {q})
    BY <1>1, <2>3, <2>4, <2>5, PaneOpened
  <2> QED BY <1>3, <1>11, <2>1, <2>2, <2>4, <2>5
<1>18. ASSUME NEW q \in reqs, past' = Noted({"failed"}), reqs' = reqs \ {q}, pages' = pages, texts' = texts,
              nextShown' = nextShown, prevShown' = prevShown
       PROVE  Pane'
  <2>1. {"failed"} \in SUBSET Mishaps
    BY DEF Mishaps
  <2>2. "stray" \in past' \/ past' = past \union {"failed"}
    BY <1>0, <1>18, <2>1, NotedIs
  <2> QED BY <1>2, <1>4, <1>18, <2>2
<1>19. ASSUME NEW q \in reqs, NextAnswer(q) PROVE Pane'
  <2>1. q.op = "next" /\ reqs' = reqs \ {q} /\ prevShown' = prevShown
    BY <1>19 DEF NextAnswer
  <2>2. ASSUME NEW g \in NextGroups(q), ~IsEmpty(g), AppendPage(q, g), texts' = texts PROVE Pane'
    <3>1. PICK M \in SUBSET Mishaps : past' = Noted(M) /\ (q.stray => "stray" \in M)
      BY <1>0, <2>2, AppendPast, Zenon
    <3>2. CASE "stray" \in past'
      BY <1>2, <3>2
    <3>3. CASE "stray" \notin past'
      <4>1. q \in Live("next") /\ PaneOK
        BY <1>0, <2>1, <3>1, <3>3, NotedIs DEF Live
      <4> QED BY <1>1, <2>1, <2>2, <3>3, <4>1, PaneAppend
    <3> QED BY <3>2, <3>3
  <2>3. ASSUME NEW g \in NextGroups(q), IsEmpty(g), texts' = texts \union {"noNext"}, pages' = pages,
               nextShown' = FALSE, past' = Noted(OneIf("stray", q.stray))
        PROVE  Pane'
    <3>1. OneIf("stray", q.stray) \in SUBSET Mishaps /\ (q.stray => "stray" \in OneIf("stray", q.stray))
      BY DEF OneIf, Mishaps
    <3>2. CASE "stray" \in past'
      BY <1>2, <3>2
    <3>3. CASE "stray" \notin past'
      <4>1. q \in Live("next") /\ PaneOK /\ past \subseteq past'
        BY <1>0, <2>1, <2>3, <3>1, <3>3, NotedIs DEF Live
      <4> QED BY <1>1, <2>1, <2>3, <4>1, PaneNoNext
    <3> QED BY <3>2, <3>3
  <2>4. \/ \E g \in NextGroups(q) : ~IsEmpty(g) /\ AppendPage(q, g) /\ texts' = texts
        \/ /\ \E g \in NextGroups(q) : IsEmpty(g)
           /\ texts' = texts \union {"noNext"} /\ pages' = pages
           /\ nextShown' = FALSE /\ past' = Noted(OneIf("stray", q.stray))
        \/ past' = Noted({"failed"}) /\ pages' = pages /\ texts' = texts /\ nextShown' = nextShown
    BY <1>19 DEF NextAnswer
  <2> QED BY <1>18, <2>1, <2>2, <2>3, <2>4
<1>20. ASSUME NEW q \in reqs, PrevAnswer(q) PROVE Pane'
  <2>1. q.op = "prev" /\ reqs' = reqs \ {q} /\ nextShown' = nextShown
    BY <1>20 DEF PrevAnswer
  <2>2. ASSUME NEW g \in PrevGroups(q), ~IsEmpty(g), PrependPage(q, g), texts' = texts PROVE Pane'
    <3>1. PICK M \in SUBSET Mishaps : past' = Noted(M) /\ (q.stray => "stray" \in M)
      BY <1>0, <2>2, PrependPast, Zenon
    <3>2. CASE "stray" \in past'
      BY <1>2, <3>2
    <3>3. CASE "stray" \notin past'
      <4>1. q \in Live("prev") /\ PaneOK
        BY <1>0, <2>1, <3>1, <3>3, NotedIs DEF Live
      <4> QED BY <1>1, <2>1, <2>2, <3>3, <4>1, PanePrepend
    <3> QED BY <3>2, <3>3
  <2>3. ASSUME NEW g \in PrevGroups(q), IsEmpty(g), texts' = texts \union {"noPrev"}, pages' = pages,
               prevShown' = FALSE, past' = Noted(OneIf("stray", q.stray))
        PROVE  Pane'
    <3>1. OneIf("stray", q.stray) \in SUBSET Mishaps /\ (q.stray => "stray" \in OneIf("stray", q.stray))
      BY DEF OneIf, Mishaps
    <3>2. CASE "stray" \in past'
      BY <1>2, <3>2
    <3>3. CASE "stray" \notin past'
      <4>1. q \in Live("prev") /\ PaneOK /\ past \subseteq past'
        BY <1>0, <2>1, <2>3, <3>1, <3>3, NotedIs DEF Live
      <4> QED BY <1>1, <2>1, <2>3, <4>1, PaneNoPrev
    <3> QED BY <3>2, <3>3
  <2>4. \/ \E g \in PrevGroups(q) : ~IsEmpty(g) /\ PrependPage(q, g) /\ texts' = texts
        \/ /\ \E g \in PrevGroups(q) : IsEmpty(g)
           /\ texts' = texts \union {"noPrev"} /\ pages' = pages
           /\ prevShown' = FALSE /\ past' = Noted(OneIf("stray", q.stray))
        \/ past' = Noted({"failed"}) /\ pages' = pages /\ texts' = texts /\ prevShown' = prevShown
    BY <1>20 DEF PrevAnswer
  <2> QED BY <1>18, <2>1, <2>2, <2>3, <2>4
<1> QED BY <1>5, <1>7, <1>8, <1>9, <1>10, <1>12, <1>14, <1>15, <1>16, <1>19, <1>20 DEF Next, Answer

-----------------------------------------------------------------------------
(* The theorems. *)

LEMMA Start == Init => IInv
<1> SUFFICES ASSUME Init PROVE IInv
  OBVIOUS
<1>1. /\ room = NoRoom /\ pages = <<>> /\ texts = {"select"} /\ nextShown = FALSE
      /\ prevShown = FALSE /\ masks = {} /\ reqs = {} /\ readDrawn = TRUE /\ past = {}
      /\ drawn = [detail |-> TRUE, prev |-> TRUE]
  BY DEF Init
<1>2. ReqsOK
  <2>1. IsFiniteSet({}) /\ Cardinality({}) = 0 /\ MaxInFlight \in Nat
    BY FS_EmptySet, Sizes
  <2> QED BY <1>1, <2>1 DEF ReqsOK
<1>3. PagesOK
  <2>1. pages \in Seq(PageRec) /\ Len(pages) = 0 /\ Len(pages) <= ViewPages
    BY <1>1, Sizes
  <2> QED BY <1>1, <2>1 DEF PagesOK
<1>4. RestOK
  <2>1. [detail |-> TRUE, prev |-> TRUE] \in [detail : BOOLEAN, prev : BOOLEAN]
    OBVIOUS
  <2>2. drawn \in [detail : BOOLEAN, prev : BOOLEAN]
    BY <1>1, <2>1, Zenon
  <2> QED BY <1>1, <2>2 DEF RestOK, Texts, Mishaps
<1>5. MasksHaveOwners /\ Opening
  BY <1>1 DEF MasksHaveOwners, Opening, Unless
<1>6. Drawn
  BY <1>1 DEF Drawn
<1>7. Pane
  <2>1. SameRoom /\ Joined
    BY <1>1 DEF SameRoom, Joined, Unless
  <2>2. NextAsked /\ PrevAsked
    BY <1>1 DEF NextAsked, PrevAsked, Live
  <2>3. Headed /\ NewestOK /\ OldestOK /\ NoNextOK /\ NoPrevOK
    BY <1>1 DEF Headed, NewestOK, OldestOK, NoNextOK, NoPrevOK
  <2> QED BY <2>1, <2>2, <2>3 DEF Pane, PaneOK
<1> QED BY <1>2, <1>3, <1>4, <1>5, <1>6, <1>7 DEF IInv

LEMMA Step == IInv /\ [Next]_vars => IInv'
<1> SUFFICES ASSUME IInv, [Next]_vars PROVE IInv'
  OBVIOUS
<1> USE DEF IInv
<1>1. CASE Next
  BY <1>1, ReqsStep, PagesStep, RestStep, MasksStep, DrawnStep, OpeningStep, PaneStep
<1>2. CASE UNCHANGED vars
  <2>1. /\ room' = room /\ pages' = pages /\ texts' = texts /\ nextShown' = nextShown
        /\ prevShown' = prevShown /\ masks' = masks /\ reqs' = reqs /\ drawn' = drawn
        /\ readDrawn' = readDrawn /\ past' = past
    BY <1>2 DEF vars
  <2>2. ReqsOK' /\ PagesOK'
    BY <2>1 DEF ReqsOK, PagesOK, Top
  <2>3. RestOK'
    BY <2>1 DEF RestOK
  <2>4. MasksHaveOwners' /\ Drawn'
    BY <2>1 DEF MasksHaveOwners, Drawn
  <2>5. Opening'
    BY <2>1 DEF Opening, Unless, Some
  <2>6. Pane'
    <3>1. CASE "stray" \in past
      BY <2>1, <3>1 DEF Pane
    <3>2. CASE PaneOK
      <4>1. \A o \in {"next", "prev"} : Some(o) => \E t \in reqs' : t.op = o
        BY <2>1 DEF Some
      <4>2. PaneOK'
        BY <2>1, <3>2, <4>1, PaneStays
      <4> QED BY <4>2 DEF Pane
    <3> QED BY <3>1, <3>2 DEF Pane
  <2> QED BY <2>2, <2>3, <2>4, <2>5, <2>6
<1> QED BY <1>1, <1>2

LEMMA Always == Spec => []IInv
BY Start, Step, PTL DEF Spec

(* Whatever pages came, went and crossed, and in whatever order, the pane is *)
(* one stretch of the room named above it, and its state is of its types     *)
(* (makeList2, makePrevList, and the pages they remove).                     *)
THEOREM OneRoomShown == Spec => []OneConversation
<1>1. IInv => OneConversation
  <2> SUFFICES ASSUME IInv PROVE OneConversation
    OBVIOUS
  <2> USE DEF IInv
  <2>1. /\ pages \in Seq(PageRec) /\ Len(pages) <= ViewPages
        /\ \A i \in 1..Len(pages) : Sound(pages[i])
    BY DEF PagesOK
  <2>2. /\ room \in Rooms \union {NoRoom} /\ texts \subseteq Texts
        /\ nextShown \in BOOLEAN /\ prevShown \in BOOLEAN /\ readDrawn \in BOOLEAN
        /\ masks \subseteq {"list", "panel"}
        /\ drawn \in [detail : BOOLEAN, prev : BOOLEAN] /\ past \subseteq Mishaps
    BY DEF RestOK
  <2>3. reqs \subseteq Requests /\ Cardinality(reqs) <= MaxInFlight
    BY DEF ReqsOK
  <2>4. TypeOK
    BY <2>1, <2>2, <2>3 DEF TypeOK, PageRec, Sound
  <2>5. OneRoom
    BY DEF OneRoom, Opening, Unless, Some
  <2>6. Contiguous
    BY DEF Contiguous, Pane, PaneOK, Joined, Unless
  <2> QED BY <2>4, <2>5, <2>6 DEF OneConversation
<1> QED BY <1>1, Always, PTL

(* Both ends of the room can be reached from the pane, by what it shows or by *)
(* a button that works, and it claims no end that is not there, short of the  *)
(* named mishaps (isShowNextBtn, isShowPrevBtn, noNextDataMsg, noPrevDataMsg).*)
THEOREM BothEndsInReach == Spec => []EndsInReach
<1>1. IInv => EndsInReach
  <2> SUFFICES ASSUME IInv PROVE EndsInReach
    OBVIOUS
  <2>0. Pane
    BY DEF IInv
  <2>1. Settled => ~Some("next") /\ ~Some("prev") /\ pages # <<>>
    BY DEF Settled, Some
  <2>2. NewestInReach
    BY <2>0, <2>1 DEF NewestInReach, Pane, PaneOK, NewestOK, Unless
  <2>3. OldestInReach
    BY <2>0, <2>1 DEF OldestInReach, Pane, PaneOK, OldestOK, Unless
  <2>4. TextsAreHonest
    BY <2>0 DEF TextsAreHonest, Pane, PaneOK, NoNextOK, NoPrevOK, Unless
  <2> QED BY <2>2, <2>3, <2>4 DEF EndsInReach
<1> QED BY <1>1, Always, PTL

(* Messages are marked read only when they have been put on the pane, unless  *)
(* a handler threw before it put them there (setMessengerRead).               *)
THEOREM OnlyShownIsRead == Spec => []ReadWasShown
<1>1. IInv => ReadWasShown
  BY DEF IInv, Drawn, ReadWasShown, Unless
<1> QED BY <1>1, Always, PTL

(* A mask is up only while the request is in flight whose end takes it off,   *)
(* whichever answers, errors and clicks came in between (ui.on, ui.off).      *)
THEOREM NoMaskStays == Spec => []MasksHaveOwners
<1>1. IInv => MasksHaveOwners
  BY DEF IInv
<1> QED BY <1>1, Always, PTL
=============================================================================
