------------------------------- MODULE Timeline -------------------------------
(***************************************************************************)
(* The conversation pane of the messenger page: messenger.js, driven by    *)
(* messenger.jsp, over the four queries of MessengerController.            *)
(*                                                                         *)
(* A click on a room starts a chain of three requests (its users, the      *)
(* number of its messages, its newest page); two buttons fetch the page    *)
(* before and the page after what is shown; a search jumps to the page of  *)
(* a hit.  The pane keeps detailViewPage pages and drops one at the far    *)
(* end for every further page.  The requests run concurrently and carry no *)
(* identity: an answer is applied to whatever the pane shows when it       *)
(* arrives.                                                                *)
(*                                                                         *)
(* A message is its position in its room, oldest first.  A page is the     *)
(* <ul> of messages lo..hi of a room; its lead is its first child: the     *)
(* <div> of a date ("div"), a bare date line ("date") or a message         *)
(* ("msg").  Left out are the other date lines and where the texts stand   *)
(* between the pages, which nothing reads, the scroll handler of           *)
(* messenger.js, as messenger.jsp has no #scrollArea for it to be attached *)
(* to, the groups of the list on the left and the search type "GD".        *)
(***************************************************************************)
EXTENDS Integers, FiniteSets, SequencesExt

CONSTANTS
    Rooms,          \* the conversations of the list on the left
    Length,         \* [Rooms -> Nat]: messages a room has in the period
    NoRoom,         \* #xrootmtr before the first click
    DayLength,      \* messages to a day: where the date changes
    Limit,          \* detailLimit: messages to a page (100)
    ViewPages,      \* detailViewPage: pages the pane holds (10)
    MaxInFlight     \* bound: requests in flight at once

ASSUME TimelineAssumption ==
    /\ NoRoom \notin Rooms
    /\ Length \in [Rooms -> Nat]
    /\ {DayLength, Limit, MaxInFlight} \subseteq Nat \ {0}
    /\ ViewPages \in Nat \ {0, 1}

VARIABLES
    room,           \* text of #xrootmtr
    pages,          \* the <ul>s of #timeline_list, top to bottom
    texts,          \* the texts that stand among them
    nextShown,      \* .messenger_next is displayed
    prevShown,      \* .messenger_prev is displayed
    masks,          \* loading masks up: of the list, of the panel
    reqs,           \* requests in flight
    drawn,          \* the messages of detailDataSet and of prevDetailDataSet
                    \* have been put on the pane
    readDrawn,      \* the messages last sent to setMessengerRead had been
    past            \* history: what has gone wrong since the pane was opened

vars == <<room, pages, texts, nextShown, prevShown, masks, reqs, drawn, readDrawn, past>>

Ops == {"users", "total", "open", "find", "next", "prev"}

\* What can go wrong, each where it happens below.
Mishaps == {"stray", "crossed", "eaten", "thrown", "headless", "cut", "failed", "unopened"}

\* at: the message a query starts from, 0 when the page has none to name;
\* stray: not asked of what the pane shows, or the pane was cleared or the room
\* changed after it was sent.
Requests == [op : Ops, room : Rooms \union {NoRoom}, at : Nat, stray : BOOLEAN]

Day(n) == n \div DayLength
Lesser(a, b) == IF a < b THEN a ELSE b

-----------------------------------------------------------------------------
(* The queries.  An empty answer has hi < lo. *)

Newest(r)    == [lo |-> IF Length[r] > Limit THEN Length[r] - Limit + 1 ELSE 1,
                hi |-> Length[r]]
From(r, n)   == [lo |-> n, hi |-> Lesser(n + Limit - 1, Length[r])]

(* Faulty: the message the page ends with comes again. *)
AfterAgain(r, n) == From(r, n)

After(r, n)  == From(r, n + 1)
Before(r, n) == [lo |-> IF n > Limit THEN n - Limit ELSE 1, hi |-> Lesser(n - 1, Length[r])]

(* Faulty: only more than detailLimit messages show the button again. *)
IsFullStrict(g) == g.hi + 1 - g.lo > Limit

IsEmpty(g) == g.hi < g.lo
IsFull(g)  == g.hi + 1 - g.lo = Limit

-----------------------------------------------------------------------------
(* The pane. *)

Texts == {"select", "noPrev", "noNext", "noData"}
Page(r, g, lead) == [room |-> r, lo |-> g.lo, hi |-> g.hi, lead |-> lead]

Top == pages[1]
Bottom == pages[Len(pages)]

Cleared == pages' = <<>> /\ texts' = {}

\* makeList2 puts a date before a message when the next one is of another day,
\* or when there is no next one.
LeadOfList2(g) == IF g.lo = g.hi \/ Day(g.lo) # Day(g.lo + 1) THEN "div" ELSE "msg"

\* id of the first and of the last message of the pane; a date line at the top
\* hides the first, and an empty pane has neither.
FirstMessage == IF pages = <<>> \/ Top.lead = "date" THEN 0 ELSE Top.lo
LastMessage == IF pages = <<>> THEN 0 ELSE Bottom.hi

\* What a cleared pane does to the page requests in flight: they are astray.
Overtaken(set) == {[q EXCEPT !.stray = @ \/ q.op \in {"next", "prev"}] : q \in set}

Send(set, op, r, n, stray) == set \union {[op |-> op, room |-> r, at |-> n, stray |-> stray]}

\* Asked of a pane that is cleared, or that still shows another room.
Astray == \A i \in 1 .. Len(pages) : pages[i].room # room

\* The history with what an answer adds.  Once a stray answer is on the pane, only
\* what matters beyond the pane is still told apart.
Noted(mishaps) ==
    LET all == past \union mishaps
    IN  IF "stray" \in all THEN all \intersect {"stray", "thrown", "unopened"} ELSE all
OneIf(mishap, condition) == IF condition THEN {mishap} ELSE {}
Crossed(op) == OneIf("crossed", \E q \in reqs : q.op = op /\ ~q.stray)

-----------------------------------------------------------------------------
Init ==
    /\ room = NoRoom
    /\ pages = <<>> /\ texts = {"select"}
    /\ nextShown = FALSE /\ prevShown = FALSE
    /\ masks = {} /\ reqs = {}
    /\ drawn = [detail |-> TRUE, prev |-> TRUE]
    /\ readDrawn = TRUE
    /\ past = {}

\* .person click: the room is named at once, its users are asked for.
ClickPerson(r) ==
    /\ masks = {}
    /\ Cardinality(reqs) < MaxInFlight
    /\ room' = r
    /\ reqs' = Send({[q EXCEPT !.stray = @ \/ r # room] : q \in reqs}, "users", r, 0, FALSE)
    /\ UNCHANGED <<pages, texts, nextShown, prevShown, masks, drawn, readDrawn, past>>

\* .selectUser click: getMessengerGroupDetail for the room named then.
OpenRoom(rest) ==
    /\ Cleared
    /\ masks' = masks \union {"list"}
    /\ reqs' = Send(Overtaken(rest), "total", room, 0, FALSE)

\* A participant is chosen from the list, or an empty search is entered (which
\* the mask does not prevent).  There is a list once a room has been opened.
ClickSelectUser ==
    /\ "select" \notin texts
    /\ Cardinality(reqs) < MaxInFlight
    /\ OpenRoom(reqs)
    /\ UNCHANGED <<room, nextShown, prevShown, drawn, readDrawn, past>>

\* userSelectBox clicks the first participant itself.
UsersAnswer(q) ==
    /\ q \in reqs /\ q.op = "users"
    /\ \/ OpenRoom(reqs \ {q}) /\ UNCHANGED past
       \/ /\ reqs' = reqs \ {q}
          /\ past' = past \union {"unopened"}
          /\ UNCHANGED <<pages, texts, masks>>
    /\ UNCHANGED <<room, nextShown, prevShown, drawn, readDrawn>>

(* Faulty: the masks are left when the count fails. *)
TotalAnswerKeepsMask(q) ==
    /\ q \in reqs /\ q.op = "total"
    /\ \/ /\ Cleared
          /\ masks' = {}
          /\ reqs' = Send(Overtaken(reqs \ {q}), "open", q.room, 0, q.stray)
       \/ reqs' = reqs \ {q} /\ UNCHANGED <<pages, texts, masks>>
    /\ UNCHANGED <<room, nextShown, prevShown, drawn, readDrawn, past>>

\* The answer's complete calls ui.off(), which hides every mask, while the
\* request for the page itself has only been sent.
TotalAnswer(q) ==
    /\ q \in reqs /\ q.op = "total"
    /\ \/ /\ Cleared
          /\ reqs' = Send(Overtaken(reqs \ {q}), "open", q.room, 0, q.stray)
       \/ reqs' = reqs \ {q} /\ UNCHANGED <<pages, texts>>
    /\ masks' = {}
    /\ UNCHANGED <<room, nextShown, prevShown, drawn, readDrawn, past>>

\* getMessengerMessage, after the count (makeList) or after a search (makeList2).
\* Its complete marks detailDataSet read, whatever the answer.
OpenAnswer(q) ==
    /\ q \in reqs /\ q.op = "open"
    /\ masks' = masks \ {"list"}
    /\ LET g == IF q.at = 0 THEN Newest(q.room) ELSE From(q.room, q.at) IN
       \/ /\ ~IsEmpty(g)
          /\ pages' = <<Page(q.room, g, IF q.at = 0 THEN "div" ELSE LeadOfList2(g))>>
          /\ texts' = {}
          /\ nextShown' = TRUE /\ prevShown' = TRUE
          /\ drawn' = [detail |-> TRUE, prev |-> TRUE]
          /\ past' = IF q.stray THEN {"stray"} ELSE {}
          /\ reqs' = Overtaken(reqs \ {q})
       \/ /\ IsEmpty(g)
          /\ pages' = <<>> /\ texts' = {"noData"}
          /\ nextShown' = FALSE /\ prevShown' = FALSE
          /\ reqs' = Overtaken(reqs \ {q})
          /\ UNCHANGED <<drawn, past>>
       \/ /\ reqs' = reqs \ {q}
          /\ UNCHANGED <<pages, texts, nextShown, prevShown, drawn, past>>
    /\ readDrawn' = drawn'.detail
    /\ UNCHANGED room

\* The button is hidden by the click.  The next button lies above the masks.
ClickNext ==
    /\ nextShown
    /\ Cardinality(reqs) < MaxInFlight
    /\ nextShown' = FALSE
    /\ reqs' = Send(reqs, "next", room, LastMessage, Astray)
    /\ UNCHANGED <<room, pages, texts, prevShown, masks, drawn, readDrawn, past>>

ClickPrev ==
    /\ prevShown /\ masks = {}
    /\ Cardinality(reqs) < MaxInFlight
    /\ prevShown' = FALSE
    /\ reqs' = Send(reqs, "prev", room, FirstMessage, Astray)
    /\ UNCHANGED <<room, pages, texts, nextShown, masks, drawn, readDrawn, past>>

\* A query that names no message is answered with an error, with nothing or with
\* the end of the room it sorts first.
NextGroups(q) == IF q.at = 0 THEN {From(q.room, 1), [lo |-> 1, hi |-> 0]} ELSE {After(q.room, q.at)}
PrevGroups(q) == IF q.at = 0 THEN {Newest(q.room), [lo |-> 1, hi |-> 0]} ELSE {Before(q.room, q.at)}

\* complete of both: setMessengerRead, for the set named.
Completed(set) ==
    /\ masks' = masks \ {"list"}
    /\ readDrawn' = drawn'[set]

Full == Len(pages) > ViewPages - 1

Dated(p) == [p EXCEPT !.lead = "date"]

(* Faulty: a page that is no longer asked for is not shown, but marked read. *)
AppendPageUnlessStray(q, g) ==
    LET kept   == IF Full THEN Tail(pages) ELSE pages
        dated  == IF Full THEN [kept EXCEPT ![1] = Dated(@)] ELSE kept
        throws == Full /\ kept[1].lead = "div"
    IN  /\ nextShown' = (nextShown \/ IsFull(g))
        /\ drawn' = [drawn EXCEPT !.detail = ~throws /\ ~q.stray]
        /\ past' = Noted(OneIf("stray", q.stray) \union OneIf("thrown", throws)
                           \union (IF Full THEN {"headless"} \union Crossed("prev") ELSE {}))
        /\ \/ throws /\ pages' = kept /\ UNCHANGED <<masks, readDrawn>>
           \/ /\ ~throws
              /\ pages' = IF q.stray THEN dated ELSE Append(dated, Page(q.room, g, LeadOfList2(g)))
              /\ Completed("detail")

\* A next page is put below.  A full pane first loses its first page, and the
\* page that is first then gets a date, unless it leads with a <div>, which has
\* no ctime: the handler throws, and complete is not called.
AppendPage(q, g) ==
    LET kept   == IF Full THEN Tail(pages) ELSE pages
        dated  == IF Full THEN [kept EXCEPT ![1] = Dated(@)] ELSE kept
        throws == Full /\ kept[1].lead = "div"
    IN  /\ nextShown' = (nextShown \/ IsFull(g))
        /\ drawn' = [drawn EXCEPT !.detail = ~throws]
        /\ past' = Noted(OneIf("stray", q.stray) \union OneIf("thrown", throws)
                           \union (IF Full THEN {"headless"} \union Crossed("prev") ELSE {}))
        /\ \/ throws /\ pages' = kept /\ UNCHANGED <<masks, readDrawn>>
           \/ /\ ~throws
              /\ pages' = Append(dated, Page(q.room, g, LeadOfList2(g)))
              /\ Completed("detail")

NextAnswer(q) ==
    /\ q \in reqs /\ q.op = "next"
    /\ reqs' = reqs \ {q}
    /\ \/ \E g \in NextGroups(q) : ~IsEmpty(g) /\ AppendPage(q, g) /\ UNCHANGED texts
       \/ /\ \E g \in NextGroups(q) : IsEmpty(g)
          /\ texts' = texts \union {"noNext"} /\ UNCHANGED pages
          /\ nextShown' = FALSE
          /\ drawn' = [drawn EXCEPT !.detail = TRUE]
          /\ past' = Noted(OneIf("stray", q.stray))
          /\ Completed("detail")
       \/ /\ past' = Noted({"failed"})
          /\ UNCHANGED <<pages, texts, nextShown, drawn>>
          /\ Completed("detail")
    /\ UNCHANGED <<room, prevShown>>

\* checkDatePre: when the newest message of the new page is of the day the pane
\* starts with, the first child of the page that was first is taken away.
TakeLead(p) == IF p.lead = "div" THEN [p EXCEPT !.lead = "msg"]
               ELSE [p EXCEPT !.lo = @ + 1, !.lead = LeadOfList2([lo |-> p.lo + 1, hi |-> p.hi])]

\* A previous page is put above.  A full pane first loses its last page;
\* checkDatePre throws when the pane starts with a bare date or has no page.
PrependPage(q, g) ==
    LET kept    == IF Full THEN Front(pages) ELSE pages
        throws  == kept # <<>> => kept[1].lead = "date"
        sameDay == ~throws /\ Day(g.hi) = Day(kept[1].lo)
        eaten   == sameDay /\ kept[1].lead = "msg"
        joined  == IF sameDay THEN [kept EXCEPT ![1] = TakeLead(@)] ELSE kept
    IN  /\ prevShown' = IsFull(g)
        /\ drawn' = [drawn EXCEPT !.prev = ~throws]
        /\ past' = Noted(OneIf("stray", q.stray) \union OneIf("thrown", throws)
                           \union OneIf("eaten", eaten) \union OneIf("cut", Full /\ ~nextShown)
                           \union (IF Full THEN Crossed("next") ELSE {}))
        /\ \/ throws /\ pages' = kept /\ UNCHANGED <<masks, readDrawn>>
           \/ /\ ~throws
              /\ pages' = <<Page(q.room, g, "div")>> \o joined
              /\ Completed("prev")

PrevAnswer(q) ==
    /\ q \in reqs /\ q.op = "prev"
    /\ reqs' = reqs \ {q}
    /\ \/ \E g \in PrevGroups(q) : ~IsEmpty(g) /\ PrependPage(q, g) /\ UNCHANGED texts
       \/ /\ \E g \in PrevGroups(q) : IsEmpty(g)
          /\ texts' = texts \union {"noPrev"} /\ UNCHANGED pages
          /\ prevShown' = FALSE
          /\ drawn' = [drawn EXCEPT !.prev = TRUE]
          /\ past' = Noted(OneIf("stray", q.stray))
          /\ Completed("prev")
       \/ /\ past' = Noted({"failed"})
          /\ UNCHANGED <<pages, texts, prevShown, drawn>>
          /\ Completed("prev")
    /\ UNCHANGED <<room, nextShown>>

\* findMessageList: Enter in the search field, which no mask prevents.
FindMessageList ==
    /\ room # NoRoom
    /\ Cardinality(reqs) < MaxInFlight
    /\ masks' = masks \union {"panel"}
    /\ reqs' = Send(reqs, "find", room, 0, FALSE)
    /\ UNCHANGED <<room, pages, texts, nextShown, prevShown, drawn, readDrawn, past>>

\* A hit opens the room that is named by then, from the message of the hit on;
\* of another room's hit it is the first message not older.
FindAnswer(q) ==
    /\ q \in reqs /\ q.op = "find"
    /\ masks' = masks \ {"panel"}
    /\ \/ \E n \in 1 .. Length[room] + (IF q.room = room THEN 0 ELSE 1) :
            /\ Cleared
            /\ reqs' = Send(Overtaken(reqs \ {q}), "open", room, n, FALSE)
       \/ reqs' = reqs \ {q} /\ UNCHANGED <<pages, texts>>
    /\ UNCHANGED <<room, nextShown, prevShown, drawn, readDrawn, past>>

Answer(q) == UsersAnswer(q) \/ TotalAnswer(q) \/ OpenAnswer(q)
                \/ NextAnswer(q) \/ PrevAnswer(q) \/ FindAnswer(q)

Next ==
    \/ \E r \in Rooms : ClickPerson(r)
    \/ ClickSelectUser \/ ClickNext \/ ClickPrev \/ FindMessageList
    \/ \E q \in reqs : Answer(q)

Spec == Init /\ [][Next]_vars

-----------------------------------------------------------------------------
TypeOK ==
    /\ room \in Rooms \union {NoRoom}
    /\ pages \in Seq([room : Rooms, lo : Nat, hi : Nat, lead : {"div", "date", "msg"}])
    /\ \A i \in 1 .. Len(pages) : /\ 1 <= pages[i].lo /\ pages[i].lo <= pages[i].hi
                                 /\ pages[i].hi <= Length[pages[i].room]
    /\ Len(pages) <= ViewPages
    /\ texts \subseteq Texts
    /\ nextShown \in BOOLEAN /\ prevShown \in BOOLEAN /\ readDrawn \in BOOLEAN
    /\ masks \subseteq {"list", "panel"}
    /\ reqs \subseteq Requests /\ Cardinality(reqs) <= MaxInFlight
    /\ drawn \in [detail : BOOLEAN, prev : BOOLEAN]
    /\ past \subseteq Mishaps

Unless(mishaps, p) == past \intersect mishaps # {} \/ p

Settled == reqs = {} /\ pages # <<>>

\* Once no opening is on its way, the pane shows messages of the room that is
\* named above it, and of no other: only an answer that was overtaken, or a
\* failed request for the users, brings another room's in.
OneRoom ==
    (\A q \in reqs : q.op \notin {"users", "total", "open"}) =>
        Unless({"stray", "unopened"}, \A i \in 1 .. Len(pages) : pages[i].room = room)

\* The pages follow each other without a gap or a repetition, whichever pages
\* were added and dropped at either end, in whatever order the answers came,
\* unless a page was dropped that a query in flight had started from.
Contiguous ==
    Unless({"stray", "crossed", "eaten"},
           \A i \in 1 .. Len(pages) - 1 : pages[i + 1].lo = pages[i].hi + 1)

\* With nothing in flight, the newest message of the room is shown or the next
\* button is; it is lost when the previous button drops the last page after the
\* end was reached, or a next page fails or throws.
NewestInReach ==
    Settled => Unless({"stray", "cut", "thrown", "failed"},
                      nextShown \/ Bottom.hi = Length[Bottom.room])

\* The same for the oldest message and the previous button, which works until the
\* next button has dropped a page.
OldestInReach ==
    Settled => Unless({"stray", "headless", "thrown", "failed"},
                      Top.lo = 1 \/ (prevShown /\ FirstMessage = Top.lo))

\* "There is no next data" is only shown below the newest message, "there is no
\* previous data" only above the oldest one.
TextsAreHonest ==
    pages # <<>> =>
        /\ "noNext" \in texts =>
              Unless({"stray", "cut"}, Bottom.hi = Length[Bottom.room])
        /\ "noPrev" \in texts =>
              Unless({"stray", "headless"}, Top.lo = 1)

\* Whatever pages came, went and crossed, the pane is one stretch of the room
\* that is named above it (makeList2, makePrevList, and the pages they remove).
OneConversation == TypeOK /\ OneRoom /\ Contiguous

\* Both ends of the room can be reached from the pane, and it does not claim an
\* end that is not there (isShowNextBtn, isShowPrevBtn, noNextDataMsg, noPrevDataMsg).
EndsInReach == NewestInReach /\ OldestInReach /\ TextsAreHonest

\* Messages are marked read only when they have been put on the pane.
ReadWasShown == Unless({"thrown"}, readDrawn)

\* A mask is up only while the request is in flight whose end takes it off: no
\* answer, error or lost connection leaves the page locked.
MasksHaveOwners ==
    /\ "list" \in masks => \E q \in reqs : q.op = "total"
    /\ "panel" \in masks => \E q \in reqs : q.op = "find"
=============================================================================
