------------------------------ MODULE HourLedger ------------------------------
(* What the hourly usage statistics promise: a book of counts per hour that *)
(* is filled in ascending batches.  A batch is posted as a whole; a posted  *)
(* hour never changes again, and it has its true count or is one of the     *)
(* hours named as lost, which may have less.  UsageCatchUp implements it    *)
(* page by page.                                                            *)
EXTENDS Naturals

CONSTANT Hours

VARIABLES
    now,     \* the current hour
    count,   \* count[h]: messages of hour h that can be searched
    posted,  \* the hours of the batches so far
    book,    \* book[h]: the count posted for hour h
    lost     \* posted hours whose count may be too low

vars == <<now, count, posted, book, lost>>

Init ==
    /\ now = 0 /\ posted = {} /\ lost = {}
    /\ count = [h \in Hours |-> 0] /\ book = [h \in Hours |-> 0]

Tick == now' = now + 1 /\ UNCHANGED <<count, posted, book, lost>>

(* A message becomes searchable in its own hour or the next, and its hour   *)
(* is not posted by then, or lost.                                          *)
Arrive(h) ==
    /\ now \in {h, h + 1} /\ h \notin posted \ lost
    /\ count' = [count EXCEPT ![h] = @ + 1]
    /\ UNCHANGED <<now, posted, book, lost>>

(* The hours of a batch are the lowest ones not posted yet. *)
Post ==
    /\ posted \subseteq posted' /\ lost \subseteq lost'
    /\ \A h \in posted' : \A g \in Hours : g <= h => g \in posted'
    /\ lost' \ lost \subseteq posted' \ posted
    /\ \A h \in posted' \ posted : /\ book'[h] <= count[h]
                                   /\ book'[h] < count[h] => h \in lost'
    /\ \A h \in Hours \ (posted' \ posted) : book'[h] = book[h]
    /\ UNCHANGED <<now, count>>

Next == Tick \/ (\E h \in Hours : Arrive(h)) \/ Post

Spec == Init /\ [][Next]_vars
=============================================================================
