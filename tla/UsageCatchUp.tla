----------------------------- MODULE UsageCatchUp -----------------------------
(* AnalysisScheduler.selectUsageChart: once an hour the scheduler counts the *)
(* messages of the hours since the newest row of UI_USAGE_COMPARE and stores *)
(* one row per hour.  An hour is read in pages, but the search passes over   *)
(* where a page starts: each is the first page again, and each REPLACEs the  *)
(* rows of the hours it holds messages of.  A search that fails, or a        *)
(* restart, ends the pass; a failed REPLACE is logged and the pass goes on.  *)
(* Hours are numbered; of a row only the number of messages is kept.         *)
EXTENDS Naturals, FiniteSets

CONSTANTS
    MaxHour,    \* bound: the clock stops here, and the cron goes on firing
    MaxCount,   \* bound: messages per hour
    MaxSharp,   \* bound: hours with messages on the full hour
    MaxFaults,  \* bound: failed searches, restarts and failed REPLACEs
    PageSize,   \* messages of a page (10000 in the code)
    None        \* no row

ASSUME UsageConstants ==
    /\ {MaxHour, MaxCount, MaxSharp, MaxFaults} \subseteq Nat
    /\ PageSize \in Nat \ {0}
    /\ None \notin Nat

Hours == 0..MaxHour

VARIABLES
    now,      \* the current hour
    due,      \* the cron has fired and its pass has not begun
    cnt,      \* cnt[h]: searchable messages of hour h
    sharp,    \* sharp[h]: those of them whose ctime is h:00:00
    row,      \* UI_USAGE_COMPARE: the count stored for hour h, or None
    pass,     \* the running pass: its hour, lastTime, loop bounds and page
    faults,   \* faults so far
    blame     \* hours hit by one of the known accidents (observation)

vars == <<now, due, cnt, sharp, row, pass, faults, blame>>

Idle == [pc |-> "idle", last |-> 0, i |-> 0, count |-> 0, k |-> 0, pages |-> 0]

Init ==
    /\ now = 0 /\ due = TRUE
    /\ cnt = [h \in Hours |-> 0] /\ sharp = [h \in Hours |-> 0]
    /\ row = [h \in Hours |-> None]
    /\ pass = Idle
    /\ faults = 0 /\ blame = {}

-----------------------------------------------------------------------------
(* The clock and the collectors. *)

(* A firing during a pass is skipped: the next time is computed at its end. *)
Tick ==
    /\ now < MaxHour
    /\ now' = now + 1
    /\ due' = (due \/ pass.pc = "idle")
    /\ UNCHANGED <<cnt, sharp, row, pass, faults, blame>>

(* A message is searchable in its own hour or in the one after it. *)
Arrive(h) ==
    /\ now \in {h, h + 1} /\ cnt[h] < MaxCount
    /\ cnt' = [cnt EXCEPT ![h] = @ + 1]
    /\ \/ UNCHANGED sharp
       \/ /\ sharp' = [sharp EXCEPT ![h] = @ + 1]
          /\ Cardinality({g \in Hours : sharp'[g] > 0}) <= MaxSharp
    /\ UNCHANGED <<now, due, row, pass, faults, blame>>

-----------------------------------------------------------------------------
IsLastRow(h) == row[h] # None /\ \A g \in Hours : row[g] # None => g <= h
IsOldest(h)  == cnt[h] > 0 /\ \A g \in Hours : cnt[g] > 0 => h <= g
NoRows       == \A h \in Hours : row[h] = None

(* Faulty: the newest row itself is counted again. *)
LastTimeAgain(t) ==
    \/ \E h \in Hours : IsLastRow(h) /\ t = h
    \/ NoRows /\ \E h \in Hours : IsOldest(h) /\ t = h + 1
    \/ NoRows /\ (\A h \in Hours : cnt[h] = 0) /\ t + 1 = now

(* getLastTime: the hour after the newest row; without rows the hour after  *)
(* the oldest message, and without messages the hour before this one.       *)
LastTime(t) ==
    \/ \E h \in Hours : IsLastRow(h) /\ t = h + 1
    \/ NoRows /\ \E h \in Hours : IsOldest(h) /\ t = h + 1
    \/ NoRows /\ (\A h \in Hours : cnt[h] = 0) /\ t + 1 = now

(* Faulty: the hour before the current one is counted too. *)
BeginPassTooFar ==
    /\ pass.pc = "idle" /\ (due \/ now = MaxHour)
    /\ due' = FALSE
    /\ \E t \in 0..(MaxHour + 1) :
         /\ LastTime(t)
         /\ IF t < now
            THEN /\ pass' = [Idle EXCEPT !.pc = "hour", !.last = t, !.count = now - t]
                 /\ blame' = blame \cup {h \in Hours : NoRows /\ IsOldest(h)}
            ELSE UNCHANGED <<pass, blame>>
    /\ UNCHANGED <<now, cnt, sharp, row, faults>>

(* Faulty: a pass begins although no hour is due. *)
BeginPassAnyway ==
    /\ pass.pc = "idle" /\ (due \/ now = MaxHour)
    /\ due' = FALSE
    /\ \E t \in 0..(MaxHour + 1) :
         /\ LastTime(t)
         /\ pass' = [Idle EXCEPT !.pc = "hour", !.last = t, !.count = now - t - 1]
         /\ blame' = blame \cup {h \in Hours : NoRows /\ IsOldest(h)}
    /\ UNCHANGED <<now, cnt, sharp, row, faults>>

(* Faulty: only a lag of a single hour is caught up. *)
BeginPassSingle ==
    /\ pass.pc = "idle" /\ (due \/ now = MaxHour)
    /\ due' = FALSE
    /\ \E t \in 0..(MaxHour + 1) :
         /\ LastTime(t)
         /\ IF t + 2 = now
            THEN /\ pass' = [Idle EXCEPT !.pc = "hour", !.last = t, !.count = 1]
                 /\ blame' = blame \cup {h \in Hours : NoRows /\ IsOldest(h)}
            ELSE UNCHANGED <<pass, blame>>
    /\ UNCHANGED <<now, cnt, sharp, row, faults>>

(* The pass: the hours from lastTime up to the one before the last. *)
BeginPass ==
    /\ pass.pc = "idle" /\ (due \/ now = MaxHour)
    /\ due' = FALSE
    /\ \E t \in 0..(MaxHour + 1) :
         /\ LastTime(t)
         /\ IF t + 1 < now
            THEN /\ pass' = [Idle EXCEPT !.pc = "hour", !.last = t, !.count = now - t - 1]
                 /\ blame' = blame \cup {h \in Hours : NoRows /\ IsOldest(h)}
            ELSE UNCHANGED <<pass, blame>>
    /\ UNCHANGED <<now, cnt, sharp, row, faults>>

Hour == pass.last + pass.i

(* The range of the query has both ends: it takes h + 1:00:00 in. *)
Found == cnt[Hour] + sharp[Hour + 1]

CountHour ==
    /\ pass.pc = "hour"
    /\ pass' = [pass EXCEPT !.pc = "page", !.k = 0, !.pages = Found \div PageSize + 1]
    /\ UNCHANGED <<now, due, cnt, sharp, row, faults, blame>>

Advance ==
    pass' = IF pass.k + 1 < pass.pages THEN [pass EXCEPT !.k = @ + 1]
            ELSE IF pass.i + 1 < pass.count
                 THEN [pass EXCEPT !.pc = "hour", !.i = @ + 1]
                 ELSE Idle

(* A page holds c messages of the hour and d of h + 1:00:00, no more than   *)
(* PageSize; the query has no order, so which of them is open.  searchAfter *)
(* has no regard for setStart, so this is so whichever page it is.          *)
PageHolds(c, d) ==
    /\ c <= cnt[Hour] /\ d <= sharp[Hour + 1]
    /\ c + d = IF Found < PageSize THEN Found ELSE PageSize

Put(c, d) == [h \in Hours |-> IF h = Hour /\ c > 0 THEN c
                              ELSE IF h = Hour + 1 /\ d > 0 THEN d ELSE row[h]]

(* getData and the REPLACE.  For an empty hour it stores zeros under        *)
(* lastTime, whatever hour that is.                                         *)
StorePage(c, d) ==
    /\ pass.pc = "page" /\ PageHolds(c, d)
    /\ row' = IF c + d = 0 THEN [row EXCEPT ![pass.last] = 0] ELSE Put(c, d)
    /\ blame' = (blame \ {Hour})
                  \cup {h \in {Hour} : Found > PageSize}
                  \cup {h \in {Hour + 1} : d > 0}
                  \cup {h \in {pass.last} : c + d = 0 /\ pass.i > 0}
    /\ Advance
    /\ UNCHANGED <<now, due, cnt, sharp, faults>>

(* The REPLACE fails: the exception is logged, the page is lost. *)
PageFails ==
    /\ pass.pc = "page" /\ faults < MaxFaults
    /\ faults' = faults + 1
    /\ blame' = blame \cup {Hour}
    /\ Advance
    /\ UNCHANGED <<now, due, cnt, sharp, row>>

(* A search throws, or the server restarts: the pass ends where it is. *)
Abort ==
    /\ pass.pc # "idle" /\ faults < MaxFaults
    /\ faults' = faults + 1
    /\ pass' = Idle
    /\ UNCHANGED <<now, due, cnt, sharp, row, blame>>

-----------------------------------------------------------------------------
Store   == \E c, d \in 0..MaxCount : StorePage(c, d)
PassOn  == BeginPass \/ CountHour \/ Store
Next    == \/ Tick \/ PassOn \/ PageFails \/ Abort
           \/ \E h \in Hours : Arrive(h)

Spec == Init /\ [][Next]_vars

(* Time goes on, and the scheduler runs what is due to its end. *)
FairSpec == Spec /\ WF_vars(Tick) /\ WF_vars(PassOn)

-----------------------------------------------------------------------------
TypeOK ==
    /\ now \in Hours /\ due \in BOOLEAN /\ faults \in 0..MaxFaults
    /\ cnt \in [Hours -> 0..MaxCount] /\ sharp \in [Hours -> 0..MaxCount]
    /\ row \in [Hours -> Nat \cup {None}]
    /\ pass \in [pc : {"idle", "hour", "page"}, last : Nat, i : Nat,
                 count : Nat, k : Nat, pages : Nat]
    /\ blame \subseteq Hours

Value(h)  == IF row[h] = None THEN 0 ELSE row[h]
Passed(h) == \E g \in Hours : h <= g /\ row[g] # None

(* No row counts a message too many.  And no later pass looks at an hour at *)
(* or below the newest row again, so its count must be final and right      *)
(* there, wherever a pass was cut off, unless an accident named in this     *)
(* module hit the hour: it is the oldest hour, its REPLACE failed, it has   *)
(* more messages than a page, a message carries its full hour, or a pass    *)
(* that began with it met an empty hour later on.  (selectUsageChart,       *)
(* getLastTime, searchAfter.)                                               *)
RowsAreRight ==
    \A h \in Hours : /\ Value(h) <= cnt[h]
                     /\ Passed(h) => Value(h) = cnt[h] \/ h \in blame

(* Every hour with messages is counted in the end, or given up by one of    *)
(* the accidents: no failed search and no restart makes the passes skip it. *)
EveryHourIsCounted ==
    \A h \in Hours : (cnt[h] > 0 /\ h + 3 <= now) ~> (Passed(h) \/ h \in blame)

(* The rows as HourLedger sees them: a pass counts when it ends. *)
Begun(h)  == pass.pc # "idle" /\ pass.last <= h
Posted(h) == \E g \in Hours : h <= g /\ row[g] # None /\ ~Begun(g)

Ledger == INSTANCE HourLedger WITH
    count  <- cnt,
    posted <- {h \in Hours : Posted(h)},
    book   <- [h \in Hours |-> IF Posted(h) THEN Value(h) ELSE 0],
    lost   <- {h \in blame : Posted(h)}

(* The passes implement the ledger: a pass is one batch, and what an        *)
(* earlier pass posted stays as it is.                                      *)
ImplementsLedger == Ledger!Spec
=============================================================================
