-------------------------- MODULE UsageCatchUpProofs --------------------------
(* RowsAreRight for every number of hours, messages and faults and every     *)
(* page size.  The argument follows the Front: hours below it are settled,   *)
(* the row of the Front itself, if there is one, comes from a message on the *)
(* full hour and is blamed, and no row lies above it.                        *)
EXTENDS UsageCatchUp, Integers, TLAPS

Right(h) == Value(h) = cnt[h] \/ h \in blame

(* The hour being counted, the one after it once its first page is stored,   *)
(* and between the passes the hour before the current one.                   *)
Front == IF pass.pc = "idle" THEN now - 1
         ELSE IF pass.pc = "page" /\ pass.k > 0 THEN Hour + 1 ELSE Hour

(* The pass stays below the two newest hours. *)
PassInTime == pass.pc # "idle" => pass.i < pass.count /\ pass.last + pass.count < now

NoneTooMany == \A h \in Hours : Value(h) <= cnt[h]

SharpAreCounted == \A h \in Hours : sharp[h] <= cnt[h]

RowsUpToFront ==
    \A h \in Hours : row[h] # None =>
        h <= Front /\ (h = Front => h \in blame /\ cnt[h] > 0)

SettledBelowFront ==
    \A h \in Hours : h < Front /\ (pass.pc # "idle" \/ Passed(h)) => Right(h)

Inv == /\ TypeOK /\ PassInTime /\ SharpAreCounted /\ NoneTooMany
       /\ RowsUpToFront /\ SettledBelowFront
(* The invariant is enough: a passed hour lies below the Front, or its row  *)
(* is the one of the Front (selectUsageChart).                              *)
LEMMA InvIsEnough == Inv => RowsAreRight
<1> SUFFICES ASSUME Inv, NEW h \in Hours, Passed(h) PROVE Right(h)
  BY DEF RowsAreRight, Right, Inv, NoneTooMany
<1>1. PICK g \in Hours : h <= g /\ row[g] # None
  BY DEF Passed
<1>2. Front \in Int
  BY DEF Inv, TypeOK, Front, Hour, Hours
<1>3. g <= Front /\ (g = Front => g \in blame)
  BY <1>1 DEF Inv, RowsUpToFront
<1>4. CASE h < Front
  BY <1>4 DEF Inv, SettledBelowFront
<1>5. CASE h = Front
  BY <1>1, <1>2, <1>3, <1>5 DEF Right, Hours
<1>6. QED
  BY <1>1, <1>2, <1>3, <1>4, <1>5 DEF Hours

(* A running pass works on hours that have a successor before this one.     *)
LEMMA PassHours ==
    Inv /\ pass.pc # "idle" =>
        /\ Hour \in Hours /\ Hour + 1 \in Hours /\ pass.last \in Hours
        /\ Hour = pass.last + pass.i /\ Hour + 1 <= now - 1
        /\ {pass.last, pass.i, pass.k, now} \subseteq Nat
<1> SUFFICES ASSUME Inv, pass.pc # "idle"
             PROVE  /\ Hour \in Hours /\ Hour + 1 \in Hours /\ pass.last \in Hours
                    /\ Hour = pass.last + pass.i /\ Hour + 1 <= now - 1
                    /\ {pass.last, pass.i, pass.k, now} \subseteq Nat
  OBVIOUS
<1>1. /\ pass.last \in Nat /\ pass.i \in Nat /\ pass.k \in Nat /\ pass.count \in Nat
      /\ now \in 0..MaxHour /\ MaxHour \in Nat
  BY UsageConstants DEF Inv, TypeOK, Hours
<1>2. pass.i < pass.count /\ pass.last + pass.count < now
  BY DEF Inv, PassInTime
<1>3. QED
  BY <1>1, <1>2 DEF Hour, Hours

LEMMA InitInv == Init => Inv
<1> SUFFICES ASSUME Init PROVE Inv
  OBVIOUS
<1> USE UsageConstants DEF Init, Idle
<1>1. TypeOK
  BY DEF TypeOK, Hours
<1>2. PassInTime /\ SharpAreCounted /\ NoneTooMany
  BY DEF PassInTime, SharpAreCounted, NoneTooMany, Value
<1>3. RowsUpToFront
  BY DEF RowsUpToFront
<1>4. SettledBelowFront
  BY DEF SettledBelowFront, Passed
<1>5. QED
  BY <1>1, <1>2, <1>3, <1>4 DEF Inv

(* The clock moves on: between the passes the Front moves with it, over an  *)
(* hour whose row, if any, is blamed.                                       *)
LEMMA TickInv == Inv /\ Tick => Inv'
<1> SUFFICES ASSUME Inv, Tick PROVE Inv'
  OBVIOUS
<1> USE DEF Tick
<1>1. TypeOK'
  BY UsageConstants DEF Inv, TypeOK, Hours
<1>2. PassInTime' /\ SharpAreCounted' /\ NoneTooMany'
  BY DEF Inv, TypeOK, PassInTime, SharpAreCounted, NoneTooMany, Value, Hours
<1>3. CASE pass.pc # "idle"
  <2>1. Front' = Front
    BY <1>3 DEF Front, Hour
  <2>2. QED
    BY <1>1, <1>2, <1>3, <2>1
    DEF Inv, RowsUpToFront, SettledBelowFront, Right, Value, Passed
<1>4. CASE pass.pc = "idle"
  <2>1. Front' = Front + 1 /\ Front \in Int
    BY <1>4 DEF Front, Inv, TypeOK, Hours
  <2>2. RowsUpToFront'
    BY <2>1 DEF Inv, RowsUpToFront, Hours
  <2>3. SettledBelowFront'
    <3> SUFFICES ASSUME NEW h \in Hours, Passed(h) PROVE Right(h)
      BY <1>4 DEF SettledBelowFront, Passed, Right, Value
    <3> QED
      BY InvIsEnough DEF RowsAreRight, Right
  <2>4. QED
    BY <1>1, <1>2, <2>2, <2>3 DEF Inv
<1>5. QED
  BY <1>3, <1>4

(* A message becomes searchable: its hour is not below the Front.           *)
LEMMA ArriveInv == ASSUME NEW h \in Hours PROVE Inv /\ Arrive(h) => Inv'
<1> SUFFICES ASSUME Inv, Arrive(h) PROVE Inv'
  OBVIOUS
<1> USE DEF Arrive
<1>1. SharpAreCounted'
  <2> SUFFICES ASSUME NEW g \in Hours PROVE sharp'[g] <= cnt'[g]
    BY DEF SharpAreCounted
  <2>1. sharp[g] <= cnt[g] /\ sharp[g] \in Nat /\ cnt[g] \in Nat
    BY UsageConstants DEF Inv, TypeOK, SharpAreCounted
  <2>2. cnt'[g] = IF g = h THEN cnt[g] + 1 ELSE cnt[g]
    BY DEF Inv, TypeOK
  <2>3. sharp'[g] \in {sharp[g], IF g = h THEN sharp[g] + 1 ELSE sharp[g]}
    BY DEF Inv, TypeOK
  <2>4. QED
    BY <2>1, <2>2, <2>3
<1>2. TypeOK'
  <2>1. cnt' \in [Hours -> 0..MaxCount]
    BY UsageConstants DEF Inv, TypeOK
  <2>2. sharp' \in [Hours -> 0..MaxCount]
    BY <1>1, <2>1, UsageConstants DEF Inv, TypeOK, SharpAreCounted
  <2>3. QED
    BY <2>1, <2>2 DEF Inv, TypeOK
<1>3. PassInTime' /\ NoneTooMany'
  <2>1. PassInTime'
    BY DEF Inv, PassInTime
  <2>2. ASSUME NEW g \in Hours PROVE Value(g)' <= cnt'[g]
    <3>1. cnt'[g] \in {cnt[g], cnt[g] + 1} /\ cnt[g] \in Nat /\ Value(g)' = Value(g)
      BY UsageConstants DEF Inv, TypeOK, Value
    <3>2. Value(g) \in Nat
      BY DEF Inv, TypeOK, Value
    <3>3. QED
      BY <3>1, <3>2 DEF Inv, NoneTooMany
  <2>3. QED
    BY <2>1, <2>2 DEF NoneTooMany
<1>4. Front' = Front /\ Front \in Int /\ Front <= now - 1
  BY DEF Front, Hour, Inv, TypeOK, PassInTime, Hours
<1>5. RowsUpToFront'
  BY <1>4 DEF Inv, TypeOK, RowsUpToFront, Hours
<1>6. SettledBelowFront'
  <2> SUFFICES ASSUME NEW g \in Hours, g < Front, pass.pc # "idle" \/ Passed(g)
               PROVE Value(g) = cnt'[g] \/ g \in blame
    BY <1>4 DEF SettledBelowFront, Passed, Right, Value
  <2>1. Right(g)
    BY DEF Inv, SettledBelowFront
  <2>2. g # h
    BY <1>4 DEF Inv, TypeOK, Hours
  <2>3. QED
    BY <2>1, <2>2 DEF Right, Inv, TypeOK
<1>7. QED
  BY <1>1, <1>2, <1>3, <1>5, <1>6 DEF Inv

(* A pass begins after the newest row, or after the oldest message.         *)
LEMMA BeginPassInv == Inv /\ BeginPass => Inv'
<1> SUFFICES ASSUME Inv, BeginPass PROVE Inv'
  OBVIOUS
<1>1. PICK t \in 0..(MaxHour + 1) :
        /\ LastTime(t)
        /\ IF t + 1 < now
           THEN /\ pass' = [Idle EXCEPT !.pc = "hour", !.last = t, !.count = now - t - 1]
                /\ blame' = blame \cup {h \in Hours : NoRows /\ IsOldest(h)}
           ELSE UNCHANGED <<pass, blame>>
  BY DEF BeginPass
<1>2. due' = FALSE /\ UNCHANGED <<now, cnt, sharp, row, faults>> /\ pass.pc = "idle"
  BY DEF BeginPass
<1>3. CASE ~(t + 1 < now)
  BY <1>1, <1>2, <1>3 DEF Inv, TypeOK, PassInTime, SharpAreCounted, NoneTooMany, RowsUpToFront,
     SettledBelowFront, Right, Value, Passed, Front, Hour
<1>4. CASE t + 1 < now
  <2>1. /\ pass' = [pc |-> "hour", last |-> t, i |-> 0, count |-> now - t - 1,
                    k |-> 0, pages |-> 0]
        /\ blame' = blame \cup {h \in Hours : NoRows /\ IsOldest(h)}
    BY <1>1, <1>4 DEF Idle
  <2>2. t \in Nat /\ now \in Nat
    BY UsageConstants DEF Inv, TypeOK, Hours
  <2>3. TypeOK'
    <3>1. now - t - 1 \in Nat
      BY <1>4, <2>2
    <3>2. QED
      BY <1>2, <2>1, <2>2, <3>1 DEF Inv, TypeOK
  <2>4. PassInTime' /\ SharpAreCounted' /\ NoneTooMany'
    BY <1>2, <1>4, <2>1, <2>2 DEF Inv, PassInTime, SharpAreCounted, NoneTooMany, Value
  <2>5. Front' = t
    BY <2>1, <2>2 DEF Front, Hour
  <2>6. CASE \E h \in Hours : IsLastRow(h) /\ t = h + 1
    <3>1. PICK m \in Hours : IsLastRow(m) /\ t = m + 1
      BY <2>6
    <3>2. RowsUpToFront'
      BY <1>2, <2>5, <3>1 DEF RowsUpToFront, IsLastRow, Hours
    <3>3. SettledBelowFront'
      <4> SUFFICES ASSUME NEW h \in Hours, h < t PROVE Right(h)'
        BY <2>5 DEF SettledBelowFront
      <4>1. Passed(h)
        BY <3>1 DEF Passed, IsLastRow, Hours
      <4>2. Right(h)
        BY <4>1, InvIsEnough DEF RowsAreRight, Right
      <4>3. QED
        BY <1>2, <2>1, <4>2 DEF Right, Value
    <3>4. QED
      BY <2>3, <2>4, <3>2, <3>3 DEF Inv
  <2>7. CASE NoRows /\ \E h \in Hours : IsOldest(h) /\ t = h + 1
    <3>1. PICK m \in Hours : IsOldest(m) /\ t = m + 1
      BY <2>7
    <3>2. RowsUpToFront'
      BY <1>2, <2>7 DEF RowsUpToFront, NoRows
    <3>3. SettledBelowFront'
      <4> SUFFICES ASSUME NEW h \in Hours, h < t PROVE Right(h)'
        BY <2>5 DEF SettledBelowFront
      <4>1. CASE h = m
        BY <2>1, <2>7, <3>1, <4>1 DEF Right
      <4>2. CASE h # m
        <5>1. ~(m <= h)
          BY <3>1, <4>2 DEF Hours
        <5>2. cnt[h] = 0
          BY <3>1, <5>1 DEF IsOldest, Inv, TypeOK
        <5>3. QED
          BY <1>2, <2>7, <5>2 DEF Right, Value, NoRows
      <4>3. QED
        BY <4>1, <4>2
    <3>4. QED
      BY <2>3, <2>4, <3>2, <3>3 DEF Inv
  <2>8. QED
    BY <1>1, <1>4, <2>2, <2>6, <2>7 DEF LastTime
<1>5. QED
  BY <1>3, <1>4

LEMMA CountHourInv == Inv /\ CountHour => Inv'
<1> SUFFICES ASSUME Inv, CountHour PROVE Inv'
  OBVIOUS
<1>1. /\ pass.pc = "hour"
      /\ pass' = [pass EXCEPT !.pc = "page", !.k = 0, !.pages = Found \div PageSize + 1]
      /\ UNCHANGED <<now, due, cnt, sharp, row, faults, blame>>
  BY DEF CountHour
<1>2. Hour \in Hours /\ Hour + 1 \in Hours
  BY <1>1, PassHours
<1>3. Found \div PageSize + 1 \in Nat
  <2>1. Found \in Nat
    BY <1>2, UsageConstants DEF Found, Inv, TypeOK
  <2>2. QED
    BY <2>1, UsageConstants
<1>4. TypeOK'
  BY <1>1, <1>3 DEF Inv, TypeOK
<1>5. Front' = Front /\ PassInTime' /\ SharpAreCounted' /\ NoneTooMany'
  BY <1>1 DEF Front, Hour, Inv, TypeOK, PassInTime, SharpAreCounted, NoneTooMany, Value
<1>6. QED
  BY <1>1, <1>4, <1>5 DEF Inv, TypeOK, RowsUpToFront, SettledBelowFront, Right, Value, Passed

(* What a page leaves behind: the hour counted is settled, and the next one *)
(* has at most a blamed row.                                                *)
HourSettled ==
    /\ \A h \in Hours : row'[h] # None =>
          h <= Hour + 1 /\ (h = Hour + 1 => h \in blame' /\ cnt[h] > 0)
    /\ \A h \in Hours : h <= Hour => Right(h)'
    /\ NoneTooMany'

(* The loops go on to the next page, the next hour, or end.                 *)
LEMMA AdvanceInv ==
    Inv /\ pass.pc = "page" /\ Advance /\ HourSettled
      /\ row' \in [Hours -> Nat \cup {None}] /\ blame' \subseteq Hours
      /\ faults' \in 0..MaxFaults /\ UNCHANGED <<now, due, cnt, sharp>>
    => Inv'
<1> SUFFICES ASSUME Inv, pass.pc = "page", Advance, HourSettled,
                    row' \in [Hours -> Nat \cup {None}], blame' \subseteq Hours,
                    faults' \in 0..MaxFaults, UNCHANGED <<now, due, cnt, sharp>>
             PROVE Inv'
  OBVIOUS
<1>1. TypeOK'
  <2>1. pass.i + 1 \in Nat /\ pass.k + 1 \in Nat
    BY DEF Inv, TypeOK
  <2>2. \/ pass' = [pass EXCEPT !.k = pass.k + 1]
        \/ pass' = [pass EXCEPT !.pc = "hour", !.i = pass.i + 1]
        \/ pass' = Idle
    BY DEF Advance
  <2>3. pass' \in [pc : {"idle", "hour", "page"}, last : Nat, i : Nat,
                   count : Nat, k : Nat, pages : Nat]
    <3> USE DEF Inv, TypeOK
    <3>1. CASE pass' = [pass EXCEPT !.k = pass.k + 1]
      BY <2>1, <3>1
    <3>2. CASE pass' = [pass EXCEPT !.pc = "hour", !.i = pass.i + 1]
      BY <2>1, <3>2
    <3>3. CASE pass' = Idle
      BY <3>3 DEF Idle
    <3>4. QED
      BY <2>2, <3>1, <3>2, <3>3
  <2>4. QED
    BY <2>3 DEF Inv, TypeOK
<1>2. PassInTime' /\ SharpAreCounted' /\ NoneTooMany'
  BY DEF Inv, TypeOK, PassInTime, SharpAreCounted, HourSettled, Advance, Idle
<1>3. Hour \in Int /\ Hour + 1 <= now - 1 /\ now \in Int
  BY DEF Inv, TypeOK, PassInTime, Hour, Hours
<1>4. \/ pass'.pc # "idle" /\ Front' = Hour + 1
      \/ pass'.pc = "idle" /\ Front' = now - 1
  BY DEF Inv, TypeOK, Advance, Idle, Front, Hour, Hours
<1>5. RowsUpToFront'
  <2> SUFFICES ASSUME NEW h \in Hours, row'[h] # None
               PROVE h <= Front' /\ (h = Front' => h \in blame' /\ cnt[h] > 0)
    BY DEF RowsUpToFront
  <2>1. h <= Hour + 1 /\ (h = Hour + 1 => h \in blame' /\ cnt[h] > 0)
    BY DEF HourSettled
  <2>2. QED
    BY <1>3, <1>4, <2>1 DEF Hours
<1>6. SettledBelowFront'
  <2> SUFFICES ASSUME NEW h \in Hours, h < Front', pass'.pc # "idle" \/ Passed(h)'
               PROVE Right(h)'
    BY DEF SettledBelowFront
  <2>1. h <= Hour \/ h \in blame'
    <3>1. CASE pass'.pc # "idle"
      BY <1>3, <1>4, <3>1 DEF Hours
    <3>2. CASE Passed(h)'
      <4>1. PICK g \in Hours : h <= g /\ row'[g] # None
        BY <3>2 DEF Passed
      <4>2. g <= Hour + 1 /\ (g = Hour + 1 => g \in blame')
        BY <4>1 DEF HourSettled
      <4>3. QED
        BY <1>3, <4>1, <4>2 DEF Hours
    <3>3. QED
      BY <3>1, <3>2
  <2>2. QED
    BY <2>1 DEF HourSettled, Right
<1>7. QED
  BY <1>1, <1>2, <1>5, <1>6 DEF Inv

LEMMA StorePageInv ==
    ASSUME NEW c \in 0..MaxCount, NEW d \in 0..MaxCount
    PROVE  Inv /\ StorePage(c, d) => Inv'
<1> SUFFICES ASSUME Inv, StorePage(c, d) PROVE Inv'
  OBVIOUS
<1> USE UsageConstants
<1>1. /\ pass.pc = "page" /\ PageHolds(c, d)
      /\ row' = IF c + d = 0 THEN [row EXCEPT ![pass.last] = 0] ELSE Put(c, d)
      /\ blame' = (blame \ {Hour})
                    \cup {h \in {Hour} : Found > PageSize}
                    \cup {h \in {Hour + 1} : d > 0}
                    \cup {h \in {pass.last} : c + d = 0 /\ pass.i > 0}
      /\ Advance
      /\ UNCHANGED <<now, due, cnt, sharp, faults>>
  BY DEF StorePage
<1>2. /\ Hour \in Hours /\ Hour + 1 \in Hours /\ pass.last \in Hours
      /\ Hour = pass.last + pass.i /\ pass.i \in Nat /\ pass.k \in Nat
  BY <1>1, PassHours
<1>3. /\ c \in Nat /\ d \in Nat
      /\ cnt[Hour] \in Nat /\ cnt[Hour + 1] \in Nat /\ sharp[Hour + 1] \in Nat
      /\ sharp[Hour + 1] <= cnt[Hour + 1]
      /\ Found = cnt[Hour] + sharp[Hour + 1]
      /\ c <= cnt[Hour] /\ d <= sharp[Hour + 1]
  BY <1>1, <1>2 DEF Inv, TypeOK, SharpAreCounted, Found, PageHolds
<1>4. row' \in [Hours -> Nat \cup {None}]
  BY <1>1, <1>2, <1>3 DEF Put, Inv, TypeOK
<1>5. blame' \subseteq Hours
  BY <1>1, <1>2 DEF Inv, TypeOK
<1>6. Front = IF pass.k > 0 THEN Hour + 1 ELSE Hour
  BY <1>1 DEF Front
<1>7. \A h \in Hours : row[h] # None =>
          h <= Hour + 1 /\ (h = Hour + 1 => h \in blame /\ cnt[h] > 0)
  BY <1>2, <1>6 DEF Inv, RowsUpToFront, Hours
<1>8. \A h \in Hours : h \in blame /\ h # Hour => h \in blame'
  BY <1>1
<1>9. ASSUME NEW h \in Hours, row'[h] # None
      PROVE h <= Hour + 1 /\ (h = Hour + 1 => h \in blame' /\ cnt[h] > 0)
  <2>1. CASE c + d = 0
    <3>1. h = pass.last \/ row[h] # None
      BY <1>1, <1>2, <1>9, <2>1 DEF Inv, TypeOK
    <3>2. QED
      BY <1>2, <1>7, <1>8, <3>1 DEF Hours
  <2>2. CASE c + d # 0
    <3>1. h = Hour \/ (h = Hour + 1 /\ d > 0) \/ row[h] # None
      BY <1>1, <1>9, <2>2 DEF Put
    <3>2. CASE h = Hour + 1 /\ d > 0
      BY <1>1, <1>2, <1>3, <3>2
    <3>3. QED
      BY <1>2, <1>7, <1>8, <3>1, <3>2 DEF Hours
  <2>3. QED
    BY <2>1, <2>2
<1>10. ASSUME NEW h \in Hours, h <= Hour PROVE Right(h)'
  <2>1. CASE h < Hour /\ ~(h = pass.last /\ c + d = 0)
    <3>1. Right(h)
      BY <1>1, <1>2, <1>6, <2>1 DEF Inv, SettledBelowFront, Hours
    <3>2. row'[h] = row[h]
      <4>1. h # Hour /\ h # Hour + 1
        BY <1>2, <2>1 DEF Hours
      <4>2. CASE c + d = 0
        BY <1>1, <2>1, <4>2 DEF Inv, TypeOK
      <4>3. CASE c + d # 0
        BY <1>1, <4>1, <4>3 DEF Put
      <4>4. QED
        BY <4>2, <4>3
    <3>3. QED
      BY <1>1, <1>2, <1>8, <2>1, <3>1, <3>2 DEF Right, Value, Hours
  <2>2. CASE h < Hour /\ h = pass.last /\ c + d = 0
    BY <1>1, <1>2, <2>2 DEF Right, Hours
  <2>3. CASE h = Hour /\ Found > PageSize
    BY <1>1, <2>3 DEF Right
  <2>4. CASE h = Hour /\ Found <= PageSize
    <3>1. c + d = Found
      BY <1>1, <1>3, <2>4 DEF PageHolds
    <3>2. c = cnt[Hour]
      BY <1>3, <3>1
    <3>3. CASE c > 0
      BY <1>1, <1>3, <2>4, <3>2, <3>3 DEF Right, Value, Put
    <3>4. CASE c = 0
      <4>1. row[Hour] \in {None, 0}
        <5>1. Value(Hour) <= 0 /\ Value(Hour) \in Nat
          BY <1>2, <3>2, <3>4 DEF Inv, TypeOK, NoneTooMany, Value
        <5>2. QED
          BY <5>1 DEF Value
      <4>2. row'[Hour] \in {None, 0}
        <5>1. CASE c + d = 0
          BY <1>1, <4>1, <5>1 DEF Inv, TypeOK
        <5>2. CASE c + d # 0
          <6>1. row' = Put(c, d) /\ ~(c > 0) /\ Hour # Hour + 1
            BY <1>1, <1>2, <3>4, <5>2 DEF Hours
          <6>2. row'[Hour] = row[Hour]
            BY <1>2, <6>1 DEF Put
          <6>3. QED
            BY <4>1, <6>2
        <5>3. QED
          BY <5>1, <5>2
      <4>3. QED
        BY <1>1, <2>4, <3>2, <3>4, <4>2 DEF Right, Value
    <3>5. QED
      BY <1>3, <3>3, <3>4
  <2>6. QED
    BY <1>2, <1>3, <1>10, <2>1, <2>2, <2>3, <2>4 DEF Hours
<1>13. NoneTooMany'
  <2> SUFFICES ASSUME NEW h \in Hours PROVE Value(h)' <= cnt[h]
    BY <1>1 DEF NoneTooMany
  <2>1. row'[h] \in {row[h], 0} \/ (h = Hour /\ row'[h] = c) \/ (h = Hour + 1 /\ row'[h] = d)
    BY <1>1 DEF Put, Inv, TypeOK
  <2>2. cnt[h] \in Nat /\ Value(h) <= cnt[h]
    BY DEF Inv, TypeOK, NoneTooMany
  <2>3. CASE row'[h] \in {row[h], 0}
    BY <2>2, <2>3 DEF Value
  <2>4. CASE (h = Hour /\ row'[h] = c) \/ (h = Hour + 1 /\ row'[h] = d)
    BY <1>3, <2>4 DEF Value
  <2>5. QED
    BY <2>1, <2>3, <2>4
<1>11. HourSettled
  BY <1>9, <1>10, <1>13 DEF HourSettled
<1>12. QED
  BY <1>1, <1>4, <1>5, <1>11, AdvanceInv DEF Inv, TypeOK

LEMMA PageFailsInv == Inv /\ PageFails => Inv'
<1> SUFFICES ASSUME Inv, PageFails PROVE Inv'
  OBVIOUS
<1>1. /\ pass.pc = "page" /\ faults' \in 0..MaxFaults
      /\ blame' = blame \cup {Hour} /\ Advance
      /\ UNCHANGED <<now, due, cnt, sharp, row>>
  BY UsageConstants DEF PageFails, Inv, TypeOK
<1>2. Hour \in Hours /\ Front = IF pass.k > 0 THEN Hour + 1 ELSE Hour
  BY <1>1, PassHours DEF Front
<1>3. HourSettled
  <2>1. ASSUME NEW h \in Hours, row'[h] # None
        PROVE h <= Hour + 1 /\ (h = Hour + 1 => h \in blame' /\ cnt[h] > 0)
    BY <1>1, <1>2, <2>1 DEF Inv, RowsUpToFront, Hours
  <2>2. ASSUME NEW h \in Hours, h <= Hour PROVE Right(h)'
    <3>1. CASE h = Hour
      BY <1>1, <3>1 DEF Right
    <3>2. CASE h # Hour
      BY <1>1, <1>2, <2>2, <3>2 DEF Inv, SettledBelowFront, Right, Value, Hours
    <3>3. QED
      BY <3>1, <3>2
  <2>3. NoneTooMany'
    BY <1>1 DEF Inv, NoneTooMany, Value
  <2>4. QED
    BY <2>1, <2>2, <2>3 DEF HourSettled
<1>4. QED
  BY <1>1, <1>2, <1>3, AdvanceInv DEF Inv, TypeOK

(* A pass is cut off: what it stored stays, and nothing above it exists.    *)
LEMMA AbortInv == Inv /\ Abort => Inv'
<1> SUFFICES ASSUME Inv, Abort PROVE Inv'
  OBVIOUS
<1>1. /\ pass.pc # "idle" /\ pass' = Idle /\ faults' \in 0..MaxFaults
      /\ UNCHANGED <<now, due, cnt, sharp, row, blame>>
  BY UsageConstants DEF Abort, Inv, TypeOK
<1>2. TypeOK' /\ PassInTime' /\ SharpAreCounted' /\ NoneTooMany'
  BY <1>1 DEF Inv, TypeOK, PassInTime, SharpAreCounted, NoneTooMany, Value, Idle
<1>3. Front' = now - 1 /\ Front \in Int /\ Front <= now - 1 /\ now \in Int
  BY <1>1 DEF Front, Hour, Inv, TypeOK, PassInTime, Idle, Hours
<1>4. RowsUpToFront'
  BY <1>1, <1>3 DEF Inv, RowsUpToFront, Hours
<1>5. SettledBelowFront'
  <2> SUFFICES ASSUME NEW h \in Hours, Passed(h) PROVE Right(h)
    BY <1>1, <1>3 DEF SettledBelowFront, Right, Value, Passed, Idle
  <2> QED
    BY InvIsEnough DEF RowsAreRight, Right
<1>6. QED
  BY <1>2, <1>4, <1>5 DEF Inv

(* AnalysisScheduler.selectUsageChart: the invariant holds for every bound  *)
(* and every page size.                                                     *)
THEOREM UsageInv == Spec => []Inv
<1>1. Inv /\ [Next]_vars => Inv'
  <2> SUFFICES ASSUME Inv, [Next]_vars PROVE Inv'
    OBVIOUS
  <2>1. CASE UNCHANGED vars
    BY <2>1 DEF vars, Inv, TypeOK, PassInTime, SharpAreCounted, NoneTooMany, RowsUpToFront,
       SettledBelowFront, Right, Value, Passed, Front, Hour
  <2>2. CASE PassOn
    BY <2>2, BeginPassInv, CountHourInv, StorePageInv DEF PassOn, Store
  <2>3. QED
    BY <2>1, <2>2, TickInv, ArriveInv, PageFailsInv, AbortInv DEF Next
<1>2. QED
  BY <1>1, InitInv, PTL DEF Spec

(* No row counts a message too many, and the rows below the newest one are  *)
(* right, or an accident named in the module hit their hour, whatever       *)
(* searches, REPLACEs and restarts do.                                      *)
THEOREM RowsStayRight == Spec => []RowsAreRight
  BY UsageInv, InvIsEnough, PTL

(* Every variable of the catch-up keeps its type.                           *)
THEOREM UsageTypeCorrect == Spec => []TypeOK
<1>1. Inv => TypeOK
  BY DEF Inv
<1>2. QED
  BY <1>1, UsageInv, PTL

-----------------------------------------------------------------------------
(* The refinement of HourLedger. *)

(* The pass works at or above its first hour, and goes on or ends.          *)
WorksAbove ==
    /\ pass.pc # "idle" /\ UNCHANGED <<now, cnt>>
    /\ pass'.pc = "idle" \/ pass'.last = pass.last
    /\ \A h \in Hours : h < pass.last =>
          row'[h] = row[h] /\ (h \in blame' <=> h \in blame)

(* Such a step posts a batch, or nothing yet.                               *)
LEMMA WorkPosts == Inv /\ Inv' /\ WorksAbove => Ledger!Post
<1> SUFFICES ASSUME Inv, Inv', WorksAbove PROVE Ledger!Post
  OBVIOUS
<1> USE DEF WorksAbove
<1>1. pass.last \in Nat
  BY PassHours
<1>2. ASSUME NEW h \in Hours, Posted(h) PROVE h < pass.last /\ Posted(h)'
  <2>1. PICK g \in Hours : h <= g /\ row[g] # None /\ g < pass.last
    BY <1>1, <1>2 DEF Posted, Begun, Hours
  <2>2. ~Begun(g)'
    BY <1>1, <2>1 DEF Begun, Hours
  <2>3. QED
    BY <1>1, <2>1, <2>2 DEF Posted, Hours
<1>3. ASSUME NEW h \in Hours, Posted(h)'
      PROVE  Value(h)' <= cnt[h] /\ (Value(h)' < cnt[h] => h \in blame')
  <2>1. Passed(h)'
    BY <1>3 DEF Posted, Passed
  <2>2. RowsAreRight'
    BY InvIsEnough, PTL
  <2>3. cnt[h] \in Nat
    BY UsageConstants DEF Inv, TypeOK
  <2>4. QED
    BY <2>1, <2>2, <2>3 DEF RowsAreRight
<1>4. \A h \in Hours : Posted(h) => Value(h)' = Value(h) /\ (h \in blame' <=> h \in blame)
  BY <1>2 DEF Value
<1>5. blame \subseteq Hours /\ blame' \subseteq Hours
  BY DEF Inv, TypeOK
<1>6. \A h \in Hours : Posted(h)' => \A g \in Hours : g <= h => Posted(g)'
  BY DEF Posted, Hours
<1>7. QED
  BY <1>2, <1>3, <1>4, <1>5, <1>6 DEF Ledger!Post, Right

LEMMA AdvanceKeepsLast ==
    Inv /\ pass.pc = "page" /\ Advance => pass'.pc = "idle" \/ pass'.last = pass.last
BY DEF Inv, TypeOK, Advance, Idle

LEMMA PageWorksAbove ==
    ASSUME NEW c \in 0..MaxCount, NEW d \in 0..MaxCount
    PROVE  Inv /\ StorePage(c, d) => WorksAbove
<1> SUFFICES ASSUME Inv, StorePage(c, d) PROVE WorksAbove
  OBVIOUS
<1>1. /\ pass.pc = "page" /\ Advance /\ UNCHANGED <<now, cnt>>
      /\ row' = IF c + d = 0 THEN [row EXCEPT ![pass.last] = 0] ELSE Put(c, d)
      /\ blame' = (blame \ {Hour})
                    \cup {h \in {Hour} : Found > PageSize}
                    \cup {h \in {Hour + 1} : d > 0}
                    \cup {h \in {pass.last} : c + d = 0 /\ pass.i > 0}
  BY DEF StorePage
<1>2. Hour = pass.last + pass.i /\ pass.last \in Nat /\ pass.i \in Nat
  BY <1>1, PassHours
<1>3. ASSUME NEW h \in Hours, h < pass.last
      PROVE  row'[h] = row[h] /\ (h \in blame' <=> h \in blame)
  <2>1. h # Hour /\ h # Hour + 1 /\ h # pass.last
    BY <1>2, <1>3 DEF Hours
  <2>2. row'[h] = row[h]
    <3>1. CASE c + d = 0
      BY <1>1, <2>1, <3>1 DEF Inv, TypeOK
    <3>2. CASE c + d # 0
      BY <1>1, <2>1, <3>2 DEF Put
    <3>3. QED
      BY <3>1, <3>2
  <2>3. QED
    BY <1>1, <2>1, <2>2
<1>4. QED
  BY <1>1, <1>3, AdvanceKeepsLast DEF WorksAbove

LEMMA FailureWorksAbove == Inv /\ (PageFails \/ Abort) => WorksAbove
<1> SUFFICES ASSUME Inv, PageFails \/ Abort PROVE WorksAbove
  OBVIOUS
<1>1. CASE Abort
  BY <1>1 DEF Abort, Idle, WorksAbove
<1>2. CASE PageFails
  <2>1. pass.pc = "page" /\ Advance /\ UNCHANGED <<now, cnt, row>> /\ blame' = blame \cup {Hour}
    BY <1>2 DEF PageFails
  <2>2. \A h \in Hours : h < pass.last => h # Hour
    BY <2>1, PassHours DEF Hours
  <2>3. QED
    BY <2>1, <2>2, AdvanceKeepsLast DEF WorksAbove
<1>3. QED
  BY <1>1, <1>2

(* A pass begins above every row, and blames an hour only without rows.     *)
LEMMA BeginIsSilent == Inv /\ BeginPass => UNCHANGED Ledger!vars
<1> SUFFICES ASSUME Inv, BeginPass PROVE UNCHANGED Ledger!vars
  OBVIOUS
<1>1. PICK t \in 0..(MaxHour + 1) :
        /\ LastTime(t)
        /\ IF t + 1 < now
           THEN /\ pass' = [Idle EXCEPT !.pc = "hour", !.last = t, !.count = now - t - 1]
                /\ blame' = blame \cup {h \in Hours : NoRows /\ IsOldest(h)}
           ELSE UNCHANGED <<pass, blame>>
  BY DEF BeginPass
<1>2. UNCHANGED <<now, cnt, row>> /\ pass.pc = "idle"
  BY DEF BeginPass
<1>3. \A g \in Hours : row[g] # None => g < t
  BY <1>1 DEF LastTime, IsLastRow, NoRows, Hours
<1>4. \A g \in Hours : row[g] # None => ~Begun(g) /\ ~Begun(g)'
  <2>1. CASE t + 1 < now
    <3>1. pass'.last = t
      BY <1>1, <2>1 DEF Idle
    <3>2. QED
      BY <1>2, <1>3, <3>1, UsageConstants DEF Begun, Hours
  <2>2. CASE ~(t + 1 < now)
    BY <1>1, <1>2, <2>2 DEF Begun
  <2>3. QED
    BY <2>1, <2>2
<1>5. \A h \in Hours : Posted(h)' <=> Posted(h)
  BY <1>2, <1>4 DEF Posted
<1>6. \A h \in Hours : Value(h)' = Value(h)
  BY <1>2 DEF Value
<1>7. ASSUME NEW h \in Hours, Posted(h) PROVE h \in blame' <=> h \in blame
  BY <1>1, <1>7 DEF Posted, NoRows
<1>8. blame \subseteq Hours /\ blame' \subseteq Hours
  BY <1>1 DEF Inv, TypeOK
<1>9. {h \in blame : Posted(h)}' = {h \in blame : Posted(h)}
  BY <1>5, <1>7, <1>8
<1>10. QED
  BY <1>2, <1>5, <1>6, <1>9 DEF Ledger!vars

(* A message of a posted hour is late only where the row is blamed.         *)
LEMMA ArrivalIsCounted == ASSUME NEW h \in Hours PROVE Inv /\ Arrive(h) => Ledger!Arrive(h)
<1> SUFFICES ASSUME Inv, Arrive(h) PROVE Ledger!Arrive(h)
  OBVIOUS
<1> USE DEF Arrive
<1>1. Front <= now - 1 /\ Front \in Int /\ now \in Int
  <2>1. now \in Int
    BY DEF Inv, TypeOK, Hours
  <2>2. CASE pass.pc = "idle"
    BY <2>1, <2>2 DEF Front
  <2>3. CASE pass.pc # "idle"
    BY <2>1, <2>3, PassHours DEF Front, Hours
  <2>4. QED
    BY <2>2, <2>3
<1>2. Posted(h) => h \in blame
  <2> SUFFICES ASSUME Posted(h) PROVE h \in blame
    OBVIOUS
  <2>1. PICK g \in Hours : h <= g /\ row[g] # None
    BY DEF Posted
  <2>2. g <= Front /\ (g = Front => g \in blame)
    BY <2>1 DEF Inv, RowsUpToFront
  <2>3. QED
    BY <1>1, <2>1, <2>2 DEF Hours
<1>3. UNCHANGED <<now, row, pass, blame>>
  OBVIOUS
<1>4. QED
  BY <1>2, <1>3 DEF Ledger!Arrive, Posted, Begun, Value

(* selectUsageChart posts the ledger batch by batch, for every bound and    *)
(* every page size.                                                         *)
THEOREM UsageRefinesLedger == Spec => ImplementsLedger
<1>1. Init => Ledger!Init
  BY DEF Init, Ledger!Init, Posted
<1>2. Inv /\ Inv' /\ [Next]_vars => [Ledger!Next]_(Ledger!vars)
  <2> SUFFICES ASSUME Inv, Inv', [Next]_vars PROVE [Ledger!Next]_(Ledger!vars)
    OBVIOUS
  <2>1. CASE UNCHANGED vars
    BY <2>1 DEF vars, Ledger!vars, Posted, Begun, Value
  <2>2. CASE Tick
    BY <2>2 DEF Tick, Ledger!Next, Ledger!Tick, Posted, Begun, Value
  <2>3. CASE \E h \in Hours : Arrive(h)
    BY <2>3, ArrivalIsCounted DEF Ledger!Next
  <2>4. CASE BeginPass
    BY <2>4, BeginIsSilent
  <2>5. CASE CountHour
    <3>1. UNCHANGED <<now, cnt, row, blame>> /\ pass.pc = "hour"
          /\ pass'.pc = "page" /\ pass'.last = pass.last
      BY <2>5 DEF CountHour, Inv, TypeOK
    <3>2. QED
      BY <3>1 DEF Ledger!vars, Posted, Begun, Value
  <2>6. CASE Store
    BY <2>6, PageWorksAbove, WorkPosts DEF Store, Ledger!Next
  <2>7. CASE PageFails \/ Abort
    BY <2>7, FailureWorksAbove, WorkPosts DEF Ledger!Next
  <2>8. QED
    BY <2>1, <2>2, <2>3, <2>4, <2>5, <2>6, <2>7 DEF Next, PassOn
<1>3. QED
  BY <1>1, <1>2, UsageInv, PTL DEF Spec, ImplementsLedger, Ledger!Spec
=============================================================================
