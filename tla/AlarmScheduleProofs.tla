------------------------- MODULE AlarmScheduleProofs -------------------------
(* Proofs about AlarmSchedule, for any days, settings, alarms and bounds. *)
EXTENDS AlarmSchedule, TLAPS, WellFoundedInduction

Pcs     == {"idle", "next", "search", "mail", "log"}
Working == {"search", "mail", "log"}
PassType == [pc : Pcs, at : Hours, todo : SUBSET Rows, cur : Rows \cup {NoAlarm},
             said : Periods, searched : Periods]
Mails == [id : Seqs, set : Settings, at : Hours, name : Hours \X Seqs,
          said : Periods, searched : Periods]

(* The alarms that the pass has listed and not yet done with. *)
Listed == pass.todo \cup (IF pass.pc \in Working THEN {pass.cur} ELSE {})

(* The pass keeps to the hour it began in, or that hour is marked. *)
PassOK ==
    /\ pass \in PassType /\ HoursPerDay <= hour
    /\ pass.pc = "idle" => pass.todo = {}
    /\ pass.pc \in Working => pass.cur \in Rows
    /\ pass.pc # "idle" =>
          /\ pass.at <= hour
          /\ pass.at = hour => fired
          /\ pass.at # hour => pass.at \in crossed

(* The greatest number given is at most the greatest identity. *)
NumbersOK ==
    /\ First <= ids /\ ids + left.edits <= First + MaxEdits
    /\ \A r \in alarms : r.id <= ids /\ r.seq <= ids

(* An alarm of the start has its own identity for a number, and whatever has *)
(* its number while it exists is of it.                                      *)
OriginalsOK ==
    /\ \A r \in alarms \cup Listed \cup logs : r.id <= First => r.seq = r.id
    /\ \A r \in alarms : r.id <= First =>
          /\ \A q \in Listed \cup logs : q.seq = r.seq => q.id = r.id
          /\ r.seq \notin dying

(* The pass has each number once, and wrote no mail yet to one it still has. *)
ListOK ==
    /\ \A q \in Listed : OnTime(q, pass.at)
    /\ \A q, r \in Listed : q.seq = r.seq => q = r
    /\ pass.pc \in Working => pass.cur \notin pass.todo
    /\ \A m \in mails : m.at = pass.at => \A q \in Unwritten : m.name[2] # q.seq

SaidOK ==
    /\ pass.pc \in {"search", "mail"} /\ pass.at = hour =>
          pass.said = <<SaidStart(pass.cur.set), SaidEnd(pass.cur.set)>>
    /\ pass.pc = "mail" /\ pass.at = hour =>
          pass.searched = Searched(pass.cur.set, pass.said)

MailOK(m) ==
    /\ m \in Mails
    /\ m.at <= hour /\ (m.at = hour => fired)
    /\ pass.pc # "idle" => m.at <= pass.at
    /\ m.name[1] <= hour
    /\ m.at \notin crossed => m.name[1] = m.at /\ m.searched = Asked(m.set, m.at)
    /\ m.set.cycle = "D" => m.set.time = HourOfDay(m.at)

NamesOK == \A m, n \in mails : m.at = n.at /\ m.name[2] = n.name[2] => m = n

Wrote(id, h) == \/ \E m \in mails : m.id = id /\ m.at = h
                \/ <<id, h, "unwritten">> \in missed

(* A log row follows a mail, written or not, of that day or an earlier one,  *)
(* and of that day unless a pass ran into another hour.                      *)
Accounted(l) ==
    \/ \E m \in mails : /\ m.id = l.id /\ WrittenOn(m) <= l.day
                        /\ WrittenOn(m) = l.day \/ m.at \in crossed
    \/ \E h \in Hours : /\ <<l.id, h, "unwritten">> \in missed /\ Day(h) <= l.day
                        /\ Day(h) = l.day \/ h \in crossed

LogPhase == pass.pc = "log" => Wrote(pass.cur.id, pass.at)

LogsOK == LogPhase /\ \A l \in logs : l.day <= Day(hour) /\ Accounted(l)

(* A mail has its log row, but for the named reasons. *)
LoggedOK(m) ==
    \A r \in alarms : r.id = m.id /\ m.id <= First =>
        \/ \E l \in logs : l.id = m.id
        \/ <<m.id, m.at, "unlogged">> \in missed
        \/ pass.pc = "log" /\ pass.at = m.at /\ pass.cur.id = m.id

(* Why the log did not show a mail. *)
Unseen(m) ==
    \/ \E o \in mails : o.id = m.id /\ WrittenOn(o) < WrittenOn(m)
    \/ <<m.id, m.at, "unlogged">> \in missed
    \/ \E h \in Hours : <<m.id, h, "unwritten">> \in missed /\ Day(h) < WrittenOn(m)
    \/ m.id > First

(* An alarm is listed again on a day on which it sent only if it changed and *)
(* the log did not show the mail.                                            *)
AgainOK(m) ==
    \A q \in Listed :
        /\ q.id = m.id /\ q.set.cycle = "D" /\ m.set.cycle = "D"
        /\ m.at < pass.at /\ m.at \notin crossed /\ WrittenOn(m) = Day(pass.at)
        => m.set # q.set /\ Unseen(m)

(* Every hour of an alarm is reported, or the pass has the alarm still.      *)
Reported(r, h) ==
    \/ \E m \in mails : m.id = r.id /\ m.at = h /\ (m.searched = Asked(r.set, h) \/ h \in crossed)
    \/ \E w \in Reasons : <<r.id, h, w>> \in missed

HoursOK(r) ==
    \A h \in (r.since + 1)..hour :
        (h = hour => fired) /\ OnTime(r, h) /\ Found(Asked(r.set, h), h) =>
            Reported(r, h) \/ (Running(h) /\ r \in Unwritten)

LateOK == pass.pc # "idle" /\ pass.at # hour =>
              \A q \in Unwritten : <<q.id, pass.at, "late">> \in missed

IInv ==
    /\ TypeOK /\ PassOK /\ NumbersOK /\ OriginalsOK /\ ListOK /\ SaidOK
    /\ \A m \in mails : MailOK(m) /\ LoggedOK(m) /\ AgainOK(m)
    /\ NamesOK /\ LogsOK /\ LateOK
    /\ \A r \in alarms : HoursOK(r)
    /\ KeptOnlyIfExecuted /\ TwiceOnlyIfChanged /\ SaidIsSearched

-----------------------------------------------------------------------------
(* Numbers, days and hours. *)

LEMMA LeastOf ==
    ASSUME NEW T, T \subseteq Nat, T # {}
    PROVE  \E x \in T : \A y \in T : x <= y
<1> DEFINE R == OpToRel(<, Nat)
<1>1. IsWellFoundedOn(R, Nat)
  BY NatLessThanWellFounded, Zenon
<1>2. PICK x \in T : \A y \in T : ~ (<<y, x>> \in R)
  <2> HIDE DEF R
  <2> QED BY <1>1, WFMin, Zenon
<1>3. \A y \in T : <<y, x>> \in R <=> y < x
  BY Zenon DEF OpToRel
<1>4. \A y \in T : ~(y < x)
  BY <1>2, <1>3, Zenon
<1>5. x \in Nat /\ \A y \in T : y \in Nat
  OBVIOUS
<1> QED BY <1>4, <1>5

(* The least upper bound of a bounded set is in it. *)
LEMMA MaxOf ==
    ASSUME NEW S, S \subseteq Nat, S # {}, NEW b \in Nat, \A x \in S : x <= b
    PROVE  Max(S) \in S /\ \A x \in S : x <= Max(S)
<1> DEFINE T == {n \in Nat : \A x \in S : x <= n}
<1>1. PICK n \in T : \A k \in T : n <= k
  <2>1. T \subseteq Nat /\ b \in T
    OBVIOUS
  <2> HIDE DEF T
  <2> QED BY <2>1, LeastOf
<1>2. n \in S
  <2>1. SUFFICES ASSUME n \notin S PROVE FALSE
    OBVIOUS
  <2>2. n \in Nat /\ \A x \in S : x \in Nat /\ x <= n /\ x # n
    BY <2>1
  <2>3. n # 0 /\ n - 1 \in Nat /\ \A x \in S : x <= n - 1
    <3>1. PICK y \in S : TRUE
      OBVIOUS
    <3>2. y \in Nat /\ y < n
      BY <2>2, <3>1
    <3> QED BY <2>2, <3>2
  <2>4. n - 1 \in T
    BY <2>3
  <2> QED BY <1>1, <2>2, <2>4
<1>3. \E m \in S : \A y \in S : m >= y
  BY <1>1, <1>2
<1>4. Max(S) \in S /\ \A y \in S : Max(S) >= y
  BY <1>3 DEF Max
<1> QED BY <1>4

LEMMA DayIs ==
    ASSUME NEW h \in Nat
    PROVE  /\ Day(h) \in Nat /\ HourOfDay(h) \in Nat
           /\ FirstHour(Day(h)) \in Int /\ LastHour(Day(h)) \in Int
BY AlarmConstants DEF Day, HourOfDay, FirstHour, LastHour

LEMMA DaysGrow ==
    ASSUME NEW h \in Nat, NEW k \in Nat, h <= k
    PROVE  Day(h) <= Day(k)
BY AlarmConstants DEF Day

LEMMA HoursOfADayDiffer ==
    ASSUME NEW h \in Nat, NEW k \in Nat, h < k, Day(h) = Day(k)
    PROVE  HourOfDay(h) # HourOfDay(k)
BY AlarmConstants DEF Day, HourOfDay

(* The hour before is of the day before in the first hour only. *)
LEMMA DayOfHourBefore ==
    ASSUME NEW h \in Nat, h # 0
    PROVE  Day(h - 1) = IF HourOfDay(h) = 0 THEN Day(h) - 1 ELSE Day(h)
BY AlarmConstants DEF Day, HourOfDay

LEMMA DayBefore ==
    ASSUME NEW d \in Int
    PROVE  /\ FirstHour(d) \in Int /\ LastHour(d) \in Int
           /\ FirstHour(d) = FirstHour(d - 1) + HoursPerDay
<1>1. HoursPerDay \in Nat
  BY AlarmConstants
<1>2. (d - 1) * HoursPerDay = d * HoursPerDay - HoursPerDay
  BY <1>1
<1> QED BY <1>1, <1>2 DEF FirstHour, LastHour

LEMMA SettingIs ==
    ASSUME NEW s \in Settings
    PROVE  /\ s.cycle \in {"H", "D"}
           /\ s.cycle = "D" => /\ s.time \in Nat /\ s.from \in {"Y", "T"} /\ s.to \in {"Y", "T"}
                               /\ s.from = "T" => s.to = "T"
<1>1. s \in {Hourly} \cup Daily
  BY AlarmConstants
<1>2. CASE s = Hourly
  <2>1. s.cycle = "H"
    BY <1>2 DEF Hourly
  <2> QED BY <2>1
<1>3. CASE s \in Daily
  <2>1. s \in [cycle : {"D"}, time : Times, from : {"Y", "T"}, to : {"Y", "T"}]
        /\ (s.from = "T" => s.to = "T")
    BY <1>3 DEF Daily
  <2>2. Times \subseteq Nat
    BY AlarmConstants DEF Times
  <2> QED BY <2>1, <2>2
<1> QED BY <1>1, <1>2, <1>3

LEMMA Sets ==
    /\ Hours \subseteq Nat /\ Seqs \subseteq Nat /\ First \in Nat /\ First # 0
    /\ MaxHour \in Hours /\ HoursPerDay \in Nat /\ HoursPerDay # 0
BY AlarmConstants DEF Hours, Seqs

-----------------------------------------------------------------------------
(* The types in the form the proofs use. *)
Logs == [seq : Seqs, day : 0..Day(MaxHour), id : Seqs]

AlarmsOK == /\ alarms \subseteq Rows
            /\ \A a, b \in alarms : a.seq = b.seq \/ a.id = b.id => a = b

Budget == [edits : 0..MaxEdits, faults : 0..MaxFaults]

LEMMA TypeParts ==
    ASSUME pass \in PassType
    PROVE  TypeOK <=> /\ hour \in Hours /\ fired \in BOOLEAN /\ ids \in Nat
                      /\ AlarmsOK /\ logs \subseteq Logs /\ dying \subseteq Seqs
                      /\ left \in Budget
                      /\ missed \subseteq Seqs \X Hours \X Reasons /\ crossed \subseteq Hours
BY DEF TypeOK, PassType, Pcs, AlarmsOK, Logs, Budget

LEMMA Facts ==
    ASSUME IInv
    PROVE  /\ pass \in PassType
           /\ hour \in Hours /\ fired \in BOOLEAN /\ ids \in Nat
           /\ AlarmsOK /\ logs \subseteq Logs /\ dying \subseteq Seqs
           /\ left \in Budget
           /\ missed \subseteq Seqs \X Hours \X Reasons /\ crossed \subseteq Hours
           /\ mails \subseteq Mails
           /\ pass.at \in Hours /\ pass.todo \subseteq Rows /\ pass.pc \in Pcs
           /\ pass.said \in Periods /\ pass.searched \in Periods
           /\ Listed \subseteq Rows /\ Unwritten \subseteq Listed
<1>1. pass \in PassType /\ PassOK
  BY DEF IInv, PassOK
<1>2. mails \subseteq Mails
  BY DEF IInv, MailOK
<1>3. /\ pass.at \in Hours /\ pass.todo \subseteq Rows /\ pass.pc \in Pcs
      /\ pass.said \in Periods /\ pass.searched \in Periods
  BY <1>1 DEF PassType
<1>4. Listed \subseteq Rows /\ Unwritten \subseteq Listed
  BY <1>1, <1>3 DEF PassOK, Listed, Unwritten, Working
<1> QED BY <1>1, <1>2, <1>3, <1>4, TypeParts DEF IInv

LEMMA RowIs ==
    ASSUME NEW r \in Rows
    PROVE  /\ r.id \in Nat /\ r.seq \in Nat /\ r.since \in Nat
           /\ r.id \in Seqs /\ r.seq \in Seqs /\ r.set \in Settings
BY Sets DEF Rows

LEMMA MailIs ==
    ASSUME NEW m \in Mails
    PROVE  /\ m.id \in Nat /\ m.at \in Nat /\ m.at \in Hours /\ m.set \in Settings
           /\ m.name[1] \in Nat /\ m.name[2] \in Seqs /\ WrittenOn(m) \in Nat
<1>1. m.id \in Nat /\ m.at \in Hours /\ m.set \in Settings /\ m.name \in Hours \X Seqs
  BY Sets DEF Mails
<1>2. m.name[1] \in Nat /\ m.name[2] \in Seqs
  BY <1>1, Sets
<1> QED BY <1>1, <1>2, Sets, DayIs DEF WrittenOn

LEMMA LogIs ==
    ASSUME NEW l \in Logs
    PROVE  l.day \in Nat /\ l.id \in Nat /\ l.seq \in Seqs /\ l.id \in Seqs
<1>1. Day(MaxHour) \in Nat
  BY Sets, DayIs
<1>2. l.day \in 0..Day(MaxHour) /\ l.id \in Seqs /\ l.seq \in Seqs
  BY DEF Logs
<1>3. l.day \in Nat
  BY <1>1, <1>2
<1>4. l.id \in Nat
  BY <1>2, Sets
<1> QED BY <1>2, <1>3, <1>4

-----------------------------------------------------------------------------
(* What once is written or noted stays. *)
Grows == /\ mails \subseteq mails' /\ missed \subseteq missed' /\ crossed \subseteq crossed'

LEMMA Monotone ==
    ASSUME Grows
    PROVE  /\ \A r, h : Reported(r, h) => Reported(r, h)'
           /\ \A l : Accounted(l) => Accounted(l)'
           /\ \A m : Unseen(m) => Unseen(m)'
           /\ \A id, h : Wrote(id, h) => Wrote(id, h)'
<1>1. ASSUME NEW r, NEW h, Reported(r, h) PROVE Reported(r, h)'
  BY <1>1 DEF Grows, Reported
<1>2. ASSUME NEW l, Accounted(l) PROVE Accounted(l)'
  <2>1. \A m : WrittenOn(m)' = WrittenOn(m)
    BY DEF WrittenOn
  <2> QED BY <1>2, <2>1 DEF Grows, Accounted
<1>3. ASSUME NEW m, Unseen(m) PROVE Unseen(m)'
  BY <1>3 DEF Grows, Unseen, WrittenOn
<1>4. ASSUME NEW id, NEW h, Wrote(id, h) PROVE Wrote(id, h)'
  BY <1>4 DEF Grows, Wrote
<1> QED BY <1>1, <1>2, <1>3, <1>4

-----------------------------------------------------------------------------
(* Steps of operators leave the pass and what it wrote alone. *)
LEMMA OperatorKeeps ==
    ASSUME IInv, UNCHANGED <<clock, pass, seen>>
    PROVE  /\ PassOK' /\ ListOK' /\ SaidOK' /\ NamesOK' /\ LateOK'
           /\ KeptOnlyIfExecuted' /\ TwiceOnlyIfChanged' /\ SaidIsSearched'
           /\ \A m \in mails' : MailOK(m)' /\ AgainOK(m)'
           /\ \A r : HoursOK(r) => HoursOK(r)'
           /\ Listed' = Listed /\ (logs' = logs => LogsOK')
<1>1. UNCHANGED <<hour, fired, pass, mails, missed, crossed>>
  BY DEF clock, seen
<1>2. Listed' = Listed /\ Unwritten' = Unwritten
  BY <1>1 DEF Listed, Unwritten
<1>3. PassOK' /\ ListOK' /\ SaidOK' /\ NamesOK' /\ LateOK'
  BY <1>1, <1>2 DEF IInv, PassOK, ListOK, SaidOK, NamesOK, LateOK, SaidStart, SaidEnd, Searched
<1>4. KeptOnlyIfExecuted' /\ TwiceOnlyIfChanged' /\ SaidIsSearched'
  BY <1>1 DEF IInv, KeptOnlyIfExecuted, TwiceOnlyIfChanged, SaidIsSearched, WrittenOn
<1>5. ASSUME NEW m \in mails' PROVE MailOK(m)' /\ AgainOK(m)'
  BY <1>1, <1>2, <1>5 DEF IInv, MailOK, AgainOK, Unseen, WrittenOn
<1>6. ASSUME NEW r, HoursOK(r) PROVE HoursOK(r)'
  BY <1>1, <1>2, <1>6 DEF HoursOK, Reported, Running
<1>7. logs' = logs => LogsOK'
  BY <1>1 DEF IInv, LogsOK, LogPhase, Accounted, Wrote, WrittenOn
<1> QED BY <1>2, <1>3, <1>4, <1>5, <1>6, <1>7

LEMMA SpendIs ==
    ASSUME IInv, NEW kind \in {"edits", "faults"}, Spend(kind)
    PROVE  /\ left' \in Budget
           /\ kind = "edits" => left.edits > 0 /\ left'.edits = left.edits - 1
           /\ kind = "faults" => left'.edits = left.edits
<1>1. left \in Budget /\ MaxEdits \in Nat /\ MaxFaults \in Nat
  BY Facts, AlarmConstants
<1>2. CASE kind = "edits"
  BY <1>1, <1>2 DEF Spend, Budget
<1>3. CASE kind = "faults"
  BY <1>1, <1>3 DEF Spend, Budget
<1> QED BY <1>2, <1>3

LEMMA NextSeqIs ==
    ASSUME IInv
    PROVE  NextSeq \in Nat /\ NextSeq > 0 /\ NextSeq <= ids + 1 /\ \A r \in alarms : r.seq < NextSeq
<1> DEFINE S == {0} \cup {r.seq : r \in alarms}
<1>1. ids \in Nat /\ \A r \in alarms : r.seq \in Nat /\ r.seq <= ids
  BY Facts, RowIs DEF IInv, NumbersOK, AlarmsOK
<1>2. S \subseteq Nat /\ S # {} /\ \A x \in S : x <= ids
  BY <1>1
<1>3. NextSeq = 1 + Max(S)
  BY DEF NextSeq
<1>4. \A r \in alarms : r.seq \in S
  OBVIOUS
<1> HIDE DEF S
<1>5. Max(S) \in S /\ \A x \in S : x <= Max(S)
  BY <1>1, <1>2, MaxOf
<1>6. Max(S) \in Nat /\ Max(S) <= ids
  BY <1>2, <1>5
<1>7. \A r \in alarms : r.seq \in Nat /\ r.seq <= Max(S)
  BY <1>1, <1>4, <1>5
<1> QED BY <1>1, <1>3, <1>6, <1>7

LEMMA InsertKeeps ==
    ASSUME IInv, NEW s \in Settings, InsertAlarm(s)
    PROVE  IInv'
<1> DEFINE a == [id |-> ids + 1, seq |-> NextSeq, since |-> hour, set |-> s]
<1>1. /\ ids' = ids + 1 /\ alarms' = alarms \cup {a}
      /\ UNCHANGED <<clock, logs, dying, pass, seen>>
      /\ left' \in Budget /\ left.edits > 0 /\ left'.edits = left.edits - 1
  BY SpendIs DEF InsertAlarm
<1>2. /\ a.id = ids + 1 /\ a.seq = NextSeq /\ a.since = hour
      /\ a.id \in Nat /\ a.seq \in Nat /\ hour \in Nat /\ ids \in Nat
  <2>1. NextSeq \in Nat /\ hour \in Nat /\ ids \in Nat
    BY NextSeqIs, Facts, Sets
  <2> QED BY <2>1
<1>3. a \in Rows
  <2>1. ids + 1 \in Seqs /\ NextSeq \in Seqs
    BY <1>1, NextSeqIs, Facts, Sets, AlarmConstants DEF IInv, NumbersOK, Seqs, Budget
  <2> QED BY <2>1, Facts DEF Rows
<1> HIDE DEF a
<1>4. \A r \in alarms : r.id < a.id /\ r.seq < a.seq /\ r.id \in Nat /\ r.seq \in Nat
  BY <1>2, NextSeqIs, RowIs, Facts DEF IInv, NumbersOK, AlarmsOK
<1>5. AlarmsOK'
  BY <1>1, <1>2, <1>3, <1>4, Facts DEF AlarmsOK
<1>6. NumbersOK'
  BY <1>1, <1>2, <1>4, NextSeqIs, Facts, Sets, AlarmConstants DEF IInv, NumbersOK, Budget
<1>7. a.id > First
  BY <1>2, Sets DEF IInv, NumbersOK
<1>8. Listed' = Listed /\ logs' = logs /\ dying' = dying
  BY <1>1, OperatorKeeps
<1>9. OriginalsOK'
  BY <1>1, <1>7, <1>8, <1>2, Sets DEF IInv, OriginalsOK
<1>10. ASSUME NEW m \in mails' PROVE LoggedOK(m)'
  <2>1. m \in mails /\ UNCHANGED <<mails, missed, pass, logs>>
    BY <1>1, <1>10 DEF seen
  <2>2. ASSUME NEW r \in alarms', r.id = m.id, m.id <= First PROVE r \in alarms
    BY <1>1, <1>2, <1>7, <2>2, Sets
  <2> QED BY <2>1, <2>2 DEF IInv, LoggedOK
<1>11. ASSUME NEW r \in alarms' PROVE HoursOK(r)'
  <2>1. CASE r \in alarms
    BY <1>1, <2>1, OperatorKeeps DEF IInv
  <2>2. CASE r = a
    <3>1. hour' = hour /\ (r.since + 1)..hour = {}
      BY <1>1, <1>2, <2>2 DEF clock
    <3> QED BY <3>1 DEF HoursOK
  <2> QED BY <1>1, <1>11, <2>1, <2>2
<1>12. TypeOK'
  <2>1. pass' \in PassType
    BY <1>1, Facts
  <2>2. UNCHANGED <<hour, fired, missed, crossed>>
    BY <1>1 DEF clock, seen
  <2>3. ids' \in Nat
    BY <1>1, <1>2
  <2> QED BY <1>1, <1>5, <2>1, <2>2, <2>3, Facts DEF TypeOK, PassType, Pcs, AlarmsOK, Logs, Budget
<1> QED BY <1>1, <1>6, <1>9, <1>10, <1>11, <1>12, OperatorKeeps DEF IInv

LEMMA ChangedRow ==
    ASSUME NEW r \in Rows, NEW s \in Settings, NEW h \in Hours
    PROVE  /\ [r EXCEPT !.set = s, !.since = h] \in Rows
           /\ [r EXCEPT !.set = s, !.since = h].id = r.id
           /\ [r EXCEPT !.set = s, !.since = h].seq = r.seq
           /\ [r EXCEPT !.set = s, !.since = h].since = h
<1> DEFINE a == [r EXCEPT !.set = s]
<1>1. a \in Rows /\ a.id = r.id /\ a.seq = r.seq
  BY DEF Rows
<1>2. [r EXCEPT !.set = s, !.since = h] = [a EXCEPT !.since = h]
  OBVIOUS
<1> HIDE DEF a
<1>3. /\ [a EXCEPT !.since = h] \in Rows /\ [a EXCEPT !.since = h].id = a.id
      /\ [a EXCEPT !.since = h].seq = a.seq /\ [a EXCEPT !.since = h].since = h
  BY <1>1 DEF Rows
<1> QED BY <1>1, <1>2, <1>3

LEMMA UpdateKeeps ==
    ASSUME IInv, NEW r \in alarms, NEW s \in Settings, UpdateAlarm(r, s)
    PROVE  IInv'
<1>1. /\ alarms' = (alarms \ {r}) \cup {[r EXCEPT !.set = s, !.since = hour]}
      /\ UNCHANGED <<clock, logs, dying, ids, pass, seen>>
      /\ left' \in Budget /\ left'.edits <= left.edits
  <2>1. UpdateAlarm(r, s) => Spend("edits")
    BY DEF UpdateAlarm
  <2>2. left' \in Budget /\ left'.edits = left.edits - 1 /\ left.edits \in Nat
    BY <2>1, SpendIs, Facts DEF Budget
  <2> QED BY <2>2 DEF UpdateAlarm
<1>2. PICK a \in Rows : /\ alarms' = (alarms \ {r}) \cup {a}
                        /\ a.id = r.id /\ a.seq = r.seq /\ a.since = hour
  <2>1. r \in Rows /\ hour \in Hours
    BY Facts DEF AlarmsOK
  <2>2. /\ [r EXCEPT !.set = s, !.since = hour] \in Rows
        /\ [r EXCEPT !.set = s, !.since = hour].id = r.id
        /\ [r EXCEPT !.set = s, !.since = hour].seq = r.seq
        /\ [r EXCEPT !.set = s, !.since = hour].since = hour
    BY <2>1, ChangedRow, Zenon
  <2> QED BY <1>1, <2>2, Zenon
<1>3. UNCHANGED <<hour, fired, missed, crossed, mails>> /\ Listed' = Listed
  BY <1>1, OperatorKeeps DEF clock, seen
<1>4. AlarmsOK'
  BY <1>2, Facts DEF AlarmsOK
<1>5. NumbersOK'
  BY <1>1, <1>2, Facts, Sets, AlarmConstants DEF IInv, NumbersOK, Budget
<1>6. OriginalsOK'
  BY <1>1, <1>2, <1>3 DEF IInv, OriginalsOK
<1>7. \A m \in mails' : LoggedOK(m)'
  BY <1>1, <1>2, <1>3 DEF IInv, LoggedOK
<1>8. ASSUME NEW q \in alarms' PROVE HoursOK(q)'
  <2>1. CASE q \in alarms
    BY <1>1, <2>1, OperatorKeeps DEF IInv
  <2>2. CASE q = a
    <3>1. hour' = hour /\ hour \in Nat /\ q.since = hour
      BY <1>2, <1>3, <2>2, Facts, Sets
    <3>2. (q.since + 1)..hour = {}
      BY <3>1
    <3> QED BY <3>1, <3>2 DEF HoursOK
  <2> QED BY <1>2, <1>8, <2>1, <2>2
<1>9. TypeOK'
  <2>1. pass' \in PassType
    BY <1>1, Facts
  <2> QED BY <1>1, <1>3, <1>4, <2>1, Facts DEF TypeOK, PassType, Pcs, AlarmsOK, Logs, Budget
<1> QED BY <1>1, <1>5, <1>6, <1>7, <1>8, <1>9, OperatorKeeps DEF IInv

LEMMA DeleteKeeps ==
    ASSUME IInv, NEW r \in alarms, DeleteAlarm(r)
    PROVE  IInv'
<1>1. /\ alarms' = alarms \ {r} /\ dying' = dying \cup {r.seq}
      /\ UNCHANGED <<clock, logs, ids, pass, seen>>
      /\ left' \in Budget /\ left'.edits <= left.edits
  <2>1. DeleteAlarm(r) => Spend("edits")
    BY DEF DeleteAlarm
  <2>2. left' \in Budget /\ left'.edits = left.edits - 1 /\ left.edits \in Nat
    BY <2>1, SpendIs, Facts DEF Budget
  <2> QED BY <2>2 DEF DeleteAlarm
<1>2. UNCHANGED <<hour, fired, missed, crossed, mails>> /\ Listed' = Listed
  BY <1>1, OperatorKeeps DEF clock, seen
<1>3. AlarmsOK' /\ dying' \subseteq Seqs
  BY <1>1, Facts, RowIs DEF AlarmsOK
<1>4. NumbersOK'
  BY <1>1, Facts, Sets, AlarmConstants DEF IInv, NumbersOK, Budget
<1>5. OriginalsOK'
  <2>1. \A q \in alarms' : q \in alarms /\ q.seq # r.seq
    BY <1>1, Facts DEF AlarmsOK
  <2> QED BY <1>1, <1>2, <2>1 DEF IInv, OriginalsOK
<1>6. \A m \in mails' : LoggedOK(m)'
  BY <1>1, <1>2 DEF IInv, LoggedOK
<1>7. \A q \in alarms' : HoursOK(q)'
  BY <1>1, OperatorKeeps DEF IInv
<1>8. TypeOK'
  <2>1. pass' \in PassType
    BY <1>1, Facts
  <2> QED BY <1>1, <1>2, <1>3, <2>1, Facts DEF TypeOK, PassType, Pcs, AlarmsOK, Logs, Budget
<1> QED BY <1>1, <1>4, <1>5, <1>6, <1>7, <1>8, OperatorKeeps DEF IInv

(* The log rows that go are not those of an alarm of the start that exists.  *)
LEMMA DeleteLogKeeps ==
    ASSUME IInv, NEW seq \in dying, DeleteAlarmLog(seq)
    PROVE  IInv'
<1>1. /\ dying' = dying \ {seq} /\ logs' = {l \in logs : l.seq # seq}
      /\ UNCHANGED <<clock, alarms, ids, pass, left, seen>>
  BY DEF DeleteAlarmLog
<1>2. UNCHANGED <<hour, fired, missed, crossed, mails>> /\ Listed' = Listed
  BY <1>1, OperatorKeeps DEF clock, seen
<1>3. NumbersOK'
  BY <1>1 DEF IInv, NumbersOK
<1>4. OriginalsOK'
  BY <1>1, <1>2 DEF IInv, OriginalsOK
<1>5. ASSUME NEW m \in mails' PROVE LoggedOK(m)'
  <2>1. LoggedOK(m)
    BY <1>2, <1>5 DEF IInv
  <2>2. ASSUME NEW r \in alarms, r.id = m.id, m.id <= First, NEW l \in logs, l.id = m.id
        PROVE  l \in logs'
    <3>1. r.seq = r.id /\ r.seq \notin dying /\ l.seq = l.id
      BY <2>2 DEF IInv, OriginalsOK
    <3> QED BY <1>1, <2>2, <3>1
  <2> QED BY <1>1, <1>2, <2>1, <2>2 DEF LoggedOK
<1>6. \A q \in alarms' : HoursOK(q)'
  BY <1>1, OperatorKeeps DEF IInv
<1>7. LogsOK'
  <2>1. \A l : Accounted(l) => Accounted(l)'
    BY <1>2, Monotone DEF Grows
  <2> QED BY <1>1, <1>2, <2>1 DEF IInv, LogsOK, LogPhase, Wrote
<1>8. TypeOK'
  <2>1. pass' \in PassType
    BY <1>1, Facts
  <2> QED BY <1>1, <1>2, <2>1, Facts DEF TypeOK, PassType, Pcs, AlarmsOK, Logs, Budget
<1> QED BY <1>1, <1>3, <1>4, <1>5, <1>6, <1>7, <1>8, OperatorKeeps DEF IInv

-----------------------------------------------------------------------------
(* What the steps of a pass between its begin and its end have in common:    *)
(* it goes on with what it has, or ends; it adds mails, log rows and notes.  *)
GoesOn ==
    /\ UNCHANGED <<hour, fired, alarms, dying, ids, crossed>>
    /\ mails \subseteq mails' /\ missed \subseteq missed' /\ logs \subseteq logs'
    /\ left' \in Budget /\ left'.edits = left.edits
    /\ pass.pc # "idle" /\ pass' \in PassType
    /\ pass'.pc # "idle" => pass'.at = pass.at
    /\ pass'.pc = "idle" => pass'.todo = {}
    /\ pass'.pc \in Working => pass'.cur \in Rows /\ pass'.cur \notin pass'.todo
    /\ Listed' \subseteq Listed /\ Unwritten' \subseteq Unwritten
    /\ missed' \subseteq Seqs \X Hours \X Reasons
    /\ \A k \in missed' \ missed : k[3] \notin {"logged", "inherited"}
    /\ logs' \subseteq Logs

LEMMA GoesOnKeeps ==
    ASSUME IInv, GoesOn
    PROVE  /\ TypeOK' /\ PassOK' /\ NumbersOK' /\ KeptOnlyIfExecuted' /\ LateOK'
           /\ \A m \in mails : MailOK(m)' /\ AgainOK(m)'
           /\ Grows /\ (pass'.pc = "idle" => Listed' = {} /\ Unwritten' = {})
<1>1. Grows
  BY DEF GoesOn, Grows
<1>2. pass'.pc = "idle" => Listed' = {} /\ Unwritten' = {}
  BY DEF GoesOn, Listed, Unwritten, Working
<1>3. TypeOK'
  BY Facts DEF GoesOn, TypeOK, PassType, Pcs, AlarmsOK, Logs, Budget
<1>4. PassOK'
  BY DEF GoesOn, IInv, PassOK
<1>5. NumbersOK'
  BY DEF GoesOn, IInv, NumbersOK
<1>6. KeptOnlyIfExecuted'
  <2>1. SUFFICES ASSUME NEW k \in missed'
                 PROVE  /\ k[3] = "inherited" => k[1] > First
                        /\ k[3] = "logged" =>
                              \/ \E m \in mails' : m.id = k[1] /\ (WrittenOn(m) = Day(k[2]) \/ m.at \in crossed)
                              \/ \E h \in Hours : /\ <<k[1], h, "unwritten">> \in missed'
                                                  /\ Day(h) = Day(k[2]) \/ h \in crossed
    BY DEF KeptOnlyIfExecuted, GoesOn, WrittenOn
  <2>2. CASE k \in missed
    BY <2>2 DEF IInv, KeptOnlyIfExecuted, GoesOn
  <2>3. CASE k \notin missed
    BY <2>3 DEF GoesOn
  <2> QED BY <2>2, <2>3
<1>7. LateOK'
  BY DEF GoesOn, IInv, LateOK
<1>8. ASSUME NEW m \in mails PROVE MailOK(m)'
  BY <1>8 DEF GoesOn, IInv, MailOK
<1>9. ASSUME NEW m \in mails PROVE AgainOK(m)'
  <2>1. AgainOK(m) /\ (Unseen(m) => Unseen(m)')
    BY <1>1, <1>9, Monotone DEF IInv
  <2>2. SUFFICES ASSUME NEW q \in Listed', q.id = m.id, q.set.cycle = "D", m.set.cycle = "D",
                        m.at < pass'.at, m.at \notin crossed, WrittenOn(m) = Day(pass'.at)
                 PROVE  m.set # q.set /\ Unseen(m)'
    BY DEF AgainOK, GoesOn, WrittenOn
  <2>3. q \in Listed /\ pass'.at = pass.at
    BY <1>2, <2>2 DEF GoesOn
  <2> QED BY <2>1, <2>2, <2>3 DEF AgainOK
<1> QED BY <1>1, <1>2, <1>3, <1>4, <1>5, <1>6, <1>7, <1>8, <1>9

LEMMA GoesOnRows ==
    ASSUME IInv, GoesOn,
           \A l \in logs' \ logs : \E q \in Listed : q.seq = l.seq /\ q.id = l.id
    PROVE  OriginalsOK'
<1>1. \A q \in Listed' \cup logs' : \E r \in Listed \cup logs : r.seq = q.seq /\ r.id = q.id
  BY DEF GoesOn
<1>2. alarms' = alarms /\ dying' = dying
  BY DEF GoesOn
<1>3. \A r \in alarms' \cup Listed' \cup logs' : r.id <= First => r.seq = r.id
  BY <1>1, <1>2 DEF IInv, OriginalsOK
<1>4. ASSUME NEW r \in alarms', r.id <= First
      PROVE  (\A q \in Listed' \cup logs' : q.seq = r.seq => q.id = r.id) /\ r.seq \notin dying'
  BY <1>1, <1>2, <1>4 DEF IInv, OriginalsOK
<1> QED BY <1>3, <1>4 DEF OriginalsOK

LEMMA GoesOnList ==
    ASSUME IInv, GoesOn,
           \A m \in mails' \ mails : \A q \in Unwritten' : m.name[2] # q.seq
    PROVE  ListOK'
<1>1. CASE pass'.pc = "idle"
  <2>1. Listed' = {} /\ Unwritten' = {} /\ pass'.pc \notin Working
    BY <1>1, GoesOnKeeps DEF Working
  <2> QED BY <2>1 DEF ListOK
<1>2. CASE pass'.pc # "idle"
  <2>1. pass'.at = pass.at /\ Listed' \subseteq Listed /\ Unwritten' \subseteq Unwritten
    BY <1>2 DEF GoesOn
  <2>2. pass'.pc \in Working => pass'.cur \notin pass'.todo
    BY DEF GoesOn
  <2> QED BY <2>1, <2>2 DEF IInv, ListOK
<1> QED BY <1>1, <1>2

(* Every alarm the pass lets go of is reported. *)
LEMMA GoesOnHours ==
    ASSUME IInv, GoesOn,
           \A r \in Unwritten, h \in Hours : h = pass.at =>
               \/ pass'.pc # "idle" /\ r \in Unwritten'
               \/ Found(Asked(r.set, h), h) => Reported(r, h)'
    PROVE  \A r \in alarms' : HoursOK(r)'
<1>1. SUFFICES ASSUME NEW r \in alarms, NEW h \in (r.since + 1)..hour,
                      h = hour => fired, OnTime(r, h), Found(Asked(r.set, h), h)
               PROVE  Reported(r, h)' \/ (Running(h)' /\ r \in Unwritten')
  BY DEF HoursOK, GoesOn
<1>2. Reported(r, h) \/ (Running(h) /\ r \in Unwritten)
  BY <1>1 DEF IInv, HoursOK
<1>3. CASE Reported(r, h)
  BY <1>3, GoesOnKeeps, Monotone
<1>4. CASE Running(h) /\ r \in Unwritten
  <2>1. h = pass.at /\ h \in Hours
    BY <1>4, Facts DEF Running
  <2>2. pass'.pc # "idle" => Running(h)'
    BY <2>1 DEF Running, GoesOn
  <2> QED BY <1>1, <1>4, <2>1, <2>2
<1> QED BY <1>2, <1>3, <1>4

LEMMA GoesOnLogs ==
    ASSUME IInv, GoesOn,
           \A l \in logs' \ logs : l.day <= Day(hour) /\ Accounted(l)',
           LogPhase',
           pass.pc = "log" => \/ pass'.pc = "log" /\ pass'.cur = pass.cur
                              \/ \E l \in logs' : l.id = pass.cur.id
                              \/ <<pass.cur.id, pass.at, "unlogged">> \in missed'
    PROVE  LogsOK' /\ \A m \in mails : LoggedOK(m)'
<1>1. \A l \in logs : Accounted(l)'
  BY GoesOnKeeps, Monotone DEF IInv, LogsOK
<1>2. LogsOK'
  BY <1>1 DEF IInv, LogsOK, GoesOn
<1>3. ASSUME NEW m \in mails PROVE LoggedOK(m)'
  BY <1>3 DEF IInv, LoggedOK, GoesOn
<1> QED BY <1>2, <1>3

LEMMA OldPairs ==
    ASSUME IInv, GoesOn, NEW m \in mails, NEW n \in mails, m.id = n.id, m.at < n.at,
           WrittenOn(m) = WrittenOn(n), m.set.cycle = "D", n.set.cycle = "D"
    PROVE  {m.at, n.at} \cap crossed # {} \/ (m.set # n.set /\ Unseen(m)')
<1>1. {m.at, n.at} \cap crossed # {} \/ (m.set # n.set /\ Unseen(m))
  BY DEF IInv, TwiceOnlyIfChanged, Unseen
<1> QED BY <1>1, GoesOnKeeps, Monotone

(* Without a new mail. *)
LEMMA SilentKeeps ==
    ASSUME IInv, GoesOn, mails' = mails
    PROVE  NamesOK' /\ TwiceOnlyIfChanged' /\ SaidIsSearched'
<1>1. NamesOK'
  BY DEF IInv, NamesOK
<1>2. TwiceOnlyIfChanged'
  <2>1. SUFFICES ASSUME NEW m \in mails, NEW n \in mails, m.id = n.id, m.at < n.at,
                        WrittenOn(m) = WrittenOn(n), m.set.cycle = "D", n.set.cycle = "D"
                 PROVE  \/ {m.at, n.at} \cap crossed # {}
                        \/ m.set # n.set /\ Unseen(m)'
    BY DEF TwiceOnlyIfChanged, GoesOn, WrittenOn, Unseen
  <2> QED BY <2>1, OldPairs
<1>3. SaidIsSearched'
  BY DEF IInv, SaidIsSearched, GoesOn
<1> QED BY <1>1, <1>2, <1>3

(* A step without a new mail. *)
LEMMA SilentStep ==
    ASSUME IInv, GoesOn, mails' = mails, SaidOK', LogPhase',
           \A l \in logs' \ logs : /\ \E q \in Listed : q.seq = l.seq /\ q.id = l.id
                                   /\ l.day <= Day(hour) /\ Accounted(l)',
           pass.pc = "log" => \/ pass'.pc = "log" /\ pass'.cur = pass.cur
                              \/ \E l \in logs' : l.id = pass.cur.id
                              \/ <<pass.cur.id, pass.at, "unlogged">> \in missed',
           \A r \in Unwritten, h \in Hours : h = pass.at =>
               \/ pass'.pc # "idle" /\ r \in Unwritten'
               \/ Found(Asked(r.set, h), h) => Reported(r, h)'
    PROVE  IInv'
<1>1. OriginalsOK'
  BY GoesOnRows
<1>2. ListOK'
  BY GoesOnList
<1>3. \A r \in alarms' : HoursOK(r)'
  BY GoesOnHours
<1>4. LogsOK' /\ \A m \in mails : LoggedOK(m)'
  BY GoesOnLogs
<1> QED BY <1>1, <1>2, <1>3, <1>4, GoesOnKeeps, SilentKeeps DEF IInv

-----------------------------------------------------------------------------
(* The periods. *)
LEMMA PeriodsAre ==
    ASSUME IInv, NEW s \in Settings
    PROVE  LET said == <<SaidStart(s), SaidEnd(s)>>
               asked == Asked(s, hour)
           IN  /\ said \in Periods /\ asked \in Periods
               /\ Searched(s, said) = asked
               /\ \/ said = asked
                  \/ /\ s.from = "Y" /\ HourOfDay(hour) # 0
                     /\ said = <<asked[1] + HoursPerDay, asked[2]>>
<1>1. hour \in Nat /\ hour # 0 /\ hour - 1 \in Nat /\ HoursPerDay \in Nat
  <2>1. hour \in Nat /\ HoursPerDay \in Nat /\ HoursPerDay # 0 /\ HoursPerDay <= hour
    BY Facts, Sets DEF IInv, PassOK
  <2> QED BY <2>1
<1>2. CASE s.cycle = "H"
  BY <1>1, <1>2 DEF SaidStart, SaidEnd, Asked, Searched, Periods
<1>3. CASE s.cycle # "H"
  <2>1. /\ SaidStart(s) = FirstHour(IF s.from = "Y" THEN Day(hour - 1) ELSE Day(hour))
        /\ Asked(s, hour) = <<FirstHour(IF s.from = "Y" THEN Day(hour) - 1 ELSE Day(hour)), SaidEnd(s)>>
        /\ Searched(s, <<SaidStart(s), SaidEnd(s)>>) = Asked(s, hour)
        /\ SaidEnd(s) = LastHour(IF s.to = "Y" THEN Day(hour) - 1 ELSE Day(hour))
    BY <1>3 DEF SaidStart, SaidEnd, Asked, Searched, AskedRange
  <2>2. /\ Day(hour) \in Int /\ Day(hour) - 1 \in Int
        /\ Day(hour - 1) = IF HourOfDay(hour) = 0 THEN Day(hour) - 1 ELSE Day(hour)
    BY <1>1, DayIs, DayOfHourBefore
  <2>3. /\ FirstHour(Day(hour)) \in Int /\ FirstHour(Day(hour) - 1) \in Int
        /\ LastHour(Day(hour)) \in Int /\ LastHour(Day(hour) - 1) \in Int
        /\ FirstHour(Day(hour)) = FirstHour(Day(hour) - 1) + HoursPerDay
    BY <2>2, DayBefore
  <2>4. SaidStart(s) \in Int /\ SaidEnd(s) \in Int
    BY <2>1, <2>2, <2>3
  <2> DEFINE first == FirstHour(IF s.from = "Y" THEN Day(hour) - 1 ELSE Day(hour))
  <2>5. first \in Int
    BY <2>3
  <2>6. SaidStart(s) = first \/ (s.from = "Y" /\ HourOfDay(hour) # 0 /\ SaidStart(s) = first + HoursPerDay)
    BY <2>1, <2>2, <2>3
  <2>7. Asked(s, hour) = <<first, SaidEnd(s)>>
    BY <2>1
  <2> HIDE DEF first
  <2> QED BY <2>1, <2>4, <2>5, <2>6, <2>7 DEF Periods
<1> QED BY <1>2, <1>3

-----------------------------------------------------------------------------
(* The steps of a pass. *)
LEMMA TakenPass ==
    ASSUME NEW p \in PassType, NEW r \in Rows, NEW d \in Periods
    PROVE  [p EXCEPT !.pc = "search", !.cur = r, !.todo = @ \ {r}, !.said = d]
              = [pc |-> "search", at |-> p.at, todo |-> p.todo \ {r}, cur |-> r,
                 said |-> d, searched |-> p.searched]
<1>1. p = [pc |-> p.pc, at |-> p.at, todo |-> p.todo, cur |-> p.cur, said |-> p.said,
           searched |-> p.searched]
  BY DEF PassType
<1>2. ASSUME NEW q, q = [p EXCEPT !.pc = "search", !.cur = r, !.todo = @ \ {r}, !.said = d]
      PROVE  q = [pc |-> "search", at |-> p.at, todo |-> p.todo \ {r}, cur |-> r,
          said |-> d, searched |-> p.searched]
  BY <1>1, <1>2
<1> QED BY <1>2, Zenon

LEMMA TakeKeeps ==
    ASSUME IInv, NEW r \in pass.todo, Take(r)
    PROVE  IInv'
<1>1. /\ pass.pc = "next"
      /\ UNCHANGED <<hour, fired, alarms, logs, dying, ids, left, mails, missed, crossed>>
      /\ r \in Rows /\ r.set \in Settings
      /\ pass \in PassType
  BY Facts, RowIs DEF Take, clock, rows, seen
<1> DEFINE said == <<SaidStart(r.set), SaidEnd(r.set)>>
<1>2. said \in Periods
  BY <1>1, PeriodsAre
<1>3. pass' = [pass EXCEPT !.pc = "search", !.cur = r, !.todo = @ \ {r}, !.said = said]
  BY Zenon DEF Take
<1>4. /\ pass' \in PassType /\ pass'.said = said
      /\ pass'.pc = "search" /\ pass'.at = pass.at /\ pass'.todo = pass.todo \ {r} /\ pass'.cur = r
  <2> HIDE DEF said
  <2>3. r \in Rows
    BY <1>1
  <2>1. pass \in PassType
    BY <1>1
  <2>2. pass' = [pc |-> "search", at |-> pass.at, todo |-> pass.todo \ {r}, cur |-> r,
                 said |-> said, searched |-> pass.searched]
    BY <1>2, <1>3, <2>3, <2>1, TakenPass, Zenon
  <2> QED BY <1>1, <1>2, <2>2 DEF PassType, Pcs
<1>5. /\ Listed' = pass.todo /\ Listed = pass.todo
      /\ Unwritten' = pass.todo /\ Unwritten = pass.todo
  BY <1>1, <1>4 DEF Listed, Unwritten, Working
<1>6. GoesOn
  BY <1>1, <1>4, <1>5, Facts DEF GoesOn, Working
<1>7. SaidOK'
  BY <1>1, <1>4 DEF SaidOK, SaidStart, SaidEnd
<1>8. LogPhase'
  BY <1>4 DEF LogPhase
<1> QED BY <1>1, <1>4, <1>5, <1>6, <1>7, <1>8, SilentStep

LEMMA SearchedPass ==
    ASSUME NEW p \in PassType, NEW l \in Pcs, NEW d \in Periods
    PROVE  [p EXCEPT !.searched = d, !.pc = l]
              = [pc |-> l, at |-> p.at, todo |-> p.todo, cur |-> p.cur, said |-> p.said,
                 searched |-> d]
<1>1. p = [pc |-> p.pc, at |-> p.at, todo |-> p.todo, cur |-> p.cur, said |-> p.said,
           searched |-> p.searched]
  BY DEF PassType
<1>2. ASSUME NEW q, q = [p EXCEPT !.searched = d, !.pc = l]
      PROVE  q = [pc |-> l, at |-> p.at, todo |-> p.todo, cur |-> p.cur, said |-> p.said,
          searched |-> d]
  BY <1>1, <1>2
<1> QED BY <1>2, Zenon

(* An alarm for which nothing is found has no mail for its hour coming,      *)
(* unless the search was of another hour.                                    *)
LEMMA SearchKeeps ==
    ASSUME IInv, Search
    PROVE  IInv'
<1>1. /\ pass.pc = "search"
      /\ UNCHANGED <<hour, fired, alarms, logs, dying, ids, left, mails, missed, crossed>>
      /\ pass \in PassType /\ pass.cur \in Rows /\ pass.cur.set \in Settings
      /\ pass.cur \notin pass.todo
  BY Facts, RowIs DEF Search, clock, rows, seen, IInv, PassOK, ListOK, Working
<1> DEFINE period == Searched(pass.cur.set, pass.said)
           l == IF Found(period, hour) THEN "mail" ELSE "next"
<1>2. period \in Periods
  <2>1. Searched(pass.cur.set, <<SaidStart(pass.cur.set), SaidEnd(pass.cur.set)>>) \in Periods
    BY <1>1, PeriodsAre
  <2> QED BY <2>1, Facts DEF Searched
<1>3. l \in Pcs /\ l \in {"mail", "next"}
  BY DEF Pcs
<1>4. pass' = [pass EXCEPT !.searched = period, !.pc = l]
  BY Zenon DEF Search
<1>5. /\ pass' \in PassType /\ pass'.said = pass.said /\ pass'.searched = period
      /\ pass'.pc = l /\ pass'.at = pass.at /\ pass'.todo = pass.todo /\ pass'.cur = pass.cur
  <2> HIDE DEF period, l
  <2>3. l \in Pcs
    BY <1>3
  <2>1. pass \in PassType
    BY <1>1
  <2>2. pass' = [pc |-> l, at |-> pass.at, todo |-> pass.todo, cur |-> pass.cur,
                 said |-> pass.said, searched |-> period]
    BY <1>2, <1>4, <2>3, <2>1, SearchedPass, Zenon
  <2> QED BY <1>1, <1>2, <1>3, <2>2 DEF PassType, Pcs
<1>6. /\ Listed' \subseteq Listed /\ Unwritten' \subseteq Unwritten
      /\ \A r \in Unwritten : r \in Unwritten' \/ (r = pass.cur /\ l = "next")
  BY <1>1, <1>3, <1>5 DEF Listed, Unwritten, Working
<1>7. GoesOn
  BY <1>1, <1>3, <1>5, <1>6, Facts DEF GoesOn, Working
<1>8. SaidOK'
  <2>1. pass'.at = hour => pass'.said = <<SaidStart(pass'.cur.set), SaidEnd(pass'.cur.set)>>
    BY <1>1, <1>5 DEF IInv, SaidOK
  <2> QED BY <1>1, <1>5, <2>1 DEF SaidOK, SaidStart, SaidEnd, Searched
<1>9. LogPhase'
  BY <1>3, <1>5 DEF LogPhase
<1>10. ASSUME NEW h \in Hours, h = pass.at, l = "next"
       PROVE  Found(Asked(pass.cur.set, h), h) => Reported(pass.cur, h)'
  <2>1. CASE h = hour
    <3>1. pass.said = <<SaidStart(pass.cur.set), SaidEnd(pass.cur.set)>>
      BY <1>1, <1>10, <2>1 DEF IInv, SaidOK
    <3>2. period = Asked(pass.cur.set, hour)
      BY <1>1, <3>1, PeriodsAre
    <3> QED BY <1>10, <2>1, <3>2
  <2>2. CASE h # hour
    <3>1. <<pass.cur.id, h, "late">> \in missed' /\ "late" \in Reasons
      BY <1>1, <1>10, <2>2 DEF IInv, LateOK, Unwritten, Reasons
    <3> QED BY <1>5, <3>1 DEF Reported
  <2> QED BY <2>1, <2>2
<1>11. \A r \in Unwritten, h \in Hours : h = pass.at =>
           \/ pass'.pc # "idle" /\ r \in Unwritten'
           \/ Found(Asked(r.set, h), h) => Reported(r, h)'
  BY <1>3, <1>5, <1>6, <1>10
<1> HIDE DEF l, period
<1> QED BY <1>1, <1>7, <1>8, <1>9, <1>11, SilentStep

(* The pass after a step that changes its phase only. *)
LEMMA PhasePass ==
    ASSUME NEW p \in PassType, NEW l \in Pcs
    PROVE  /\ [p EXCEPT !.pc = l] \in PassType
           /\ [p EXCEPT !.pc = l].pc = l /\ [p EXCEPT !.pc = l].at = p.at
           /\ [p EXCEPT !.pc = l].todo = p.todo /\ [p EXCEPT !.pc = l].cur = p.cur
           /\ [p EXCEPT !.pc = l].said = p.said /\ [p EXCEPT !.pc = l].searched = p.searched
BY DEF PassType

LEMMA RestIs ==
    /\ Rest \in PassType
    /\ Rest.pc = "idle" /\ Rest.at = 0 /\ Rest.todo = {}
<1>1. 0 \in Hours /\ <<0, 0>> \in Periods
  BY AlarmConstants DEF Hours, Periods
<1> QED BY <1>1 DEF Rest, PassType, Pcs

LEMMA FinishKeeps ==
    ASSUME IInv, Finish
    PROVE  IInv'
<1>1. /\ pass.pc = "next" /\ pass.todo = {} /\ pass' = Rest
      /\ UNCHANGED <<hour, fired, alarms, logs, dying, ids, left, mails, missed, crossed>>
  BY DEF Finish, clock, rows, seen
<1>2. pass' \in PassType /\ pass'.pc = "idle" /\ pass'.todo = {}
  BY <1>1, RestIs
<1>3. Listed' = {} /\ Unwritten' = {} /\ Unwritten = {}
  BY <1>1, <1>2 DEF Listed, Unwritten, Working
<1>4. GoesOn
  BY <1>1, <1>2, <1>3, Facts DEF GoesOn, Working
<1>5. SaidOK' /\ LogPhase'
  BY <1>2 DEF SaidOK, LogPhase
<1> QED BY <1>1, <1>3, <1>4, <1>5, SilentStep

LEMMA MissingIs ==
    ASSUME NEW rs \in SUBSET Rows, NEW h \in Hours, NEW why \in Reasons
    PROVE  /\ Missing(rs, h, why) \subseteq Seqs \X Hours \X Reasons
           /\ \A k \in Missing(rs, h, why) : k[3] = why /\ k[2] = h
           /\ \A k \in Missing(rs, h, why) : \E r \in rs : k[1] = r.id
           /\ \A r \in rs : <<r.id, h, why>> \in Missing(rs, h, why)
BY RowIs DEF Missing

LEMMA ReasonsAre ==
    {"logged", "inherited", "failed", "unwritten", "unlogged", "skipped", "late"} = Reasons
BY DEF Reasons

(* Whatever the pass has left is noted. *)
LEMMA FailKeeps ==
    ASSUME IInv, Fail
    PROVE  IInv'
<1> DEFINE now == IF pass.pc = "log" THEN {pass.cur} ELSE {}
<1>1. /\ pass.pc \in {"search", "mail", "log"} /\ pass' = Rest /\ Spend("faults")
      /\ missed' = missed \cup Missing(Unwritten, pass.at, "failed") \cup Missing(now, pass.at, "unlogged")
      /\ UNCHANGED <<hour, fired, alarms, logs, dying, ids, mails, crossed>>
  BY DEF Fail, clock, rows
<1>2. pass' \in PassType /\ pass'.pc = "idle" /\ pass'.todo = {}
  BY <1>1, RestIs
<1>3. Listed' = {} /\ Unwritten' = {}
  BY <1>1, <1>2 DEF Listed, Unwritten, Working
<1>4. left' \in Budget /\ left'.edits = left.edits
  BY <1>1, SpendIs
<1>5. /\ Unwritten \in SUBSET Rows /\ now \in SUBSET Rows /\ pass.at \in Hours
      /\ "failed" \in Reasons /\ "unlogged" \in Reasons
  BY <1>1, Facts, ReasonsAre DEF IInv, PassOK, Working
<1>6. pass.pc = "log" => now = {pass.cur}
  OBVIOUS
<1> HIDE DEF now
<1>7. /\ missed' \subseteq Seqs \X Hours \X Reasons /\ missed \subseteq missed'
      /\ \A k \in missed' \ missed : k[3] \notin {"logged", "inherited"}
  BY <1>1, <1>5, MissingIs, Facts
<1>8. GoesOn
  BY <1>1, <1>2, <1>3, <1>4, <1>7, Facts DEF GoesOn, Working
<1>9. SaidOK' /\ LogPhase'
  BY <1>2 DEF SaidOK, LogPhase
<1>10. pass.pc = "log" => <<pass.cur.id, pass.at, "unlogged">> \in missed'
  BY <1>1, <1>5, <1>6, MissingIs
<1>11. ASSUME NEW r \in Unwritten, NEW h \in Hours, h = pass.at
       PROVE  \E w \in Reasons : <<r.id, h, w>> \in missed'
  BY <1>1, <1>5, <1>11, MissingIs
<1>12. \A r \in Unwritten, h \in Hours : h = pass.at => Reported(r, h)'
  BY <1>11 DEF Reported
<1> QED BY <1>1, <1>8, <1>9, <1>10, <1>12, SilentStep

(* The hour of the pass, while that is the hour it is. *)
LEMMA PassHour ==
    ASSUME IInv, pass.pc # "idle"
    PROVE  /\ hour \in Nat /\ pass.at \in Nat /\ pass.at <= hour
           /\ Day(pass.at) <= Day(hour) /\ Day(hour) \in 0..Day(MaxHour)
           /\ (pass.at = hour /\ fired) \/ pass.at \in crossed
<1>1. hour \in Nat /\ pass.at \in Nat /\ MaxHour \in Nat /\ hour <= MaxHour
  BY Facts, Sets DEF Hours
<1>2. pass.at <= hour /\ ((pass.at = hour /\ fired) \/ pass.at \in crossed)
  BY DEF IInv, PassOK
<1>3. Day(pass.at) <= Day(hour) /\ Day(hour) <= Day(MaxHour)
  BY <1>1, <1>2, DaysGrow
<1>4. Day(hour) \in Nat /\ Day(MaxHour) \in Nat
  BY <1>1, DayIs
<1> QED BY <1>1, <1>2, <1>3, <1>4

(* The log row is of the day of the mail, unless the pass ran into another   *)
(* hour after it.                                                            *)
LEMMA LogKeeps ==
    ASSUME IInv, InsertAlarmLog
    PROVE  IInv'
<1>1. PICK n : n = [seq |-> pass.cur.seq, day |-> Day(hour), id |-> pass.cur.id]
  OBVIOUS
<1>2. /\ pass.pc = "log" /\ logs' = logs \cup {n} /\ pass' = [pass EXCEPT !.pc = "next"]
      /\ UNCHANGED <<hour, fired, alarms, dying, ids, left, mails, missed, crossed>>
      /\ pass.cur \in Rows /\ pass \in PassType
  BY <1>1, Facts DEF InsertAlarmLog, clock, seen, IInv, PassOK, Working
<1>3. "next" \in Pcs
  BY DEF Pcs
<1>4. /\ pass' \in PassType /\ pass'.pc = "next" /\ pass'.at = pass.at
      /\ pass'.todo = pass.todo /\ pass'.cur = pass.cur
  BY <1>2, <1>3, PhasePass
<1>5. n.seq = pass.cur.seq /\ n.day = Day(hour) /\ n.id = pass.cur.id /\ pass.cur \in Listed
  BY <1>1, <1>2 DEF Listed, Working
<1>6. n \in Logs
  BY <1>1, <1>2, PassHour, RowIs DEF Logs
<1>7. Listed' \subseteq Listed /\ Unwritten' = Unwritten
  BY <1>2, <1>4 DEF Listed, Unwritten, Working
<1>8. GoesOn
  BY <1>2, <1>4, <1>6, <1>7, Facts DEF GoesOn, Working
<1>9. SaidOK' /\ LogPhase'
  BY <1>4 DEF SaidOK, LogPhase
<1>10. Accounted(n)
  <2>1. Wrote(pass.cur.id, pass.at)
    BY <1>2 DEF IInv, LogsOK, LogPhase
  <2>2. CASE \E m \in mails : m.id = pass.cur.id /\ m.at = pass.at
    <3>1. PICK m \in mails : m.id = n.id /\ m.at = pass.at
      BY <1>5, <2>2
    <3>2. m.name[1] \in Nat /\ m.name[1] <= hour /\ (m.at \notin crossed => m.name[1] = m.at)
      BY <3>1, Facts, MailIs DEF IInv, MailOK
    <3>3. WrittenOn(m) <= n.day
      BY <1>2, <1>5, <3>2, PassHour, DaysGrow DEF WrittenOn
    <3>4. WrittenOn(m) = n.day \/ m.at \in crossed
      BY <1>2, <1>5, <3>1, <3>2, PassHour DEF WrittenOn
    <3> QED BY <3>1, <3>3, <3>4 DEF Accounted
  <2>3. CASE <<pass.cur.id, pass.at, "unwritten">> \in missed
    <3>1. pass.at \in Hours /\ Day(pass.at) <= n.day /\ (Day(pass.at) = n.day \/ pass.at \in crossed)
      BY <1>2, <1>5, PassHour, Facts
    <3> QED BY <1>5, <2>3, <3>1 DEF Accounted
  <2> QED BY <2>1, <2>2, <2>3 DEF Wrote
<1>11. Accounted(n)'
  BY <1>8, <1>10, GoesOnKeeps, Monotone
<1>12. \A l \in logs' \ logs : /\ \E q \in Listed : q.seq = l.seq /\ q.id = l.id
                               /\ l.day <= Day(hour) /\ Accounted(l)'
  <2>1. n.day <= Day(hour)
    BY <1>2, <1>5, PassHour
  <2> QED BY <1>2, <1>5, <1>11, <2>1
<1>13. \E l \in logs' : l.id = pass.cur.id
  BY <1>2, <1>5
<1> QED BY <1>2, <1>4, <1>7, <1>8, <1>9, <1>12, <1>13, SilentStep

(* The mail tells its hour, and the period that was searched. *)
LEMMA MailKeeps ==
    ASSUME IInv, CreateMail, mails' = mails \cup {Mail}
    PROVE  IInv'
<1>1. PICK m : m = [id |-> pass.cur.id, set |-> pass.cur.set, at |-> pass.at,
                    name |-> <<hour, pass.cur.seq>>, said |-> pass.said, searched |-> pass.searched]
  OBVIOUS
<1>2. /\ pass.pc = "mail" /\ mails' = mails \cup {m} /\ pass' = [pass EXCEPT !.pc = "log"]
      /\ UNCHANGED <<hour, fired, alarms, logs, dying, ids, crossed>>
      /\ pass.cur \in Rows /\ pass \in PassType /\ pass.cur \notin pass.todo
  BY <1>1, Facts DEF CreateMail, Mail, Name, clock, rows, IInv, PassOK, ListOK, Working
<1>3. "log" \in Pcs
  BY DEF Pcs
<1>4. /\ pass' \in PassType /\ pass'.pc = "log" /\ pass'.at = pass.at
      /\ pass'.todo = pass.todo /\ pass'.cur = pass.cur
  BY <1>2, <1>3, PhasePass
<1>5. /\ m.id = pass.cur.id /\ m.set = pass.cur.set /\ m.at = pass.at
      /\ m.name[1] = hour /\ m.name[2] = pass.cur.seq
      /\ m.said = pass.said /\ m.searched = pass.searched
  BY <1>1
<1>6. m \in Mails
  BY <1>1, <1>2, Facts, RowIs DEF Mails
<1>7. /\ Listed' = Listed /\ Unwritten' = pass.todo /\ Unwritten = pass.todo \cup {pass.cur}
      /\ pass.cur \in Listed
  BY <1>2, <1>4 DEF Listed, Unwritten, Working
<1>8. left' \in Budget /\ left'.edits = left.edits /\ missed \subseteq missed'
      /\ missed' \subseteq Seqs \X Hours \X Reasons
      /\ \A k \in missed' \ missed : k[3] \notin {"logged", "inherited"}
  <2>1. CASE UNCHANGED <<left, missed>>
    BY <2>1, Facts
  <2>2. CASE /\ Spend("faults")
             /\ missed' = missed \cup Missing({pass.cur}, pass.at, "unwritten")
    <3>1. {pass.cur} \in SUBSET Rows /\ "unwritten" \in Reasons /\ pass.at \in Hours
      BY <1>2, ReasonsAre, Facts
    <3> QED BY <2>2, <3>1, SpendIs, MissingIs, Facts
  <2> QED BY <2>1, <2>2 DEF CreateMail
<1>9. GoesOn
  BY <1>2, <1>4, <1>7, <1>8, Facts DEF GoesOn, Working
<1>10. /\ Grows /\ TypeOK' /\ PassOK' /\ NumbersOK' /\ KeptOnlyIfExecuted' /\ LateOK'
       /\ \A n \in mails : MailOK(n)' /\ AgainOK(n)'
  BY <1>9, GoesOnKeeps
<1>11. OriginalsOK'
  BY <1>2, <1>9, GoesOnRows
<1>12. ListOK'
  <2>1. \A q \in Unwritten' : m.name[2] # q.seq
    BY <1>2, <1>5, <1>7, Facts DEF IInv, ListOK
  <2> QED BY <1>2, <1>9, <2>1, GoesOnList
<1>13. pass.at \notin crossed =>
          /\ pass.at = hour /\ m.searched = Asked(m.set, hour)
          /\ m.said = <<SaidStart(m.set), SaidEnd(m.set)>>
  <2>1. SUFFICES ASSUME pass.at \notin crossed
                 PROVE  /\ pass.at = hour /\ m.searched = Asked(m.set, hour)
                        /\ m.said = <<SaidStart(m.set), SaidEnd(m.set)>>
    OBVIOUS
  <2>2. pass.at = hour /\ pass.cur.set \in Settings
    BY <1>2, <2>1, PassHour, RowIs
  <2>3. /\ pass.said = <<SaidStart(pass.cur.set), SaidEnd(pass.cur.set)>>
        /\ pass.searched = Searched(pass.cur.set, pass.said)
    BY <1>2, <2>2 DEF IInv, SaidOK
  <2> QED BY <1>5, <2>2, <2>3, PeriodsAre
<1>14. MailOK(m)'
  <2>1. m.at <= hour /\ (m.at = hour => fired) /\ m.name[1] <= hour
    BY <1>2, <1>5, PassHour DEF IInv, PassOK
  <2>2. m.set.cycle = "D" => m.set.time = HourOfDay(m.at)
    BY <1>2, <1>5, <1>7, RowIs, SettingIs DEF IInv, ListOK, OnTime
  <2>3. m.at <= pass.at
    BY <1>2, <1>5, PassHour
  <2> QED BY <1>2, <1>4, <1>5, <1>6, <1>13, <2>1, <2>2, <2>3 DEF MailOK
<1>15. AgainOK(m)'
  BY <1>2, <1>4, <1>5, PassHour DEF AgainOK
<1>16. NamesOK'
  <2>1. \A n \in mails : n.at = m.at => n.name[2] # m.name[2]
    BY <1>5, <1>7 DEF IInv, ListOK
  <2> QED BY <1>2, <2>1 DEF IInv, NamesOK
<1>17. LogsOK' /\ \A n \in mails : LoggedOK(n)'
  <2>1. LogPhase'
    BY <1>2, <1>4, <1>5 DEF LogPhase, Wrote
  <2> QED BY <1>2, <1>9, <2>1, GoesOnLogs
<1>18. LoggedOK(m)'
  BY <1>4, <1>5 DEF LoggedOK
<1>19. \A r \in alarms' : HoursOK(r)'
  <2>1. ASSUME NEW h \in Hours, h = pass.at PROVE Reported(pass.cur, h)'
    BY <1>2, <1>4, <1>5, <1>13, <2>1 DEF Reported
  <2> QED BY <1>4, <1>7, <1>9, <2>1, GoesOnHours
<1>20. SaidOK'
  BY <1>4 DEF SaidOK
<1>21. TwiceOnlyIfChanged'
  <2>1. SUFFICES ASSUME NEW o \in mails', NEW n \in mails', o.id = n.id, o.at < n.at,
                        WrittenOn(o) = WrittenOn(n), o.set.cycle = "D", n.set.cycle = "D"
                 PROVE  {o.at, n.at} \cap crossed # {} \/ (o.set # n.set /\ Unseen(o)')
    BY <1>2 DEF TwiceOnlyIfChanged, WrittenOn, Unseen
  <2>2. CASE o \in mails /\ n \in mails
    BY <1>9, <2>1, <2>2, OldPairs
  <2>3. CASE n = m /\ o # m
    <3>1. o \in mails /\ AgainOK(o)
      BY <1>2, <2>1, <2>3 DEF IInv
    <3>2. SUFFICES ASSUME o.at \notin crossed, pass.at \notin crossed
                   PROVE  o.set # m.set /\ Unseen(o)'
      BY <1>5, <2>3
    <3>3. WrittenOn(o) = Day(pass.at)
      BY <1>5, <1>13, <2>1, <2>3, <3>2 DEF WrittenOn
    <3>4. o.set # m.set /\ Unseen(o)
      BY <1>5, <1>7, <2>1, <2>3, <3>1, <3>2, <3>3 DEF AgainOK
    <3> QED BY <1>10, <3>4, Monotone
  <2>4. CASE o = m
    <3>1. n.at <= m.at /\ n.at \in Nat /\ m.at \in Nat
      <4>1. CASE n = m
        BY <1>6, <4>1, MailIs
      <4>2. CASE n \in mails
        BY <1>2, <1>5, <1>6, <4>2, Facts, MailIs DEF IInv, MailOK
      <4> QED BY <1>2, <2>1, <4>1, <4>2
    <3> QED BY <2>1, <2>4, <3>1
  <2> QED BY <1>2, <2>1, <2>2, <2>3, <2>4
<1>22. SaidIsSearched'
  <2>1. \/ m.said = m.searched
        \/ m.at \in crossed
        \/ /\ m.set.from = "Y" /\ HourOfDay(m.at) # 0
           /\ m.said = <<m.searched[1] + HoursPerDay, m.searched[2]>>
    <3>1. CASE pass.at \in crossed
      BY <1>5, <3>1
    <3>2. CASE pass.at \notin crossed
      <4>1. m.set \in Settings
        BY <1>6, MailIs
      <4> QED BY <1>5, <1>13, <3>2, <4>1, PeriodsAre
    <3> QED BY <3>1, <3>2
  <2> QED BY <1>2, <2>1 DEF IInv, SaidIsSearched
<1> QED BY <1>2, <1>10, <1>11, <1>12, <1>14, <1>15, <1>16, <1>17, <1>18, <1>19, <1>20, <1>21, <1>22
        DEF IInv

(* A mail that could not be written. *)
LEMMA NoMailKeeps ==
    ASSUME IInv, CreateMail, mails' = mails, Spend("faults"),
           missed' = missed \cup Missing({pass.cur}, pass.at, "unwritten")
    PROVE  IInv'
<1>1. /\ pass.pc = "mail" /\ pass' = [pass EXCEPT !.pc = "log"]
      /\ UNCHANGED <<hour, fired, alarms, logs, dying, ids, crossed>>
      /\ pass.cur \in Rows /\ pass \in PassType /\ pass.cur \notin pass.todo
  BY Facts DEF CreateMail, clock, rows, IInv, PassOK, ListOK, Working
<1>2. "log" \in Pcs
  BY DEF Pcs
<1>3. /\ pass' \in PassType /\ pass'.pc = "log" /\ pass'.at = pass.at
      /\ pass'.todo = pass.todo /\ pass'.cur = pass.cur
  BY <1>1, <1>2, PhasePass
<1>4. /\ Listed' = Listed /\ Unwritten' = pass.todo /\ Unwritten = pass.todo \cup {pass.cur}
  BY <1>1, <1>3 DEF Listed, Unwritten, Working
<1>5. {pass.cur} \in SUBSET Rows /\ "unwritten" \in Reasons /\ pass.at \in Hours
  BY <1>1, ReasonsAre, Facts
<1>6. left' \in Budget /\ left'.edits = left.edits
  BY SpendIs
<1>7. /\ missed' \subseteq Seqs \X Hours \X Reasons
      /\ \A k \in missed' \ missed : k[3] \notin {"logged", "inherited"}
      /\ <<pass.cur.id, pass.at, "unwritten">> \in missed'
  BY <1>5, MissingIs, Facts
<1>8. GoesOn
  BY <1>1, <1>3, <1>4, <1>6, <1>7, Facts DEF GoesOn, Working
<1>9. SaidOK' /\ LogPhase'
  BY <1>3, <1>7 DEF SaidOK, LogPhase, Wrote
<1>10. ASSUME NEW h \in Hours, h = pass.at PROVE Reported(pass.cur, h)'
  BY <1>3, <1>5, <1>7, <1>10 DEF Reported
<1> QED BY <1>1, <1>3, <1>4, <1>8, <1>9, <1>10, SilentStep

LEMMA CreateKeeps ==
    ASSUME IInv, CreateMail
    PROVE  IInv'
<1>1. CASE mails' = mails \cup {Mail}
  BY <1>1, MailKeeps
<1>2. CASE /\ mails' = mails /\ Spend("faults")
           /\ missed' = missed \cup Missing({pass.cur}, pass.at, "unwritten")
  BY <1>2, NoMailKeeps
<1> QED BY <1>1, <1>2 DEF CreateMail

-----------------------------------------------------------------------------
(* Steps of the clock, and the begin of a pass. *)
KeptOK(k) ==
    /\ k[3] = "inherited" => k[1] > First
    /\ k[3] = "logged" =>
          \/ \E m \in mails : m.id = k[1] /\ (WrittenOn(m) = Day(k[2]) \/ m.at \in crossed)
          \/ \E h \in Hours : /\ <<k[1], h, "unwritten">> \in missed
                              /\ Day(h) = Day(k[2]) \/ h \in crossed

LEMMA GrowsKeeps ==
    ASSUME IInv, Grows, mails' = mails
    PROVE  /\ NamesOK' /\ TwiceOnlyIfChanged' /\ SaidIsSearched'
           /\ \A k \in missed : KeptOK(k)'
           /\ \A l \in logs : Accounted(l)'
           /\ LogPhase /\ UNCHANGED pass => LogPhase'
<1>1. NamesOK'
  BY DEF IInv, NamesOK
<1>2. TwiceOnlyIfChanged'
  <2>1. SUFFICES ASSUME NEW m \in mails, NEW n \in mails, m.id = n.id, m.at < n.at,
                        WrittenOn(m) = WrittenOn(n), m.set.cycle = "D", n.set.cycle = "D"
                 PROVE  {m.at, n.at} \cap crossed' # {} \/ (m.set # n.set /\ Unseen(m)')
    BY DEF TwiceOnlyIfChanged, WrittenOn, Unseen
  <2>2. {m.at, n.at} \cap crossed # {} \/ (m.set # n.set /\ Unseen(m))
    BY <2>1 DEF IInv, TwiceOnlyIfChanged, Unseen
  <2>3. Unseen(m) => Unseen(m)'
    BY Monotone
  <2>4. crossed \subseteq crossed'
    BY DEF Grows
  <2> QED BY <2>2, <2>3, <2>4
<1>3. SaidIsSearched'
  BY DEF IInv, SaidIsSearched, Grows
<1>4. ASSUME NEW k \in missed PROVE KeptOK(k)'
  <2>1. KeptOK(k)
    BY <1>4 DEF IInv, KeptOnlyIfExecuted, KeptOK
  <2>2. \A m : WrittenOn(m)' = WrittenOn(m)
    BY DEF WrittenOn
  <2> QED BY <2>1, <2>2 DEF KeptOK, Grows
<1>5. \A l \in logs : Accounted(l)'
  BY Monotone DEF IInv, LogsOK
<1>6. LogPhase /\ UNCHANGED pass => LogPhase'
  BY Monotone DEF LogPhase
<1> QED BY <1>1, <1>2, <1>3, <1>4, <1>5, <1>6

(* The clock goes on, and the pass with it. *)
LEMMA ClockKeeps ==
    ASSUME IInv, Grows,
           UNCHANGED <<alarms, logs, dying, ids, pass, mails>>,
           left' \in Budget, left'.edits = left.edits,
           hour' \in Hours, hour <= hour', fired' \in BOOLEAN,
           missed' \subseteq Seqs \X Hours \X Reasons, crossed' \subseteq Hours,
           \A k \in missed' \ missed : k[3] \notin {"logged", "inherited"}
    PROVE  /\ TypeOK' /\ NumbersOK' /\ OriginalsOK' /\ ListOK' /\ NamesOK' /\ LogsOK'
           /\ \A m \in mails' : LoggedOK(m)' /\ AgainOK(m)'
           /\ KeptOnlyIfExecuted' /\ TwiceOnlyIfChanged' /\ SaidIsSearched'
           /\ Listed' = Listed /\ Unwritten' = Unwritten
<1>1. Listed' = Listed /\ Unwritten' = Unwritten
  BY DEF Listed, Unwritten
<1>2. TypeOK'
  BY Facts DEF TypeOK, PassType, Pcs, AlarmsOK, Logs, Budget
<1>3. NumbersOK' /\ OriginalsOK' /\ ListOK'
  BY <1>1 DEF IInv, NumbersOK, OriginalsOK, ListOK
<1>4. NamesOK' /\ TwiceOnlyIfChanged' /\ SaidIsSearched' /\ LogPhase'
  BY GrowsKeeps DEF IInv, LogsOK
<1>5. LogsOK'
  <2>1. ASSUME NEW l \in logs PROVE l.day <= Day(hour')
    <3>1. l.day \in Nat /\ l.day <= Day(hour)
      BY LogIs, Facts DEF IInv, LogsOK
    <3>2. hour \in Nat /\ hour' \in Nat
      BY Facts, Sets
    <3>3. Day(hour) \in Nat /\ Day(hour') \in Nat /\ Day(hour) <= Day(hour')
      BY <3>2, DayIs, DaysGrow
    <3> QED BY <3>1, <3>3
  <2>2. Day(hour)' = Day(hour')
    BY DEF Day
  <2> QED BY <1>4, <2>1, <2>2, GrowsKeeps DEF LogsOK
<1>6. ASSUME NEW m \in mails PROVE LoggedOK(m)' /\ AgainOK(m)'
  <2>1. LoggedOK(m) /\ AgainOK(m) /\ (Unseen(m) => Unseen(m)')
    BY Monotone DEF IInv
  <2>2. LoggedOK(m)'
    BY <2>1 DEF LoggedOK, Grows
  <2>3. \A q \in Listed : q.id = m.id /\ q.set.cycle = "D" /\ m.set.cycle = "D"
          /\ m.at < pass.at /\ m.at \notin crossed /\ WrittenOn(m) = Day(pass.at)
          => m.set # q.set /\ Unseen(m)'
    BY <2>1 DEF AgainOK
  <2>4. WrittenOn(m)' = WrittenOn(m) /\ Day(pass.at)' = Day(pass.at) /\ crossed \subseteq crossed'
    BY DEF WrittenOn, Day, Grows
  <2>5. AgainOK(m)'
    BY <1>1, <2>3, <2>4 DEF AgainOK
  <2> QED BY <2>2, <2>5
<1>7. \A k \in missed' : KeptOK(k)'
  <2>1. \A k \in missed' \ missed : KeptOK(k)'
    BY DEF KeptOK
  <2> QED BY <2>1, GrowsKeeps
<1>8. KeptOnlyIfExecuted'
  BY <1>7 DEF KeptOnlyIfExecuted, KeptOK
<1> QED BY <1>1, <1>2, <1>3, <1>4, <1>5, <1>6, <1>8

LEMMA SkipKeeps ==
    ASSUME IInv, SkipHour
    PROVE  IInv'
<1> DEFINE rs == {r \in alarms : OnTime(r, hour)}
<1>1. /\ ~fired /\ fired' = TRUE
      /\ missed' = missed \cup Missing(rs, hour, "skipped")
      /\ UNCHANGED <<hour, alarms, logs, dying, ids, pass, mails, crossed>>
  BY DEF SkipHour, rows
<1>2. left' \in Budget /\ left'.edits = left.edits
  <2>1. CASE UNCHANGED left
    BY <2>1, Facts
  <2>2. CASE Spend("faults")
    BY <2>2, SpendIs
  <2> QED BY <2>1, <2>2 DEF SkipHour
<1>3. rs \in SUBSET Rows /\ hour \in Hours /\ "skipped" \in Reasons
  BY Facts, ReasonsAre DEF AlarmsOK
<1>4. \A r \in alarms : OnTime(r, hour) => r \in rs
  OBVIOUS
<1> HIDE DEF rs
<1>5. /\ missed' \subseteq Seqs \X Hours \X Reasons
      /\ \A k \in missed' \ missed : k[3] \notin {"logged", "inherited"}
      /\ \A r \in alarms : OnTime(r, hour) => <<r.id, hour, "skipped">> \in missed'
  BY <1>1, <1>3, <1>4, MissingIs, Facts
<1>6. Grows /\ hour' \in Hours /\ hour <= hour' /\ fired' \in BOOLEAN /\ crossed' \subseteq Hours
  <2>1. hour \in Nat /\ hour' = hour
    BY <1>1, Facts, Sets
  <2>2. hour <= hour'
    BY <2>1
  <2>3. fired' \in BOOLEAN
    BY <1>1
  <2> QED BY <1>1, <2>2, <2>3, Facts DEF Grows
<1>7. /\ TypeOK' /\ NumbersOK' /\ OriginalsOK' /\ ListOK' /\ NamesOK' /\ LogsOK'
      /\ \A m \in mails' : LoggedOK(m)' /\ AgainOK(m)'
      /\ KeptOnlyIfExecuted' /\ TwiceOnlyIfChanged' /\ SaidIsSearched'
      /\ Listed' = Listed /\ Unwritten' = Unwritten
  BY <1>1, <1>2, <1>5, <1>6, ClockKeeps
<1>8. PassOK' /\ SaidOK'
  BY <1>1 DEF IInv, PassOK, SaidOK, SaidStart, SaidEnd, Searched
<1>9. \A m \in mails' : MailOK(m)'
  BY <1>1 DEF IInv, MailOK
<1>10. LateOK'
  BY <1>1, <1>7 DEF IInv, LateOK
<1>11. ASSUME NEW r \in alarms' PROVE HoursOK(r)'
  <2>1. SUFFICES ASSUME NEW h \in (r.since + 1)..hour, OnTime(r, h), Found(Asked(r.set, h), h)
                 PROVE  Reported(r, h)' \/ (Running(h)' /\ r \in Unwritten')
    BY <1>1 DEF HoursOK
  <2>2. r \in alarms
    BY <1>1, <1>11
  <2>3. CASE h = hour
    <3>1. <<r.id, h, "skipped">> \in missed'
      BY <1>5, <2>1, <2>2, <2>3
    <3> QED BY <1>3, <3>1 DEF Reported
  <2>4. CASE h # hour
    <3>1. Reported(r, h) \/ (Running(h) /\ r \in Unwritten)
      BY <2>1, <2>2, <2>4 DEF IInv, HoursOK
    <3>2. Running(h) => Running(h)'
      BY <1>1 DEF Running
    <3> QED BY <1>6, <1>7, <3>1, <3>2, Monotone
  <2> QED BY <2>3, <2>4
<1> QED BY <1>7, <1>8, <1>9, <1>10, <1>11 DEF IInv

(* A pass that the next hour finds running is marked. *)
LEMMA TickKeeps ==
    ASSUME IInv, Tick
    PROVE  IInv'
<1>1. /\ fired /\ hour < MaxHour /\ hour' = hour + 1 /\ fired' = FALSE
      /\ UNCHANGED <<alarms, logs, dying, ids, pass, mails>>
  BY DEF Tick, rows
<1>2. /\ left' \in Budget /\ left'.edits = left.edits
      /\ Grows /\ crossed' \subseteq Hours
      /\ missed' \subseteq Seqs \X Hours \X Reasons
      /\ \A k \in missed' \ missed : k[3] \notin {"logged", "inherited"}
      /\ pass.pc # "idle" => /\ pass.at \in crossed'
                             /\ \A r \in Unwritten : <<r.id, pass.at, "late">> \in missed'
  <2>1. CASE pass.pc = "idle" /\ UNCHANGED <<left, missed, crossed>>
    BY <1>1, <2>1, Facts DEF Grows
  <2>2. CASE /\ pass.pc # "idle" /\ Spend("faults")
             /\ crossed' = crossed \cup {pass.at}
             /\ missed' = missed \cup Missing(Unwritten, pass.at, "late")
    <3>1. Unwritten \in SUBSET Rows /\ "late" \in Reasons /\ pass.at \in Hours
      BY Facts, ReasonsAre
    <3>2. left' \in Budget /\ left'.edits = left.edits
      BY <2>2, SpendIs
    <3>3. /\ missed' \subseteq Seqs \X Hours \X Reasons
          /\ \A k \in missed' \ missed : k[3] \notin {"logged", "inherited"}
          /\ \A r \in Unwritten : <<r.id, pass.at, "late">> \in missed'
      BY <2>2, <3>1, MissingIs, Facts
    <3>4. Grows /\ crossed' \subseteq Hours
      BY <1>1, <2>2, <3>1, Facts DEF Grows
    <3> QED BY <2>2, <3>2, <3>3, <3>4
  <2> QED BY <2>1, <2>2 DEF Tick
<1>3. hour \in Nat /\ hour' \in Hours /\ hour <= hour' /\ fired' \in BOOLEAN
  <2>1. hour \in Nat /\ MaxHour \in Nat
    BY Facts, Sets
  <2>2. hour' \in 0..MaxHour /\ hour <= hour'
    BY <1>1, <2>1
  <2>3. fired' \in BOOLEAN
    BY <1>1
  <2> QED BY <2>1, <2>2, <2>3 DEF Hours
<1>4. /\ TypeOK' /\ NumbersOK' /\ OriginalsOK' /\ ListOK' /\ NamesOK' /\ LogsOK'
      /\ \A m \in mails' : LoggedOK(m)' /\ AgainOK(m)'
      /\ KeptOnlyIfExecuted' /\ TwiceOnlyIfChanged' /\ SaidIsSearched'
      /\ Listed' = Listed /\ Unwritten' = Unwritten
  BY <1>1, <1>2, <1>3, ClockKeeps
<1>5. pass.pc # "idle" => pass.at \in Nat /\ pass.at < hour'
  <2>1. pass.pc # "idle" => pass.at \in Nat /\ pass.at <= hour
    BY PassHour
  <2> QED BY <1>1, <1>3, <2>1
<1>6. PassOK'
  <2>1. pass' \in PassType /\ HoursPerDay <= hour'
    BY <1>1, <1>3, Facts, Sets DEF IInv, PassOK
  <2>2. pass.pc # "idle" => pass.at <= hour' /\ pass.at # hour'
    BY <1>3, <1>5, Sets
  <2> QED BY <1>1, <1>2, <2>1, <2>2 DEF IInv, PassOK
<1>7. SaidOK'
  BY <1>1, <1>5 DEF SaidOK
<1>8. ASSUME NEW m \in mails' PROVE MailOK(m)'
  <2>1. m \in mails /\ MailOK(m) /\ m.at \in Nat /\ m.name[1] \in Nat
    BY <1>1, <1>8, Facts, MailIs DEF IInv
  <2>2. m.at < hour' /\ m.at <= hour' /\ m.name[1] <= hour'
    <3>1. m.at <= hour /\ m.name[1] <= hour
      BY <2>1 DEF MailOK
    <3> QED BY <1>1, <1>3, <2>1, <3>1
  <2>3. m.at # hour'
    BY <2>1, <2>2
  <2>4. crossed \subseteq crossed'
    BY <1>2 DEF Grows
  <2> QED BY <1>1, <2>1, <2>2, <2>3, <2>4 DEF MailOK
<1>9. LateOK'
  BY <1>1, <1>2, <1>4 DEF LateOK
<1>10. ASSUME NEW r \in alarms' PROVE HoursOK(r)'
  <2>1. r \in alarms /\ r.since \in Nat
    BY <1>1, <1>10, Facts, RowIs DEF AlarmsOK
  <2>2. SUFFICES ASSUME NEW h \in (r.since + 1)..hour', h # hour', OnTime(r, h),
                        Found(Asked(r.set, h), h)
                 PROVE  Reported(r, h)' \/ (Running(h)' /\ r \in Unwritten')
    BY <1>1 DEF HoursOK
  <2>3. h \in (r.since + 1)..hour
    BY <1>1, <1>3, <2>1, <2>2
  <2>4. Reported(r, h) \/ (Running(h) /\ r \in Unwritten)
    BY <1>1, <2>1, <2>2, <2>3 DEF IInv, HoursOK
  <2>5. Running(h) => Running(h)'
    BY <1>1 DEF Running
  <2> QED BY <1>2, <1>4, <2>4, <2>5, Monotone
<1> QED BY <1>4, <1>6, <1>7, <1>8, <1>9, <1>10 DEF IInv

LEMMA BegunPass ==
    ASSUME NEW h \in Hours, NEW t \in SUBSET Rows
    PROVE  [Rest EXCEPT !.pc = "next", !.at = h, !.todo = t]
              = [pc |-> "next", at |-> h, todo |-> t, cur |-> NoAlarm,
                 said |-> <<0, 0>>, searched |-> <<0, 0>>]
<1>1. ASSUME NEW q, q = [Rest EXCEPT !.pc = "next", !.at = h, !.todo = t]
      PROVE  q = [pc |-> "next", at |-> h, todo |-> t, cur |-> NoAlarm,
                  said |-> <<0, 0>>, searched |-> <<0, 0>>]
  BY <1>1 DEF Rest
<1> QED BY <1>1, Zenon

(* An alarm is listed again on a day on which it sent only if it changed, and *)
(* then its log rows, which are of the day or earlier, are not all of the day. *)
LEMMA ListedAgain ==
    ASSUME IInv, pass.pc = "idle", NEW m \in mails, NEW q \in Due, q.id = m.id,
           q.set.cycle = "D", m.set.cycle = "D", m.at < hour, m.at \notin crossed,
           WrittenOn(m) = Day(hour)
    PROVE  m.set # q.set /\ Unseen(m)
<1>1. /\ q \in alarms /\ q \in Rows /\ q.set \in Settings /\ q.id \in Nat /\ hour \in Nat
      /\ OnTime(q, hour) /\ ~Executed(q)
  BY Facts, Sets, RowIs DEF Due, AlarmsOK
<1>2. m \in Mails /\ m.at \in Nat /\ MailOK(m) /\ LoggedOK(m)
  BY Facts, MailIs DEF IInv
<1>3. m.set # q.set
  <2>1. Day(m.at) = Day(hour) /\ m.set.time = HourOfDay(m.at)
    BY <1>2 DEF MailOK, WrittenOn
  <2>2. HourOfDay(m.at) # HourOfDay(hour)
    BY <1>1, <1>2, <2>1, HoursOfADayDiffer
  <2>3. q.set.time = HourOfDay(hour)
    BY <1>1 DEF OnTime
  <2> QED BY <2>1, <2>2, <2>3
<1>4. Unseen(m)
  <2>1. CASE m.id > First
    BY <2>1 DEF Unseen
  <2>2. CASE <<m.id, m.at, "unlogged">> \in missed
    BY <2>2 DEF Unseen
  <2>3. CASE m.id <= First /\ \E l \in logs : l.id = m.id
    <3>1. PICK l \in logs : l.id = q.id
      BY <2>3
    <3>2. l.seq = q.seq
      BY <1>1, <2>3, <3>1 DEF IInv, OriginalsOK
    <3>3. LogDays(q) # {Day(hour)} /\ l.day \in LogDays(q)
      BY <1>1, <3>2 DEF Executed, LogDays
    <3>4. PICK d \in LogDays(q) : d # Day(hour)
      BY <3>3
    <3>5. PICK k \in logs : k.seq = q.seq /\ k.day = d
      BY DEF LogDays
    <3>6. k.id = m.id
      BY <1>1, <2>3, <3>5 DEF IInv, OriginalsOK
    <3>7. k.day \in Nat /\ Day(hour) \in Nat /\ k.day <= Day(hour) /\ Accounted(k)
      BY <1>1, <3>5, Facts, LogIs, DayIs DEF IInv, LogsOK
    <3>8. k.day < WrittenOn(m)
      BY <3>4, <3>5, <3>7
    <3>9. CASE \E o \in mails : o.id = k.id /\ WrittenOn(o) <= k.day
      <4>1. PICK o \in mails : o.id = k.id /\ WrittenOn(o) <= k.day
        BY <3>9
      <4>2. WrittenOn(o) \in Nat /\ WrittenOn(m) \in Nat
        BY <1>2, Facts, MailIs
      <4>3. WrittenOn(o) < WrittenOn(m)
        BY <3>7, <3>8, <4>1, <4>2
      <4> QED BY <3>6, <4>1, <4>3 DEF Unseen
    <3>10. CASE \E h \in Hours : <<k.id, h, "unwritten">> \in missed /\ Day(h) <= k.day
      <4>1. PICK h \in Hours : <<k.id, h, "unwritten">> \in missed /\ Day(h) <= k.day
        BY <3>10
      <4>2. Day(h) \in Nat /\ WrittenOn(m) \in Nat
        BY <1>2, Sets, MailIs, DayIs
      <4>3. Day(h) < WrittenOn(m)
        BY <3>7, <3>8, <4>1, <4>2
      <4> QED BY <3>6, <4>1, <4>3 DEF Unseen
    <3> QED BY <3>7, <3>9, <3>10 DEF Accounted
  <2>4. m.id \in Nat
    BY <1>2, MailIs
  <2>5. m.id > First \/ m.id <= First
    BY <2>4, Sets
  <2>6. m.id <= First =>
          (\E l \in logs : l.id = m.id) \/ <<m.id, m.at, "unlogged">> \in missed
    BY <1>1, <1>2 DEF LoggedOK
  <2> QED BY <2>1, <2>2, <2>3, <2>5, <2>6
<1> QED BY <1>3, <1>4

(* What the list leaves out is noted, the rest is in the pass. *)
LEMMA ExecuteKeeps ==
    ASSUME IInv, Execute
    PROVE  IInv'
<1> DEFINE own == {r \in Kept : OwnLog(r)}
           others == {r \in Kept : ~OwnLog(r)}
<1>1. /\ ~fired /\ fired' = TRUE /\ pass.pc = "idle"
      /\ missed' = missed \cup Missing(own, hour, "logged") \cup Missing(others, hour, "inherited")
      /\ UNCHANGED <<hour, alarms, logs, dying, ids, left, mails, crossed>>
      /\ alarms \subseteq Rows /\ hour \in Hours /\ hour \in Nat
  BY Facts, Sets DEF Execute, rows, AlarmsOK
<1>2. Due \subseteq alarms /\ Kept \subseteq alarms
  BY DEF Due, Kept
<1>3. pass' \in PassType /\ pass'.pc = "next" /\ pass'.at = hour /\ pass'.todo = Due
  <2>1. pass' = [Rest EXCEPT !.pc = "next", !.at = hour, !.todo = Due]
    BY Zenon DEF Execute
  <2>2. Due \in SUBSET Rows /\ hour \in Hours
    BY <1>1, <1>2
  <2>3. pass' = [pc |-> "next", at |-> hour, todo |-> Due, cur |-> NoAlarm,
                 said |-> <<0, 0>>, searched |-> <<0, 0>>]
    BY <2>1, <2>2, BegunPass, Zenon
  <2>4. <<0, 0>> \in Periods
    BY DEF Periods
  <2> QED BY <2>2, <2>3, <2>4 DEF PassType, Pcs
<1>4. Listed' = Due /\ Unwritten' = Due
  BY <1>3 DEF Listed, Unwritten, Working
<1>5. \A r \in alarms : OnTime(r, hour) => r \in Due \/ r \in own \/ r \in others
  BY DEF Due, Kept
<1>6. /\ own \in SUBSET Rows /\ others \in SUBSET Rows
      /\ "logged" \in Reasons /\ "inherited" \in Reasons
  BY <1>1, <1>2, ReasonsAre
<1>7. /\ \A r \in own : OwnLog(r) /\ r \in Kept
      /\ \A r \in others : ~OwnLog(r) /\ r \in Kept
  OBVIOUS
<1> HIDE DEF own, others
<1>8. /\ missed' \subseteq Seqs \X Hours \X Reasons
      /\ \A r \in own : <<r.id, hour, "logged">> \in missed'
      /\ \A r \in others : <<r.id, hour, "inherited">> \in missed'
  BY <1>1, <1>6, MissingIs, Facts
<1>9. Grows
  BY <1>1 DEF Grows
<1>10. TypeOK'
  <2>1. fired' \in BOOLEAN
    BY <1>1
  <2> QED BY <1>1, <1>3, <1>8, <2>1, Facts DEF TypeOK, PassType, Pcs, AlarmsOK, Logs, Budget
<1>11. PassOK'
  BY <1>1, <1>3 DEF IInv, PassOK, Working
<1>12. NumbersOK'
  BY <1>1 DEF IInv, NumbersOK
<1>13. OriginalsOK'
  <2>1. \A a, b \in alarms : a.seq = b.seq => a = b
    BY Facts DEF AlarmsOK
  <2> QED BY <1>1, <1>2, <1>4, <2>1 DEF IInv, OriginalsOK
<1>14. ListOK'
  <2>1. \A q, r \in Due : q.seq = r.seq => q = r
    BY <1>2, Facts DEF AlarmsOK
  <2>2. \A q \in Due : OnTime(q, hour)
    BY DEF Due
  <2>3. \A m \in mails : m.at # hour
    BY <1>1 DEF IInv, MailOK
  <2>4. \A q \in Due : OnTime(q, pass'.at)
    BY <1>3, <2>2
  <2> QED BY <1>1, <1>3, <1>4, <2>1, <2>3, <2>4 DEF ListOK, Working, OnTime, HourOfDay
<1>15. SaidOK'
  BY <1>3 DEF SaidOK
<1>16. ASSUME NEW m \in mails' PROVE MailOK(m)' /\ LoggedOK(m)' /\ AgainOK(m)'
  <2>1. m \in mails /\ MailOK(m) /\ LoggedOK(m)
    BY <1>1, <1>16 DEF IInv
  <2>2. MailOK(m)'
    BY <1>1, <1>3, <2>1 DEF MailOK
  <2>3. LoggedOK(m)'
    BY <1>1, <1>9, <2>1 DEF LoggedOK, Grows
  <2>4. ASSUME NEW q \in Due, q.id = m.id, q.set.cycle = "D", m.set.cycle = "D",
               m.at < hour, m.at \notin crossed, WrittenOn(m) = Day(hour)
        PROVE  m.set # q.set /\ Unseen(m)'
    BY <1>1, <1>9, <2>1, <2>4, ListedAgain, Monotone
  <2>5. AgainOK(m)'
    BY <1>1, <1>3, <1>4, <2>4 DEF AgainOK, WrittenOn, Day
  <2> QED BY <2>2, <2>3, <2>5
<1>17. NamesOK' /\ TwiceOnlyIfChanged' /\ SaidIsSearched'
  BY <1>1, <1>9, GrowsKeeps
<1>18. LogsOK'
  <2>1. LogPhase'
    BY <1>3 DEF LogPhase
  <2> QED BY <1>1, <1>9, <2>1, GrowsKeeps DEF IInv, LogsOK
<1>19. LateOK'
  BY <1>1, <1>3 DEF LateOK
<1>20. ASSUME NEW r \in alarms' PROVE HoursOK(r)'
  <2>1. SUFFICES ASSUME NEW h \in (r.since + 1)..hour, OnTime(r, h), Found(Asked(r.set, h), h)
                 PROVE  Reported(r, h)' \/ (Running(h)' /\ r \in Unwritten')
    BY <1>1 DEF HoursOK
  <2>2. r \in alarms
    BY <1>1, <1>20
  <2>3. CASE h = hour
    <3>1. CASE r \in Due
      BY <1>3, <1>4, <2>3, <3>1 DEF Running
    <3>2. CASE r \in own \/ r \in others
      BY <1>6, <1>8, <2>3, <3>2 DEF Reported
    <3> QED BY <1>5, <2>1, <2>2, <2>3, <3>1, <3>2
  <2>4. CASE h # hour
    <3>1. Reported(r, h)
      BY <1>1, <2>1, <2>2, <2>4 DEF IInv, HoursOK, Running
    <3> QED BY <1>9, <3>1, Monotone
  <2> QED BY <2>3, <2>4
<1>21. \A k \in missed' : KeptOK(k)'
  <2>2. ASSUME NEW k \in Missing(own, hour, "logged") PROVE KeptOK(k)'
    <3>1. PICK r \in own : k = <<r.id, hour, "logged">>
      BY DEF Missing
    <3>2. PICK l \in logs : l.seq = r.seq /\ l.id = r.id
      BY <1>7 DEF OwnLog
    <3>3. l.day = Day(hour)
      BY <1>7, <3>2 DEF Kept, Executed, LogDays
    <3>4. Accounted(l)'
      BY <1>1, <1>9, GrowsKeeps
    <3>5. l.id = k[1] /\ l.day = Day(k[2]) /\ k[3] = "logged"
      BY <3>1, <3>2, <3>3
    <3> QED BY <3>4, <3>5 DEF Accounted, KeptOK, Day
  <2>3. ASSUME NEW k \in Missing(others, hour, "inherited") PROVE KeptOK(k)'
    <3>1. PICK r \in others : k = <<r.id, hour, "inherited">>
      BY DEF Missing
    <3>2. r \in alarms /\ ~OwnLog(r) /\ r.id \in Nat /\ k[1] = r.id /\ k[3] = "inherited"
      BY <1>1, <1>2, <1>7, <3>1, RowIs
    <3>3. Day(hour) \in LogDays(r)
      BY <1>7 DEF Kept, Executed
    <3>4. PICK l \in logs : l.seq = r.seq
      BY <3>3 DEF LogDays
    <3>5. ~(r.id <= First)
      BY <3>2, <3>4 DEF IInv, OriginalsOK, OwnLog
    <3>6. r.id > First
      BY <3>2, <3>5, Sets
    <3> QED BY <3>2, <3>6 DEF KeptOK
  <2> QED BY <1>1, <1>9, <2>2, <2>3, GrowsKeeps
<1>22. KeptOnlyIfExecuted'
  BY <1>21 DEF KeptOnlyIfExecuted, KeptOK
<1> QED BY <1>10, <1>11, <1>12, <1>13, <1>14, <1>15, <1>16, <1>17, <1>18, <1>19, <1>20, <1>22
        DEF IInv

-----------------------------------------------------------------------------
LEMMA StartIs ==
    ASSUME Init
    PROVE  IInv
<1>1. /\ hour = HoursPerDay /\ fired = FALSE /\ logs = {} /\ dying = {} /\ ids = First
      /\ pass = Rest /\ left = [edits |-> MaxEdits, faults |-> MaxFaults]
      /\ mails = {} /\ missed = {} /\ crossed = {}
  BY DEF Init
<1>2. hour \in Nat /\ hour \in Hours /\ hour - 1 \in Hours /\ First \in Nat /\ MaxEdits \in Nat
      /\ MaxFaults \in Nat /\ First \in Seqs
  BY <1>1, AlarmConstants DEF Hours, Seqs
<1>3. PICK s \in [1..First -> Settings] :
          alarms = {[id |-> n, seq |-> n, since |-> hour - 1, set |-> s[n]] : n \in 1..First}
  BY DEF Init
<1>4. ASSUME NEW r \in alarms
      PROVE  /\ r \in Rows /\ r.seq = r.id /\ r.id \in 1..First /\ r.since = hour - 1
             /\ r = [id |-> r.id, seq |-> r.id, since |-> hour - 1, set |-> s[r.id]]
  <2>1. PICK n \in 1..First : r = [id |-> n, seq |-> n, since |-> hour - 1, set |-> s[n]]
    BY <1>3
  <2>2. n \in Seqs /\ s[n] \in Settings
    BY <1>2 DEF Seqs
  <2> QED BY <1>2, <2>1, <2>2 DEF Rows
<1>5. /\ pass \in PassType /\ pass.pc = "idle" /\ pass.todo = {}
      /\ Listed = {} /\ Unwritten = {}
  BY <1>1, RestIs DEF Listed, Unwritten, Working
<1>6. AlarmsOK
  BY <1>4 DEF AlarmsOK
<1>7. TypeOK
  <2>1. left \in Budget
    BY <1>1, <1>2 DEF Budget
  <2>2. fired \in BOOLEAN
    BY <1>1
  <2> QED BY <1>1, <1>2, <1>5, <1>6, <2>1, <2>2, TypeParts
<1>8. PassOK
  BY <1>1, <1>2, <1>5, Sets DEF PassOK, Working
<1>9. NumbersOK
  <2>1. left.edits = MaxEdits
    BY <1>1
  <2> QED BY <1>1, <1>2, <1>4, <2>1 DEF NumbersOK
<1>10. OriginalsOK
  BY <1>1, <1>4, <1>5 DEF OriginalsOK
<1>11. ListOK /\ SaidOK /\ LateOK /\ LogsOK
  BY <1>1, <1>5 DEF ListOK, SaidOK, LateOK, LogsOK, LogPhase, Working
<1>12. \A r \in alarms : HoursOK(r)
  <2>1. ASSUME NEW r \in alarms, NEW h \in (r.since + 1)..hour PROVE h = hour
    BY <1>2, <1>4
  <2> QED BY <1>1, <2>1 DEF HoursOK
<1>13. NamesOK /\ KeptOnlyIfExecuted /\ TwiceOnlyIfChanged /\ SaidIsSearched
       /\ \A m \in mails : MailOK(m) /\ LoggedOK(m) /\ AgainOK(m)
  BY <1>1 DEF NamesOK, KeptOnlyIfExecuted, TwiceOnlyIfChanged, SaidIsSearched
<1> QED BY <1>7, <1>8, <1>9, <1>10, <1>11, <1>12, <1>13 DEF IInv

LEMMA StutterKeeps ==
    ASSUME IInv, UNCHANGED vars
    PROVE  IInv'
<1>1. /\ UNCHANGED <<hour, fired, alarms, logs, dying, ids, pass, left, mails, missed, crossed>>
      /\ UNCHANGED <<clock, pass, seen>>
  BY DEF vars, clock, rows, seen
<1>2. TypeOK' /\ NumbersOK' /\ OriginalsOK'
  BY <1>1, OperatorKeeps DEF IInv, TypeOK, NumbersOK, OriginalsOK
<1>3. \A m \in mails' : LoggedOK(m)'
  BY <1>1 DEF IInv, LoggedOK
<1>4. \A r \in alarms' : HoursOK(r)'
  BY <1>1, OperatorKeeps DEF IInv
<1> QED BY <1>1, <1>2, <1>3, <1>4, OperatorKeeps DEF IInv

LEMMA NextKeeps ==
    ASSUME IInv, [Next]_vars
    PROVE  IInv'
<1>1. CASE Pass
  BY <1>1, ExecuteKeeps, TakeKeeps, SearchKeeps, CreateKeeps, LogKeeps, FinishKeeps DEF Pass
<1>2. CASE Operator
  BY <1>2, InsertKeeps, UpdateKeeps, DeleteKeeps, DeleteLogKeeps DEF Operator
<1>3. CASE Fail \/ SkipHour \/ Tick
  BY <1>3, FailKeeps, SkipKeeps, TickKeeps
<1>4. CASE Horizon \/ UNCHANGED vars
  BY <1>4, StutterKeeps DEF Horizon
<1> QED BY <1>1, <1>2, <1>3, <1>4 DEF Next

LEMMA SpecIInv == Spec => []IInv
<1>1. Init => IInv
  BY StartIs
<1>2. IInv /\ [Next]_vars => IInv'
  BY NextKeeps
<1> QED BY <1>1, <1>2, PTL DEF Spec

-----------------------------------------------------------------------------
(* Every hour at which a scheduled notification was due and messages matched  *)
(* is reported for the period it asks for, or its loss has one of the reasons *)
(* that the one catch of AlarmJob.execute, the log, the trigger and the clock *)
(* leave (AlarmJob.execute, getNowExecuteList, SolrCreateQuery).              *)
THEOREM HoursAreReported == Spec => []EveryHourIsReported
<1>1. ASSUME IInv PROVE EveryHourIsReported
  <2>1. SUFFICES ASSUME NEW r \in alarms, NEW h \in (r.since + 1)..(hour - 1), OnTime(r, h),
                        Found(Asked(r.set, h), h), ~Running(h)
                 PROVE  Reported(r, h)
    BY DEF EveryHourIsReported, Reported
  <2>2. r.since \in Nat /\ hour \in Nat
    BY <1>1, Facts, Sets, RowIs DEF AlarmsOK
  <2>3. h \in (r.since + 1)..hour /\ h # hour
    BY <2>2
  <2> QED BY <1>1, <2>1, <2>3 DEF IInv, HoursOK
<1> QED BY <1>1, SpecIInv, PTL

(* The condition on UI_ALARM_LOG keeps an alarm back only on a day on which   *)
(* it was executed, and lets it through only on one on which it was not, but  *)
(* for a changed hour, a number given again, a mail or a log row that failed, *)
(* and a pass that ran past its hour (getNowExecuteList, AlarmJob.execute).   *)
THEOREM LogIsTrusted == Spec => []LogDecides
<1>1. IInv => LogDecides
  BY DEF IInv, LogDecides
<1> QED BY <1>1, SpecIInv, PTL

(* The period that a mail names is the one that was searched, or starts a day *)
(* late where AlarmJob.getStartDt takes a day off an hour that is not         *)
(* midnight, or the pass ran past its hour.                                   *)
THEOREM NamedPeriodIsSearched == Spec => []SaidIsSearched
<1>1. IInv => SaidIsSearched
  BY DEF IInv
<1> QED BY <1>1, SpecIInv, PTL

(* Two mails have one file name only if a pass ran into the hour of the other *)
(* (AlarmJob names the files of createMailInfoFiles after hour and alarm).    *)
THEOREM MailsHaveTheirFiles == Spec => []MailsAreKept
<1>1. ASSUME IInv PROVE MailsAreKept
  <2>1. SUFFICES ASSUME NEW m \in mails, NEW n \in mails, m # n, m.name = n.name
                 PROVE  m.at # n.at /\ {m.at, n.at} \cap crossed # {}
    BY DEF MailsAreKept
  <2>2. m.at # n.at
    BY <1>1, <2>1 DEF IInv, NamesOK
  <2>3. /\ m.at \notin crossed => m.name[1] = m.at
        /\ n.at \notin crossed => n.name[1] = n.at
    BY <1>1 DEF IInv, MailOK
  <2> QED BY <2>1, <2>2, <2>3
<1> QED BY <1>1, SpecIInv, PTL
=============================================================================
