---------------------------- MODULE AlarmSchedule ----------------------------
(* Scheduled notifications.  Ten minutes past every hour AlarmJob.execute     *)
(* lists the alarms that are due, searches the messages of each one's period, *)
(* writes a mail into the spool and a row into UI_ALARM_LOG.  One catch       *)
(* surrounds the loop; hours that were missed are not made up; the clock is   *)
(* read again at each step, also after the hour or the day has turned; the    *)
(* mail names a period that AlarmJob computed, and of alarms that are not     *)
(* hourly the search computes its own.                                        *)
(* An alarm is known by its number, which a later alarm may get again; the    *)
(* log rows of a deleted alarm are deleted in a second transaction.           *)
EXTENDS Integers, FiniteSets, FiniteSetsExt

CONSTANTS
    HoursPerDay,
    Settings,    \* what alarms are set to
    First,       \* alarms at the start
    MaxHour,     \* bound: the last hour looked at
    Silent,      \* hours without a matching message
    MaxEdits,    \* bound: changes by operators
    MaxFaults    \* bound: failures, and hours that a pass runs into

(* What an alarm can be set to: hourly, or daily at an hour, for a range of   *)
(* days that begins and ends yesterday or today.                              *)
Times  == 0..(HoursPerDay - 1)
Hourly == [cycle |-> "H", time |-> 0, from |-> "", to |-> ""]
Daily  == {s \in [cycle : {"D"}, time : Times, from : {"Y", "T"}, to : {"Y", "T"}] :
              s.from = "T" => s.to = "T"}

ASSUME AlarmConstants ==
    /\ HoursPerDay \in Nat \ {0}
    /\ MaxHour \in Nat /\ HoursPerDay <= MaxHour /\ Silent \subseteq Nat
    /\ MaxEdits \in Nat /\ MaxFaults \in Nat
    /\ First \in Nat \ {0}
    /\ Settings \subseteq {Hourly} \cup Daily

VARIABLES
    hour,        \* the hour it is, counted from the first day
    fired,       \* the trigger of this hour is past
    alarms,      \* UI_ALARM: [set, seq], the identity, the hour of its last change
    logs,        \* UI_ALARM_LOG: [seq, day], the identity of the alarm it is of
    dying,       \* numbers whose alarm is deleted and whose log rows are not yet
    pass,        \* AlarmJob.execute
    left,        \* edits and faults left
    ids,         \* identities given (observation)
    mails,       \* mails written (observation)
    missed,      \* <<identity, hour, reason>> (observation)
    crossed      \* hours whose pass ran into the next one (observation)

clock == <<hour, fired>>
rows  == <<alarms, logs, dying, ids>>
seen  == <<mails, missed, crossed>>
vars  == <<clock, rows, pass, left, seen>>

-----------------------------------------------------------------------------
Day(h)       == h \div HoursPerDay
HourOfDay(h) == h % HoursPerDay

NoAlarm == [id |-> 0, seq |-> 0, since |-> 0, set |-> Hourly]
Rest    == [pc |-> "idle", at |-> 0, todo |-> {}, cur |-> NoAlarm,
            said |-> <<0, 0>>, searched |-> <<0, 0>>]

(* It begins on the second day, so that there is a day before. *)
Init ==
    /\ hour = HoursPerDay /\ fired = FALSE
    /\ \E s \in [1..First -> Settings] :
          alarms = {[id |-> n, seq |-> n, since |-> hour - 1, set |-> s[n]] : n \in 1..First}
    /\ logs = {} /\ dying = {} /\ ids = First
    /\ pass = Rest
    /\ left = [edits |-> MaxEdits, faults |-> MaxFaults]
    /\ mails = {} /\ missed = {} /\ crossed = {}

Spend(kind) == left[kind] > 0 /\ left' = [left EXCEPT ![kind] = @ - 1]

Missing(rs, h, why) == {<<r.id, h, why>> : r \in rs}

-----------------------------------------------------------------------------
(* Periods, as the first and the last hour. *)

FirstHour(day) == day * HoursPerDay
LastHour(day)  == FirstHour(day) + HoursPerDay - 1

(* AlarmJob.getStartDt and getEndDt: the day before is the day it was an hour *)
(* ago, or the day it was a day ago.                                          *)
SaidStart(s) ==
    IF s.cycle = "H" THEN hour - 1
    ELSE FirstHour(IF s.from = "Y" THEN Day(hour - 1) ELSE Day(hour))

(* Faulty: the period of an hourly mail ends an hour too early. *)
SaidEndNow(s) ==
    IF s.cycle = "H" THEN hour - 2
    ELSE LastHour(IF s.to = "Y" THEN Day(hour) - 1 ELSE Day(hour))

(* Faulty: the day before is the day it was an hour ago here as well. *)
SaidEndByHour(s) ==
    IF s.cycle = "H" THEN hour - 1
    ELSE LastHour(IF s.to = "Y" THEN Day(hour - 1) ELSE Day(hour))

SaidEnd(s) ==
    IF s.cycle = "H" THEN hour - 1
    ELSE LastHour(IF s.to = "Y" THEN Day(hour) - 1 ELSE Day(hour))

(* SolrCreateQuery takes the period of AlarmJob of hourly alarms only. *)
AskedRange(s, h) ==
    <<FirstHour(IF s.from = "Y" THEN Day(h) - 1 ELSE Day(h)),
      LastHour(IF s.to = "Y" THEN Day(h) - 1 ELSE Day(h))>>

Searched(s, said) == IF s.cycle = "H" THEN said ELSE AskedRange(s, hour)

(* Messages that the search finds at hour h. *)
Found(period, h) == \E n \in period[1]..period[2] : n <= h /\ n \notin Silent

-----------------------------------------------------------------------------
(* getNowExecuteList: an alarm with any log row of another day is not taken  *)
(* for executed today.                                                       *)

LogDays(r) == {l.day : l \in {x \in logs : x.seq = r.seq}}

OnTime(r, h) == r.set.cycle = "H" \/ r.set.time = HourOfDay(h)

(* Faulty: the log is not looked at. *)
ExecutedNever(r) == r.set.cycle = "D" /\ LogDays(r) = {} /\ LogDays(r) # {}

Executed(r) == r.set.cycle = "D" /\ LogDays(r) = {Day(hour)}

Kept      == {r \in alarms : OnTime(r, hour) /\ Executed(r)}
OwnLog(r) == \E l \in logs : l.seq = r.seq /\ l.id = r.id

Due == {r \in alarms : OnTime(r, hour) /\ ~Executed(r)}

Execute ==
    /\ ~fired /\ pass.pc = "idle"
    /\ fired' = TRUE
    /\ pass' = [Rest EXCEPT !.pc = "next", !.at = hour, !.todo = Due]
    /\ missed' = missed \cup Missing({r \in Kept : OwnLog(r)}, hour, "logged")
                        \cup Missing({r \in Kept : ~OwnLog(r)}, hour, "inherited")
    /\ UNCHANGED <<hour, rows, left, mails, crossed>>

(* The next alarm of the list, in an order that the database chooses. *)
Take(r) ==
    /\ pass.pc = "next" /\ r \in pass.todo
    /\ pass' = [pass EXCEPT !.pc = "search", !.cur = r, !.todo = @ \ {r},
                            !.said = <<SaidStart(r.set), SaidEnd(r.set)>>]
    /\ UNCHANGED <<clock, rows, left, seen>>

Search ==
    /\ pass.pc = "search"
    /\ LET period == Searched(pass.cur.set, pass.said)
       IN pass' = [pass EXCEPT !.searched = period,
                               !.pc = IF Found(period, hour) THEN "mail" ELSE "next"]
    /\ UNCHANGED <<clock, rows, left, seen>>

(* Faulty: the number is not part of the name. *)
NameOfHour(r) == <<hour, 0>>

(* The mail files are named after the hour and the alarm. *)
Name(r) == <<hour, r.seq>>

Mail == [id |-> pass.cur.id, set |-> pass.cur.set, at |-> pass.at, name |-> Name(pass.cur),
         said |-> pass.said, searched |-> pass.searched]

(* createMailInfoFiles swallows an IOException: the log row follows all the   *)
(* same.                                                                      *)
CreateMail ==
    /\ pass.pc = "mail"
    /\ pass' = [pass EXCEPT !.pc = "log"]
    /\ \/ /\ mails' = mails \cup {Mail}
          /\ UNCHANGED <<left, missed>>
       \/ /\ Spend("faults")
          /\ missed' = missed \cup Missing({pass.cur}, pass.at, "unwritten")
          /\ UNCHANGED mails
    /\ UNCHANGED <<clock, rows, crossed>>

InsertAlarmLog ==
    /\ pass.pc = "log"
    /\ logs' = logs \cup {[seq |-> pass.cur.seq, day |-> Day(hour), id |-> pass.cur.id]}
    /\ pass' = [pass EXCEPT !.pc = "next"]
    /\ UNCHANGED <<clock, alarms, dying, ids, left, seen>>

Finish ==
    /\ pass.pc = "next" /\ pass.todo = {}
    /\ pass' = Rest
    /\ UNCHANGED <<clock, rows, left, seen>>

(* An exception, which leaves the loop, or the end of the process. *)
Unwritten == pass.todo \cup (IF pass.pc \in {"search", "mail"} THEN {pass.cur} ELSE {})

Fail ==
    /\ pass.pc \in {"search", "mail", "log"} /\ Spend("faults")
    /\ missed' = missed \cup Missing(Unwritten, pass.at, "failed")
                        \cup Missing(IF pass.pc = "log" THEN {pass.cur} ELSE {}, pass.at, "unlogged")
    /\ pass' = Rest
    /\ UNCHANGED <<clock, rows, mails, crossed>>

(* The server is down ten past the hour, or the pass before still runs. *)
SkipHour ==
    /\ ~fired
    /\ \/ pass.pc # "idle" /\ UNCHANGED left
       \/ pass.pc = "idle" /\ Spend("faults")
    /\ fired' = TRUE
    /\ missed' = missed \cup Missing({r \in alarms : OnTime(r, hour)}, hour, "skipped")
    /\ UNCHANGED <<hour, rows, pass, mails, crossed>>

(* The next hour, perhaps during a pass. *)
Tick ==
    /\ fired /\ hour < MaxHour
    /\ hour' = hour + 1 /\ fired' = FALSE
    /\ \/ pass.pc = "idle" /\ UNCHANGED <<left, missed, crossed>>
       \/ /\ pass.pc # "idle" /\ Spend("faults")
          /\ crossed' = crossed \cup {pass.at}
          /\ missed' = missed \cup Missing(Unwritten, pass.at, "late")
    /\ UNCHANGED <<rows, pass, mails>>

-----------------------------------------------------------------------------
(* The operators. *)

NextSeq == 1 + Max({0} \cup {r.seq : r \in alarms})

InsertAlarm(s) ==
    /\ Spend("edits")
    /\ ids' = ids + 1
    /\ alarms' = alarms \cup {[id |-> ids + 1, seq |-> NextSeq, since |-> hour, set |-> s]}
    /\ UNCHANGED <<clock, logs, dying, pass, seen>>

UpdateAlarm(r, s) ==
    /\ s # r.set /\ Spend("edits")
    /\ alarms' = (alarms \ {r}) \cup {[r EXCEPT !.set = s, !.since = hour]}
    /\ UNCHANGED <<clock, logs, dying, ids, pass, seen>>

DeleteAlarm(r) ==
    /\ Spend("edits")
    /\ alarms' = alarms \ {r} /\ dying' = dying \cup {r.seq}
    /\ UNCHANGED <<clock, logs, ids, pass, seen>>

(* Does not come if the first transaction failed or the server stopped. *)
DeleteAlarmLog(seq) ==
    /\ seq \in dying
    /\ dying' = dying \ {seq} /\ logs' = {l \in logs : l.seq # seq}
    /\ UNCHANGED <<clock, alarms, ids, pass, left, seen>>

-----------------------------------------------------------------------------
Pass ==
    \/ Execute
    \/ \E r \in pass.todo : Take(r)
    \/ Search \/ CreateMail \/ InsertAlarmLog \/ Finish

Operator ==
    \/ \E s \in Settings : InsertAlarm(s)
    \/ \E r \in alarms, s \in Settings : UpdateAlarm(r, s)
    \/ \E r \in alarms : DeleteAlarm(r)
    \/ \E seq \in dying : DeleteAlarmLog(seq)

(* The model ends with its last hour. *)
Horizon == hour = MaxHour /\ UNCHANGED vars

Next == Pass \/ Fail \/ SkipHour \/ Tick \/ Operator \/ Horizon

Spec == Init /\ [][Next]_vars

-----------------------------------------------------------------------------
Hours   == 0..MaxHour
Seqs    == 1..(First + MaxEdits)
Reasons == {"logged", "inherited", "failed", "unwritten", "unlogged", "skipped", "late"}
Rows    == [id : Seqs, seq : Seqs, since : Hours, set : Settings]
Periods == Int \X Int

TypeOK ==
    /\ hour \in Hours /\ fired \in BOOLEAN /\ ids \in Nat
    /\ alarms \subseteq Rows
    /\ \A a, b \in alarms : (a.seq = b.seq \/ a.id = b.id) => a = b
    /\ logs \subseteq [seq : Seqs, day : 0..Day(MaxHour), id : Seqs]
    /\ dying \subseteq Seqs
    /\ pass.pc \in {"idle", "next", "search", "mail", "log"}
    /\ pass.at \in Hours /\ pass.todo \subseteq Rows /\ pass.cur \in Rows \cup {NoAlarm}
    /\ pass.said \in Periods /\ pass.searched \in Periods
    /\ left \in [edits : 0..MaxEdits, faults : 0..MaxFaults]
    /\ missed \subseteq Seqs \X Hours \X Reasons /\ crossed \subseteq Hours

Running(h) == pass.pc # "idle" /\ pass.at = h

(* The period an alarm asks for at hour h. *)
Asked(s, h) == IF s.cycle = "H" THEN <<h - 1, h - 1>> ELSE AskedRange(s, h)

(* Every alarm is executed at each of its hours, for the period it asks for, *)
(* unless nothing matched or the reason is on the list: its log says it was  *)
(* executed, it or one before it failed, the trigger was missed, the pass    *)
(* ran into the next hour.                                                   *)
EveryHourIsReported ==
    \A r \in alarms : \A h \in (r.since + 1)..(hour - 1) :
        OnTime(r, h) /\ Found(Asked(r.set, h), h) /\ ~Running(h) =>
            \/ \E m \in mails : m.id = r.id /\ m.at = h
                                /\ (m.searched = Asked(r.set, h) \/ h \in crossed)
            \/ \E w \in Reasons : <<r.id, h, w>> \in missed

WrittenOn(m) == Day(m.name[1])

(* An alarm that its log keeps from being executed has sent a mail that day,  *)
(* or failed to write it, or a pass ran past midnight before it wrote the log *)
(* row; or it has the number and the log rows of an alarm deleted before it.  *)
KeptOnlyIfExecuted ==
    \A k \in missed :
        /\ k[3] = "inherited" => k[1] > First
        /\ k[3] = "logged" =>
              \/ \E m \in mails : m.id = k[1] /\ (WrittenOn(m) = Day(k[2]) \/ m.at \in crossed)
              \/ \E h \in Hours : /\ <<k[1], h, "unwritten">> \in missed
                                  /\ Day(h) = Day(k[2]) \/ h \in crossed

(* A daily alarm sends two mails on one day only if it was changed and the   *)
(* log did not show the first: because it has a row of another day, or the   *)
(* first one's is missing or deleted with an alarm that had the number       *)
(* before, or a pass ran into another hour.                                  *)
TwiceOnlyIfChanged ==
    \A m, n \in mails :
        m.id = n.id /\ m.at < n.at /\ WrittenOn(m) = WrittenOn(n)
        /\ m.set.cycle = "D" /\ n.set.cycle = "D" =>
            \/ {m.at, n.at} \cap crossed # {}
            \/ /\ m.set # n.set
               /\ \/ \E o \in mails : o.id = m.id /\ WrittenOn(o) < WrittenOn(m)
                  \/ <<m.id, m.at, "unlogged">> \in missed
                  \/ \E h \in Hours : <<m.id, h, "unwritten">> \in missed /\ Day(h) < WrittenOn(m)
                  \/ m.id > First

(* The log decides as the query means it to: an alarm it keeps back has been *)
(* executed that day, one it lets through has not, but for these accidents.  *)
(* (The condition on UI_ALARM_LOG in getNowExecuteList.)                     *)
LogDecides == TypeOK /\ KeptOnlyIfExecuted /\ TwiceOnlyIfChanged

(* The period that a mail names is the one that was searched, unless the     *)
(* pass ran into another hour, or the alarm asks for the day before at       *)
(* another hour than midnight: the mail then names a start a day too late.   *)
SaidIsSearched ==
    \A m \in mails :
        \/ m.said = m.searched
        \/ m.at \in crossed
        \/ /\ m.set.from = "Y" /\ HourOfDay(m.at) # 0
           /\ m.said = <<m.searched[1] + HoursPerDay, m.searched[2]>>

(* No mail is written over another one that may still be in the spool, but   *)
(* by a pass before or after one that ran into its hour.                     *)
MailsAreKept ==
    \A m, n \in mails : m # n /\ m.name = n.name =>
        m.at # n.at /\ {m.at, n.at} \cap crossed # {}
=============================================================================
