--------------------------- MODULE MCAlarmSchedule ---------------------------
(* Days of two hours; an hourly alarm, and daily ones of either hour.         *)
EXTENDS AlarmSchedule

MCSettings == {Hourly} \cup {s \in Daily : s.from = s.to}
=============================================================================
