----------------------------- MODULE MCAlarmMail -----------------------------
(* Instances of AlarmMail with two mails. *)
EXTENDS AlarmMail, TLC

CONSTANTS m1, m2

OneDir  == [m \in Mail |-> 1]
TwoDirs == m1 :> 1 @@ m2 :> 2

Senders == Permutations(Sender)
=============================================================================
