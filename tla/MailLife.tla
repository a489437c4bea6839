------------------------------- MODULE MailLife -------------------------------
(* What the mail spool promises its producers: a mail that was written waits, *)
(* is taken, is delivered once at most, and ends as what happened to it; or   *)
(* it is taken and put back unread.  Nothing comes after an end.  There are   *)
(* two mishaps, both of a mail that somebody holds: its holder stops and it   *)
(* is lost, or it is found put back before it was moved, and from then on two *)
(* contend for it.  A delivery the server did not confirm ends as a failure.  *)
(* AlarmMail implements it by names of files.                                 *)
EXTENDS Naturals

CONSTANT Mail

VARIABLES
    life,    \* life[m]: how far mail m is
    times    \* times[m]: how often it was delivered; 2 stands for more

vars == <<life, times>>

Init == life = [m \in Mail |-> "none"] /\ times = [m \in Mail |-> 0]

Go(m, from, to) == life[m] = from /\ life' = [life EXCEPT ![m] = to]

Enter(m)   == Go(m, "none", "waiting") /\ UNCHANGED times
Take(m)    == Go(m, "waiting", "taken") /\ UNCHANGED times
Return(m)  == Go(m, "taken", "waiting") /\ UNCHANGED times
Succeed(m) == Go(m, "sent", "SUCCESS") /\ UNCHANGED times
Fail(m)    == /\ Go(m, "taken", "FAIL") \/ Go(m, "unheard", "FAIL")
              /\ UNCHANGED times

Deliver(m) ==
    /\ Go(m, "taken", "sent") \/ Go(m, "taken", "unheard")
    /\ times[m] = 0 /\ times' = [times EXCEPT ![m] = 1]

Resend(m) ==
    /\ life[m] = "contended"
    /\ times' = [times EXCEPT ![m] = IF @ = 0 THEN 1 ELSE 2]
    /\ UNCHANGED life

Held == {m \in Mail : life[m] \in {"taken", "sent", "unheard"}}

Mishap(lost, found) ==
    /\ lost \cup found \subseteq Held
    /\ life' = [m \in Mail |-> IF m \in found THEN "contended"
                               ELSE IF m \in lost THEN "lost" ELSE life[m]]
    /\ UNCHANGED times

Next ==
    \/ \E m \in Mail : \/ Enter(m) \/ Take(m) \/ Return(m) \/ Deliver(m)
                       \/ Succeed(m) \/ Fail(m) \/ Resend(m)
    \/ \E lost, found \in SUBSET Mail : Mishap(lost, found)

Spec == Init /\ [][Next]_vars
=============================================================================
