--------------------------- MODULE AlarmMailProofs ---------------------------
(* Proofs about AlarmMail, for any mails, senders, directories and bounds. *)
EXTENDS AlarmMail, TLAPS

(* A thread has a mail unless it is idle. *)
IdleHasNoMail == \A s \in Sender : snd[s].pc # "idle" <=> snd[s].mail \in Mail

RestHasNoBatch == scan.pc = "rest" => scan.batch = {}

(* A thread past the delivery has delivered. *)
BackIsDelivered ==
    \A s \in Sender : snd[s].pc \in {"back", "move"} => Delivered(snd[s].mail)

(* No .info file exists before its producer creates it. *)
ListedLater(m) == stage[m] \in {"new", "body"} => loc[m] = "none"

Waiting(m) == m \in scan.batch \cup queue
Owned(m)   == loc[m] = "tmp" => Waiting(m) \/ m \in stranded \/ Working(m)

(* Until a mail is taken a second time, it has its .tmp name exactly while   *)
(* the scanner or a thread has to put it back, and one of them has it.       *)
TmpWhileHeld(m) ==
    m \notin rescan =>
        /\ Waiting(m) \/ Working(m) \/ m \in stranded => loc[m] = "tmp"
        /\ HeldBack(m) => loc[m] = "info"

OneHolder(m) ==
    m \notin rescan =>
        /\ ~(m \in scan.batch /\ m \in queue)
        /\ m \in stranded => ~Waiting(m)
        /\ \A s \in Sender : snd[s].mail = m =>
              /\ ~Waiting(m) /\ m \notin stranded
              /\ \A t \in Sender : snd[t].mail = m => t = s

(* A delivered mail that was taken once is on its way to SUCCESS, or there,  *)
(* or stranded, unless the server's word was lost.                           *)
DeliveredIsKept(m) ==
    Delivered(m) /\ m \notin rescan \cup unheard =>
        \/ \E s \in Sender : snd[s].mail = m /\ snd[s].pc \in {"back", "move"}
        \/ loc[m] = "SUCCESS" \/ m \in stranded

(* ... and then it is on its way to FAIL, and was read.                      *)
UnheardFails(m) ==
    m \in unheard /\ m \notin rescan =>
        /\ Delivered(m) /\ read[m] # "null"
        /\ \/ \E s \in Sender : snd[s].mail = m /\ snd[s].pc \in {"failback", "failmove"}
           \/ loc[m] = "FAIL" \/ m \in stranded

Once(m)   == m \in twice => m \in rescan
Honest(m) == /\ loc[m] = "SUCCESS" => Delivered(m)
             /\ loc[m] = "FAIL" /\ m \notin rescan \cup unheard => ~Delivered(m)
             /\ loc[m] = "gone" => m \in rescan

MailOK(m) ==
    /\ ListedLater(m) /\ Owned(m) /\ TmpWhileHeld(m) /\ OneHolder(m)
    /\ DeliveredIsKept(m) /\ UnheardFails(m) /\ Once(m) /\ Honest(m)

IInv ==
    /\ TypeOK /\ IdleHasNoMail /\ RestHasNoBatch /\ BackIsDelivered
    /\ \A m \in Mail : MailOK(m)

(* Without SMTP failures, a mail whose body was closed first is read whole   *)
(* or not at all; what was not read at all is put back, and what was read    *)
(* whole is delivered, unless the mail was taken a second time.              *)
ReadWhole(m) ==
    /\ read[m] \in {"null", "full"}
    /\ m \notin rescan =>
         /\ loc[m] # "FAIL"
         /\ \A s \in Sender : snd[s].mail = m =>
              /\ snd[s].pc # "failmove"
              /\ snd[s].pc = "failback" => read[m] = "null"

-----------------------------------------------------------------------------
Tasks == [pc : {"idle", "send", "back", "move", "failback", "failmove"},
          mail : Mail \cup {NoMail}, cur : BOOLEAN]

Locs  == [Mail -> {"none", "info", "tmp", "SUCCESS", "FAIL", "gone"}]

Scans == [pc : {"rest", "list", "claim", "start"}, dir : 0..Dirs,
          todo : SUBSET Mail, batch : SUBSET Mail]

(* What the three ways to change a thread leave of the others. *)
LEMMA ToMoves ==
    ASSUME TypeOK, NEW s \in Sender,
           NEW l \in {"send", "back", "move", "failback", "failmove"}, To(s, l)
    PROVE  /\ snd' \in [Sender -> Tasks]
           /\ snd'[s].pc = l /\ snd'[s].mail = snd[s].mail
           /\ \A t \in Sender \ {s} : snd'[t] = snd[t]
<1>1. snd \in [Sender -> Tasks]
  BY DEF TypeOK, Tasks
<1>2. snd' = [snd EXCEPT ![s] = [snd[s] EXCEPT !.pc = l]]
  BY DEF To
<1>3. [snd[s] EXCEPT !.pc = l] \in Tasks
  BY <1>1 DEF Tasks
<1>4. [snd[s] EXCEPT !.pc = l].pc = l /\ [snd[s] EXCEPT !.pc = l].mail = snd[s].mail
  BY <1>1 DEF Tasks
<1> QED BY <1>1, <1>2, <1>3, <1>4

LEMMA DoneMoves ==
    ASSUME TypeOK, NEW s \in Sender, Done(s)
    PROVE  /\ snd' \in [Sender -> Tasks]
           /\ snd'[s].pc = "idle" /\ snd'[s].mail = NoMail
           /\ \A t \in Sender \ {s} : snd'[t] = snd[t]
BY DEF TypeOK, Tasks, Done, NoTask

LEMMA TaskMoves ==
    ASSUME TypeOK, NEW s \in Sender, NEW m \in Mail, snd' = [snd EXCEPT ![s] = Task(m)]
    PROVE  /\ snd' \in [Sender -> Tasks]
           /\ snd'[s].pc = "send" /\ snd'[s].mail = m
           /\ \A t \in Sender \ {s} : snd'[t] = snd[t]
BY DEF TypeOK, Tasks, Task

(* A mail that a step does not concern stays as it should be. *)
Untouched(m) ==
    /\ stage'[m] = stage[m] /\ loc'[m] = loc[m] /\ read'[m] = read[m]
    /\ m \in scan'.batch <=> m \in scan.batch
    /\ m \in queue' <=> m \in queue
    /\ \A s \in Sender : /\ snd'[s].mail = m <=> snd[s].mail = m
                         /\ snd[s].mail = m => snd'[s].pc = snd[s].pc
    /\ Delivered(m)' = Delivered(m)
    /\ m \in twice' <=> m \in twice
    /\ m \in rescan' <=> m \in rescan
    /\ m \in unheard' <=> m \in unheard
    /\ m \in stranded' <=> m \in stranded

LEMMA UntouchedOK ==
    ASSUME NEW m \in Mail, MailOK(m), Untouched(m)
    PROVE  MailOK(m)'
<1>1. /\ Waiting(m)' = Waiting(m) /\ Working(m)' = Working(m) /\ HeldBack(m)' = HeldBack(m)
  BY DEF Untouched, Waiting, Working, HeldBack
<1>2. ListedLater(m)' /\ Owned(m)' /\ TmpWhileHeld(m)' /\ Once(m)' /\ Honest(m)'
  BY <1>1 DEF MailOK, Untouched, ListedLater, Owned, TmpWhileHeld, Once, Honest
<1>3. OneHolder(m)'
  BY <1>1 DEF MailOK, Untouched, OneHolder
<1>4. DeliveredIsKept(m)' /\ UnheardFails(m)'
  BY DEF MailOK, Untouched, DeliveredIsKept, UnheardFails
<1> QED BY <1>2, <1>3, <1>4 DEF MailOK

LEMMA InitIInv == ASSUME Init PROVE IInv
<1>1. TypeOK
  BY MailConstants DEF Init, TypeOK, Rest, NoTask
<1>2. IdleHasNoMail /\ RestHasNoBatch /\ BackIsDelivered
  BY MailConstants DEF Init, Rest, NoTask, IdleHasNoMail, RestHasNoBatch, BackIsDelivered
<1>3. ASSUME NEW m \in Mail PROVE MailOK(m)
  BY <1>3, MailConstants DEF Init, Rest, NoTask, MailOK, ListedLater, Owned, TmpWhileHeld, OneHolder,
     DeliveredIsKept, UnheardFails, Once, Honest, Waiting, Working, HeldBack, Delivered
<1> QED BY <1>1, <1>2, <1>3 DEF IInv

-----------------------------------------------------------------------------
(* One lemma for each action. *)

LEMMA ScanKeeps ==
    ASSUME IInv, ScanBegin \/ ListDir \/ NextDir
    PROVE  IInv'
<1>1. /\ scan' \in Scans /\ scan'.batch = scan.batch /\ scan'.pc # "rest"
  <2>1. scan \in Scans /\ (scan.pc = "rest" => scan.batch = {})
    BY DEF IInv, TypeOK, Scans, RestHasNoBatch
  <2>2. CASE ScanBegin
    <3>1. scan' = [pc |-> "list", dir |-> 1, todo |-> {}, batch |-> {}] /\ scan.batch = {}
      BY <2>1, <2>2 DEF ScanBegin, Rest
    <3> QED BY <3>1, MailConstants DEF Scans
  <2>3. CASE ListDir
    BY <2>1, <2>3 DEF ListDir, Scans
  <2>4. CASE NextDir
    <3>1. CASE scan.dir < Dirs
      <4>1. scan' = [scan EXCEPT !.pc = "list", !.dir = scan.dir + 1]
        BY <2>4, <3>1 DEF NextDir
      <4>2. scan' = [pc |-> "list", dir |-> scan.dir + 1, todo |-> scan.todo, batch |-> scan.batch]
        BY <2>1, <4>1 DEF Scans
      <4> QED BY <2>1, <3>1, <4>2, MailConstants DEF Scans
    <3>2. CASE ~(scan.dir < Dirs)
      BY <2>1, <2>4, <3>2 DEF NextDir, Scans
    <3> QED BY <3>1, <3>2
  <2> QED BY <2>2, <2>3, <2>4
<1>2. UNCHANGED <<stage, loc, read, queue, created, snd, seen>>
  BY DEF ScanBegin, ListDir, NextDir, files
<1>3. TypeOK'
  BY <1>1, <1>2 DEF IInv, TypeOK, Scans, seen
<1>4. IdleHasNoMail' /\ RestHasNoBatch' /\ BackIsDelivered'
  BY <1>1, <1>2 DEF IInv, IdleHasNoMail, RestHasNoBatch, BackIsDelivered, Delivered, seen
<1>5. ASSUME NEW n \in Mail PROVE MailOK(n)'
  <2>1. Untouched(n)
    BY <1>1, <1>2 DEF Untouched, Delivered, seen
  <2> QED BY <2>1, UntouchedOK DEF IInv
<1> QED BY <1>3, <1>4, <1>5 DEF IInv

LEMMA ClaimKeeps ==
    ASSUME IInv, NEW m \in Mail, Claim(m)
    PROVE  IInv'
<1>1. /\ scan' \in Scans /\ scan'.pc # "rest"
      /\ UNCHANGED <<stage, queue, created, snd, delivered, twice, unheard, cut, stranded>>
  <2>1. scan \in Scans /\ scan.pc = "claim"
    BY DEF IInv, TypeOK, Scans, Claim
  <2>2. scan' = [scan EXCEPT !.todo = {}] \/
        scan' = [scan EXCEPT !.todo = scan.todo \ {m}, !.batch = scan.batch \cup {m}]
    BY DEF Claim
  <2>3. scan' = [pc |-> "claim", dir |-> scan.dir, todo |-> {}, batch |-> scan.batch] \/
        scan' = [pc |-> "claim", dir |-> scan.dir, todo |-> scan.todo \ {m}, batch |-> scan.batch \cup {m}]
    BY <2>1, <2>2 DEF Scans
  <2> QED BY <2>1, <2>3 DEF Claim, Scans
<1>2. \/ scan'.batch = scan.batch /\ UNCHANGED <<loc, read, rescan>>
      \/ /\ loc[m] = "info" /\ scan'.batch = scan.batch \cup {m}
         /\ loc' \in Locs /\ loc'[m] = "tmp"
         /\ \A n \in Mail \ {m} : loc'[n] = loc[n] /\ read'[n] = read[n]
         /\ rescan' = IF HeldBack(m) THEN rescan \cup {m} ELSE rescan
  BY DEF IInv, TypeOK, Locs, Claim
<1>3. read' \in [Mail -> {"null", "empty", "part", "full"}]
  BY DEF IInv, TypeOK, Claim, BodyNow
<1>4. loc' \in Locs /\ rescan' \subseteq Mail
  BY <1>2 DEF IInv, TypeOK, Locs
<1>5. TypeOK'
  BY <1>1, <1>3, <1>4 DEF IInv, TypeOK, Scans, Locs
<1>6. IdleHasNoMail' /\ RestHasNoBatch' /\ BackIsDelivered'
  BY <1>1 DEF IInv, IdleHasNoMail, RestHasNoBatch, BackIsDelivered, Delivered
<1>7. ASSUME NEW n \in Mail PROVE MailOK(n)'
  <2>1. CASE n # m \/ loc'[m] = loc[m]
    <3>1. Untouched(n)
      BY <1>1, <1>2, <2>1 DEF Untouched, Delivered
    <3> QED BY <3>1, UntouchedOK DEF IInv
  <2>2. CASE n = m /\ loc'[m] # loc[m]
    <3>1. /\ loc[m] = "info" /\ scan'.batch = scan.batch \cup {m} /\ loc'[m] = "tmp"
          /\ rescan' = IF HeldBack(m) THEN rescan \cup {m} ELSE rescan
      BY <1>2, <2>2
    <3>2. MailOK(m) /\ Delivered(m)' = Delivered(m)
      BY <1>1 DEF IInv, Delivered
    <3>3. Waiting(m)' /\ Working(m)' = Working(m) /\ HeldBack(m)' = HeldBack(m)
      BY <1>1, <3>1 DEF Waiting, Working, HeldBack
    <3>4. ListedLater(m)' /\ Owned(m)' /\ Once(m)' /\ Honest(m)'
      BY <1>1, <3>1, <3>2, <3>3 DEF MailOK, ListedLater, Owned, Once, Honest
    <3>5. CASE m \in rescan'
      BY <3>4, <3>5, <2>2 DEF MailOK, TmpWhileHeld, OneHolder, DeliveredIsKept, UnheardFails
    <3>6. CASE m \notin rescan'
      <4>1. m \notin rescan /\ ~HeldBack(m) /\ ~Working(m) /\ ~Waiting(m) /\ m \notin stranded
        BY <3>1, <3>2, <3>6 DEF MailOK, TmpWhileHeld
      <4>2. \A s \in Sender : snd[s].mail # m
        BY <4>1 DEF IInv, TypeOK, IdleHasNoMail, Working, HeldBack
      <4>3. TmpWhileHeld(m)' /\ OneHolder(m)'
        BY <1>1, <3>1, <3>3, <4>1, <4>2 DEF TmpWhileHeld, OneHolder, Waiting
      <4>4. DeliveredIsKept(m)' /\ UnheardFails(m)'
        BY <1>1, <3>1, <3>2, <4>1, <4>2 DEF MailOK, DeliveredIsKept, UnheardFails
      <4> QED BY <2>2, <3>4, <4>3, <4>4 DEF MailOK
    <3> QED BY <3>5, <3>6
  <2> QED BY <2>1, <2>2
<1> QED BY <1>5, <1>6, <1>7 DEF IInv

(* A task is handed to a thread, or goes into the queue. *)
LEMMA ExecuteKeeps ==
    ASSUME IInv, NEW m \in Mail, Execute(m)
    PROVE  IInv'
<1>1. /\ scan' \in Scans /\ scan'.pc # "rest"
      /\ m \in scan.batch /\ scan'.batch = scan.batch \ {m}
  BY DEF IInv, TypeOK, Scans, Execute
<1>2. created' \in 0..Pool /\ UNCHANGED <<stage, loc, read, delivered, twice, rescan, unheard, cut, stranded>>
  BY MailConstants DEF IInv, TypeOK, Execute, files, seen
<1>3. \/ snd' = snd /\ queue' = queue \cup {m}
      \/ /\ queue' = queue
         /\ \E s \in Sender :
              /\ snd' \in [Sender -> Tasks] /\ snd[s] = NoTask
              /\ snd'[s].pc = "send" /\ snd'[s].mail = m
              /\ \A t \in Sender \ {s} : snd'[t] = snd[t]
  BY TaskMoves DEF IInv, Execute
<1>4. TypeOK'
  BY <1>1, <1>2, <1>3 DEF IInv, TypeOK, Scans, Tasks
<1>5. IdleHasNoMail' /\ RestHasNoBatch' /\ BackIsDelivered'
  BY <1>1, <1>2, <1>3 DEF IInv, IdleHasNoMail, RestHasNoBatch, BackIsDelivered, Delivered
<1>6. ASSUME NEW n \in Mail PROVE MailOK(n)'
  <2>1. \A s \in Sender : snd[s] = NoTask => snd[s].mail # n /\ snd[s].pc = "idle"
    BY MailConstants DEF NoTask
  <2>2. CASE n # m
    <3>1. Untouched(n)
      BY <1>1, <1>2, <1>3, <2>1, <2>2 DEF Untouched, Delivered
    <3> QED BY <3>1, UntouchedOK DEF IInv
  <2>3. CASE n = m
    <3>1. MailOK(m) /\ Waiting(m) /\ Delivered(m)' = Delivered(m)
      BY <1>1, <1>2 DEF IInv, Waiting, Delivered
    <3>2. Waiting(m)' \/ Working(m)'
      BY <1>3 DEF Waiting, Working
    <3>3. ListedLater(m)' /\ Owned(m)' /\ Once(m)' /\ Honest(m)'
      BY <1>2, <3>1, <3>2 DEF MailOK, ListedLater, Owned, Once, Honest
    <3>4. CASE m \in rescan
      BY <1>2, <2>3, <3>3, <3>4 DEF MailOK, TmpWhileHeld, OneHolder, DeliveredIsKept, UnheardFails
    <3>5. CASE m \notin rescan
      <4>1. m \notin queue /\ m \notin stranded /\ loc[m] = "tmp" /\ \A s \in Sender : snd[s].mail # m
        BY <1>1, <3>1, <3>5 DEF MailOK, OneHolder, TmpWhileHeld, Waiting
      <4>2. TmpWhileHeld(m)'
        BY <1>2, <1>3, <4>1 DEF TmpWhileHeld, HeldBack
      <4>3. OneHolder(m)'
        BY <1>1, <1>2, <1>3, <4>1 DEF OneHolder, Waiting
      <4>4. DeliveredIsKept(m)' /\ UnheardFails(m)'
        BY <1>2, <3>1, <3>5, <4>1 DEF MailOK, DeliveredIsKept, UnheardFails
      <4> QED BY <2>3, <3>3, <4>2, <4>3, <4>4 DEF MailOK
    <3> QED BY <3>4, <3>5
  <2> QED BY <2>2, <2>3
<1> QED BY <1>4, <1>5, <1>6 DEF IInv

LEMMA TakeQueuedKeeps ==
    ASSUME IInv, NEW s \in Sender, NEW m \in Mail, TakeQueued(s, m)
    PROVE  IInv'
<1>1. /\ m \in queue /\ queue' = queue \ {m}
      /\ snd[s].pc = "idle" /\ snd[s].mail = NoMail
      /\ snd' \in [Sender -> Tasks] /\ snd'[s].pc = "send" /\ snd'[s].mail = m
      /\ \A t \in Sender \ {s} : snd'[t] = snd[t]
  <2>1. snd' = [snd EXCEPT ![s] = Task(m)] /\ snd[s] = NoTask
        /\ m \in queue /\ queue' = queue \ {m}
    BY DEF TakeQueued
  <2>2. snd[s].pc = "idle" /\ snd[s].mail = NoMail
    BY <2>1 DEF NoTask
  <2>3. /\ snd' \in [Sender -> Tasks] /\ snd'[s].pc = "send" /\ snd'[s].mail = m
        /\ \A t \in Sender \ {s} : snd'[t] = snd[t]
    BY <2>1, TaskMoves DEF IInv
  <2> QED BY <2>1, <2>2, <2>3
<1>2. UNCHANGED <<stage, loc, read, scan, created, delivered, twice, rescan, unheard, cut, stranded>>
  BY DEF TakeQueued, files, seen
<1>3. TypeOK'
  BY <1>1, <1>2 DEF IInv, TypeOK, Tasks
<1>4. IdleHasNoMail' /\ RestHasNoBatch' /\ BackIsDelivered'
  BY <1>1, <1>2 DEF IInv, IdleHasNoMail, RestHasNoBatch, BackIsDelivered, Delivered
<1>5. ASSUME NEW n \in Mail PROVE MailOK(n)'
  <2>1. CASE n # m
    <3>1. Untouched(n)
      BY <1>1, <1>2, <2>1, MailConstants DEF Untouched, Delivered
    <3> QED BY <3>1, UntouchedOK DEF IInv
  <2>2. CASE n = m
    <3>1. MailOK(m) /\ Waiting(m) /\ Delivered(m)' = Delivered(m)
      BY <1>1, <1>2 DEF IInv, Waiting, Delivered
    <3>2. Working(m)'
      BY <1>1 DEF Working
    <3>3. ListedLater(m)' /\ Owned(m)' /\ Once(m)' /\ Honest(m)'
      BY <1>2, <3>1, <3>2 DEF MailOK, ListedLater, Owned, Once, Honest
    <3>4. CASE m \in rescan
      BY <1>2, <2>2, <3>3, <3>4 DEF MailOK, TmpWhileHeld, OneHolder, DeliveredIsKept, UnheardFails
    <3>5. CASE m \notin rescan
      <4>1. /\ m \notin scan.batch /\ m \notin stranded /\ loc[m] = "tmp"
            /\ \A t \in Sender : snd[t].mail # m
        BY <1>1, <3>1, <3>5 DEF MailOK, OneHolder, TmpWhileHeld, Waiting
      <4>2. TmpWhileHeld(m)'
        BY <1>1, <1>2, <4>1 DEF TmpWhileHeld, HeldBack
      <4>3. OneHolder(m)'
        BY <1>1, <1>2, <4>1 DEF OneHolder, Waiting
      <4>4. DeliveredIsKept(m)' /\ UnheardFails(m)'
        BY <1>2, <3>1, <3>5, <4>1 DEF MailOK, DeliveredIsKept, UnheardFails
      <4> QED BY <2>2, <3>3, <4>2, <4>3, <4>4 DEF MailOK
    <3> QED BY <3>4, <3>5
  <2> QED BY <2>1, <2>2
<1> QED BY <1>3, <1>4, <1>5 DEF IInv

LEMMA ShutdownKeeps ==
    ASSUME IInv, Shutdown
    PROVE  IInv'
<1>1. scan.batch = {} /\ scan' \in Scans /\ scan'.batch = {}
  <2>1. scan' = [pc |-> "rest", dir |-> 0, todo |-> {}, batch |-> {}]
    BY DEF Shutdown, Rest
  <2> QED BY <2>1, MailConstants DEF Shutdown, Scans
<1>2. /\ snd' \in [Sender -> Tasks]
      /\ \A s \in Sender : snd'[s].pc = snd[s].pc /\ snd'[s].mail = snd[s].mail
  BY DEF IInv, TypeOK, Tasks, Shutdown
<1>3. /\ stranded' = stranded \cup queue /\ queue' = {} /\ created' = 0
      /\ UNCHANGED <<stage, loc, read, delivered, twice, rescan, unheard, cut>>
  BY DEF Shutdown, files
<1>4. TypeOK'
  BY <1>1, <1>2, <1>3, MailConstants DEF IInv, TypeOK, Tasks, Scans
<1>5. IdleHasNoMail' /\ RestHasNoBatch' /\ BackIsDelivered'
  BY <1>1, <1>2, <1>3 DEF IInv, IdleHasNoMail, RestHasNoBatch, BackIsDelivered, Delivered
<1>6. ASSUME NEW n \in Mail PROVE MailOK(n)'
  <2>1. /\ MailOK(n) /\ Delivered(n)' = Delivered(n)
        /\ ~Waiting(n)' /\ Working(n)' = Working(n) /\ HeldBack(n)' = HeldBack(n)
    BY <1>1, <1>2, <1>3 DEF IInv, Delivered, Waiting, Working, HeldBack
  <2>2. ListedLater(n)' /\ Owned(n)' /\ TmpWhileHeld(n)' /\ Once(n)' /\ Honest(n)'
    BY <1>1, <1>3, <2>1 DEF MailOK, ListedLater, Owned, TmpWhileHeld, Once, Honest, Waiting
  <2>3. OneHolder(n)'
    BY <1>1, <1>2, <1>3, <2>1 DEF MailOK, OneHolder, Waiting
  <2>4. DeliveredIsKept(n)' /\ UnheardFails(n)'
    BY <1>2, <1>3, <2>1 DEF MailOK, DeliveredIsKept, UnheardFails
  <2> QED BY <2>2, <2>3, <2>4 DEF MailOK
<1> QED BY <1>4, <1>5, <1>6 DEF IInv

LEMMA WriteKeeps ==
    ASSUME IInv, NEW m \in Mail, Write(m)
    PROVE  IInv'
<1>1. UNCHANGED <<read, scan, queue, created, snd, delivered, twice, rescan, unheard, cut, stranded>>
  BY DEF Write, seen
<1>2. /\ stage' \in [Mail -> {"new", "body", "listed", "flushed", "done"}]
      /\ stage'[m] = NextStage(m) /\ \A n \in Mail \ {m} : stage'[n] = stage[n]
  BY DEF IInv, TypeOK, Write, NextStage
<1>3. /\ loc' \in Locs /\ \A n \in Mail \ {m} : loc'[n] = loc[n]
      /\ loc'[m] = IF stage[m] = "body" THEN "info" ELSE loc[m]
  BY DEF IInv, TypeOK, Locs, Write
<1>4. TypeOK'
  BY <1>1, <1>2, <1>3 DEF IInv, TypeOK, Locs
<1>5. IdleHasNoMail' /\ RestHasNoBatch' /\ BackIsDelivered'
  BY <1>1 DEF IInv, IdleHasNoMail, RestHasNoBatch, BackIsDelivered, Delivered
<1>6. ASSUME NEW n \in Mail PROVE MailOK(n)'
  <2>1. CASE n # m
    <3>1. Untouched(n)
      BY <1>1, <1>2, <1>3, <2>1 DEF Untouched, Delivered
    <3> QED BY <3>1, UntouchedOK DEF IInv
  <2>2. CASE n = m
    <3>1. /\ MailOK(m) /\ Delivered(m)' = Delivered(m) /\ Waiting(m)' = Waiting(m)
          /\ Working(m)' = Working(m) /\ HeldBack(m)' = HeldBack(m)
      BY <1>1 DEF IInv, Delivered, Waiting, Working, HeldBack
    <3>2. ListedLater(m)'
      <4>1. stage'[m] \in {"new", "body"} => stage[m] = "new"
        BY <1>2 DEF IInv, TypeOK, NextStage
      <4> QED BY <1>3, <3>1, <4>1 DEF MailOK, ListedLater
    <3>3. Owned(m)' /\ TmpWhileHeld(m)' /\ Once(m)' /\ Honest(m)'
      BY <1>1, <1>3, <3>1 DEF MailOK, ListedLater, Owned, TmpWhileHeld, Once, Honest
    <3>4. OneHolder(m)'
      BY <1>1, <3>1 DEF MailOK, OneHolder
    <3>5. DeliveredIsKept(m)' /\ UnheardFails(m)'
      BY <1>1, <1>3, <3>1 DEF MailOK, ListedLater, DeliveredIsKept, UnheardFails
    <3> QED BY <2>2, <3>2, <3>3, <3>4, <3>5 DEF MailOK
  <2> QED BY <2>1, <2>2
<1> QED BY <1>4, <1>5, <1>6 DEF IInv

LEMMA CrashKeeps ==
    ASSUME IInv, Crash
    PROVE  IInv'
<1>1. scan' \in Scans /\ scan'.batch = {} /\ queue' = {} /\ created' = 0
  <2>1. scan' = [pc |-> "rest", dir |-> 0, todo |-> {}, batch |-> {}]
    BY DEF Crash, Rest
  <2> QED BY <2>1, MailConstants DEF Crash, Scans
<1>2. /\ snd' \in [Sender -> Tasks]
      /\ \A s \in Sender : snd'[s].pc = "idle" /\ snd'[s].mail = NoMail
  BY DEF Crash, NoTask, Tasks
<1>3. /\ stranded' = stranded \cup {m \in Mail : loc[m] = "tmp"}
      /\ rescan' = rescan \cup {m \in Mail : loc[m] = "info" /\ HeldBack(m)}
      /\ cut' \subseteq Mail
      /\ UNCHANGED <<stage, loc, read, delivered, twice, unheard>>
  BY DEF IInv, TypeOK, Crash, files
<1>4. TypeOK'
  BY <1>1, <1>2, <1>3, MailConstants DEF IInv, TypeOK, Tasks, Scans
<1>5. IdleHasNoMail' /\ RestHasNoBatch' /\ BackIsDelivered'
  BY <1>1, <1>2, MailConstants DEF IdleHasNoMail, RestHasNoBatch, BackIsDelivered
<1>6. ASSUME NEW n \in Mail PROVE MailOK(n)'
  <2>1. MailOK(n) /\ Delivered(n)' = Delivered(n)
    BY <1>3 DEF IInv, Delivered
  <2>2. ~Waiting(n)' /\ ~Working(n)' /\ ~HeldBack(n)' /\ \A s \in Sender : snd'[s].mail # n
    BY <1>1, <1>2, MailConstants DEF Waiting, Working, HeldBack
  <2>3. ListedLater(n)' /\ Owned(n)' /\ Once(n)' /\ Honest(n)'
    BY <1>3, <2>1 DEF MailOK, ListedLater, Owned, Once, Honest
  <2>4. TmpWhileHeld(n)' /\ OneHolder(n)'
    BY <1>1, <1>3, <2>1, <2>2 DEF MailOK, TmpWhileHeld, OneHolder
  <2>5. DeliveredIsKept(n)'
    <3>1. SUFFICES ASSUME Delivered(n), n \notin rescan' \cup unheard
                   PROVE loc[n] = "SUCCESS" \/ n \in stranded'
      BY <1>3, <2>1 DEF DeliveredIsKept
    <3>2. CASE \E s \in Sender : snd[s].mail = n /\ snd[s].pc = "back"
      BY <1>3, <2>1, <3>1, <3>2 DEF MailOK, TmpWhileHeld, Working
    <3>3. CASE \E s \in Sender : snd[s].mail = n /\ snd[s].pc = "move"
      BY <1>3, <2>1, <3>1, <3>3 DEF MailOK, TmpWhileHeld, HeldBack
    <3> QED BY <1>3, <2>1, <3>1, <3>2, <3>3 DEF MailOK, DeliveredIsKept
  <2>6. UnheardFails(n)'
    <3>1. SUFFICES ASSUME n \in unheard, n \notin rescan'
                   PROVE  Delivered(n) /\ read[n] # "null" /\ (loc[n] = "FAIL" \/ n \in stranded')
      BY <1>3, <2>1 DEF UnheardFails
    <3>2. CASE \E s \in Sender : snd[s].mail = n /\ snd[s].pc = "failback"
      BY <1>3, <2>1, <3>1, <3>2 DEF MailOK, UnheardFails, TmpWhileHeld, Working
    <3>3. CASE \E s \in Sender : snd[s].mail = n /\ snd[s].pc = "failmove"
      BY <1>3, <2>1, <3>1, <3>3 DEF MailOK, TmpWhileHeld, HeldBack
    <3> QED BY <1>3, <2>1, <3>1, <3>2, <3>3 DEF MailOK, UnheardFails
  <2> QED BY <2>3, <2>4, <2>5, <2>6 DEF MailOK
<1> QED BY <1>4, <1>5, <1>6 DEF IInv

-----------------------------------------------------------------------------
(* The steps of a thread s for its mail m. *)

LEMMA DeliverKeeps ==
    ASSUME IInv, NEW s \in Sender, NEW m \in Mail, snd[s].mail = m,
           Deliver(s) \/ DeliverUnheard(s)
    PROVE  IInv'
<1>1. snd[s].mail = m /\ snd[s].pc = "send" /\ read[m] \in {"part", "full"}
  BY DEF Deliver, DeliverUnheard, Accept
<1>2. /\ snd' \in [Sender -> Tasks] /\ snd'[s].mail = m
      /\ \/ snd'[s].pc = "back" /\ unheard' = unheard
         \/ snd'[s].pc = "failback" /\ unheard' = unheard \cup {m}
      /\ \A t \in Sender \ {s} : snd'[t] = snd[t]
  BY ToMoves DEF IInv, Deliver, DeliverUnheard
<1>3. /\ UNCHANGED <<stage, loc, read, scan, queue, created, rescan, cut, stranded>>
      /\ delivered' = delivered \cup {<<m, read[m]>>}
      /\ twice' = IF Delivered(m) THEN twice \cup {m} ELSE twice
  BY DEF Deliver, DeliverUnheard, Accept, Delivered, files
<1>4. /\ \A n \in Mail \ {m} : Delivered(n)' = Delivered(n)
      /\ \A n \in Mail : Delivered(n) => Delivered(n)'
      /\ Delivered(m)'
  BY <1>1, <1>3 DEF Delivered
<1>5. TypeOK'
  BY <1>1, <1>2, <1>3 DEF IInv, TypeOK, Tasks
<1>6. IdleHasNoMail' /\ RestHasNoBatch' /\ BackIsDelivered'
  BY <1>1, <1>2, <1>3, <1>4 DEF IInv, IdleHasNoMail, RestHasNoBatch, BackIsDelivered
<1>7. ASSUME NEW n \in Mail PROVE MailOK(n)'
  <2>1. CASE n # m
    <3>1. Untouched(n)
      BY <1>2, <1>3, <1>4, <2>1 DEF Untouched
    <3> QED BY <3>1, UntouchedOK DEF IInv
  <2>2. CASE n = m
    <3>1. /\ MailOK(m) /\ Working(m) /\ Working(m)' /\ Waiting(m)' = Waiting(m)
      BY <1>1, <1>2, <1>3 DEF IInv, Working, Waiting
    <3>2. ListedLater(m)' /\ Owned(m)'
      BY <1>3, <3>1 DEF MailOK, ListedLater, Owned
    <3>3. CASE m \in rescan
      BY <1>3, <1>4, <2>2, <3>2, <3>3
         DEF MailOK, TmpWhileHeld, OneHolder, DeliveredIsKept, UnheardFails, Once, Honest
    <3>4. CASE m \notin rescan
      <4>1. /\ loc[m] = "tmp" /\ ~Waiting(m) /\ m \notin stranded /\ ~HeldBack(m)
            /\ \A t \in Sender : snd[t].mail = m => t = s
        BY <1>1, <3>1, <3>4 DEF MailOK, TmpWhileHeld, OneHolder
      <4>2. ~Delivered(m)
        <5>1. m \notin unheard
          BY <1>1, <3>1, <3>4, <4>1 DEF MailOK, UnheardFails
        <5> QED BY <1>1, <3>1, <3>4, <4>1, <5>1 DEF MailOK, DeliveredIsKept
      <4>3. ~HeldBack(m)'
        BY <1>2, <4>1 DEF HeldBack
      <4>4. TmpWhileHeld(m)' /\ Once(m)' /\ Honest(m)'
        BY <1>3, <3>1, <4>1, <4>2, <4>3 DEF MailOK, TmpWhileHeld, Once, Honest
      <4>5. OneHolder(m)'
        BY <1>2, <1>3, <3>1, <4>1 DEF MailOK, OneHolder
      <4>6. DeliveredIsKept(m)' /\ UnheardFails(m)'
        <5>1. m \notin unheard
          BY <1>1, <3>1, <3>4, <4>1 DEF MailOK, UnheardFails
        <5> QED BY <1>1, <1>2, <1>3, <1>4, <5>1 DEF DeliveredIsKept, UnheardFails
      <4> QED BY <2>2, <3>2, <4>4, <4>5, <4>6 DEF MailOK
    <3> QED BY <3>3, <3>4
  <2> QED BY <2>1, <2>2
<1> QED BY <1>5, <1>6, <1>7 DEF IInv

LEMMA SendFailsKeeps ==
    ASSUME IInv, NEW s \in Sender, NEW m \in Mail, snd[s].mail = m, SendFails(s)
    PROVE  IInv'
<1>1. snd[s].mail = m /\ snd[s].pc = "send"
  BY DEF IInv, IdleHasNoMail, SendFails
<1>2. /\ snd' \in [Sender -> Tasks] /\ snd'[s].pc = "failback" /\ snd'[s].mail = m
      /\ \A t \in Sender \ {s} : snd'[t] = snd[t]
  BY ToMoves DEF IInv, SendFails
<1>3. UNCHANGED <<stage, loc, read, scan, queue, created, delivered, twice, rescan, unheard, cut, stranded>>
  BY DEF SendFails, files, seen
<1>4. TypeOK'
  BY <1>2, <1>3 DEF IInv, TypeOK, Tasks
<1>5. IdleHasNoMail' /\ RestHasNoBatch' /\ BackIsDelivered'
  BY <1>1, <1>2, <1>3 DEF IInv, IdleHasNoMail, RestHasNoBatch, BackIsDelivered, Delivered
<1>6. ASSUME NEW n \in Mail PROVE MailOK(n)'
  <2>1. /\ MailOK(n) /\ Delivered(n)' = Delivered(n) /\ Waiting(n)' = Waiting(n)
        /\ Working(n)' = Working(n) /\ HeldBack(n)' = HeldBack(n)
    BY <1>1, <1>2, <1>3 DEF IInv, Delivered, Waiting, Working, HeldBack
  <2>2. ListedLater(n)' /\ Owned(n)' /\ TmpWhileHeld(n)' /\ Once(n)' /\ Honest(n)'
    BY <1>3, <2>1 DEF MailOK, ListedLater, Owned, TmpWhileHeld, Once, Honest
  <2>3. OneHolder(n)' /\ DeliveredIsKept(n)' /\ UnheardFails(n)'
    BY <1>1, <1>2, <1>3, <2>1 DEF MailOK, OneHolder, DeliveredIsKept, UnheardFails
  <2> QED BY <2>2, <2>3 DEF MailOK
<1> QED BY <1>4, <1>5, <1>6 DEF IInv

LEMMA PutBackKeeps ==
    ASSUME IInv, NEW s \in Sender, NEW m \in Mail, snd[s].mail = m, PutBack(s)
    PROVE  IInv'
<1>1. snd[s].mail = m /\ snd[s].pc \in {"back", "failback"}
  BY DEF IInv, IdleHasNoMail, PutBack
<1>2. /\ snd' \in [Sender -> Tasks]
      /\ \A t \in Sender \ {s} : snd'[t] = snd[t]
      /\ \/ snd[s].pc = "back" /\ snd'[s].pc = "move" /\ snd'[s].mail = m
         \/ snd[s].pc = "failback" /\ snd'[s].pc = "failmove" /\ snd'[s].mail = m
         \/ snd[s].pc = "failback" /\ snd'[s].pc = "idle" /\ snd'[s].mail = NoMail
  BY ToMoves, DoneMoves DEF IInv, PutBack
<1>3. /\ loc' \in Locs /\ \A n \in Mail \ {m} : loc'[n] = loc[n]
      /\ loc'[m] = IF loc[m] = "tmp" THEN "info" ELSE loc[m]
  BY <1>1 DEF IInv, TypeOK, Locs, PutBack
<1>4. UNCHANGED <<stage, read, scan, queue, created, delivered, twice, rescan, unheard, cut, stranded>>
  BY DEF PutBack, seen
<1>5. TypeOK'
  BY <1>2, <1>3, <1>4 DEF IInv, TypeOK, Tasks, Locs
<1>6. IdleHasNoMail' /\ RestHasNoBatch' /\ BackIsDelivered'
  BY <1>1, <1>2, <1>4, MailConstants DEF IInv, IdleHasNoMail, RestHasNoBatch, BackIsDelivered, Delivered
<1>7. ASSUME NEW n \in Mail PROVE MailOK(n)'
  <2>1. CASE n # m
    <3>1. Untouched(n)
      BY <1>2, <1>3, <1>4, <2>1, MailConstants DEF Untouched, Delivered
    <3> QED BY <3>1, UntouchedOK DEF IInv
  <2>2. CASE n = m
    <3>1. MailOK(m) /\ Working(m) /\ Delivered(m)' = Delivered(m) /\ Waiting(m)' = Waiting(m)
      BY <1>1, <1>4 DEF IInv, Working, Waiting, Delivered
    <3>2. ListedLater(m)' /\ Owned(m)' /\ Once(m)' /\ Honest(m)'
      BY <1>3, <1>4, <3>1 DEF MailOK, ListedLater, Owned, Once, Honest
    <3>3. CASE m \in rescan
      BY <1>4, <2>2, <3>2, <3>3 DEF MailOK, TmpWhileHeld, OneHolder, DeliveredIsKept, UnheardFails
    <3>4. CASE m \notin rescan
      <4>1. /\ loc'[m] = "info" /\ ~Waiting(m) /\ m \notin stranded
            /\ \A t \in Sender : snd[t].mail = m => t = s
        BY <1>1, <1>3, <3>1, <3>4 DEF MailOK, TmpWhileHeld, OneHolder
      <4>2. ~Working(m)'
        BY <1>1, <1>2, <4>1, MailConstants DEF Working
      <4>3. TmpWhileHeld(m)'
        BY <1>4, <3>1, <4>1, <4>2 DEF TmpWhileHeld
      <4>4. OneHolder(m)'
        BY <1>1, <1>2, <1>4, <3>1, <4>1, MailConstants DEF MailOK, OneHolder
      <4>5. DeliveredIsKept(m)' /\ UnheardFails(m)'
        <5>1. UnheardFails(m) /\ DeliveredIsKept(m) /\ loc[m] = "tmp"
          BY <3>1, <3>4 DEF MailOK, TmpWhileHeld
        <5>2. DeliveredIsKept(m)'
          BY <1>2, <1>4, <3>1, <3>4, <4>1, <5>1 DEF DeliveredIsKept
        <5>3. snd'[s].pc = "idle" => read[m] = "null"
          BY <1>1, <1>2, ToMoves DEF PutBack, IInv
        <5>4. UnheardFails(m)'
          BY <1>1, <1>2, <1>4, <3>1, <3>4, <4>1, <5>1, <5>3 DEF UnheardFails
        <5> QED BY <5>2, <5>4
      <4> QED BY <2>2, <3>2, <4>3, <4>4, <4>5 DEF MailOK
    <3> QED BY <3>3, <3>4
  <2> QED BY <2>1, <2>2
<1> QED BY <1>5, <1>6, <1>7 DEF IInv

LEMMA MoveKeeps ==
    ASSUME IInv, NEW s \in Sender, NEW m \in Mail, snd[s].mail = m, Move(s)
    PROVE  IInv'
<1>1. snd[s].mail = m /\ snd[s].pc = "move" /\ Delivered(m)
  BY DEF IInv, BackIsDelivered, Move
<1>2. /\ snd' \in [Sender -> Tasks]
      /\ \A t \in Sender \ {s} : snd'[t] = snd[t]
      /\ \/ /\ loc[m] = "info" /\ loc' \in Locs /\ loc'[m] = "SUCCESS"
            /\ \A n \in Mail \ {m} : loc'[n] = loc[n]
            /\ snd'[s].pc = "idle" /\ snd'[s].mail = NoMail
         \/ /\ loc[m] # "info" /\ loc' \in Locs
            /\ loc'[m] = IF loc[m] = "SUCCESS" THEN "gone" ELSE loc[m]
            /\ \A n \in Mail \ {m} : loc'[n] = loc[n]
            /\ snd'[s].pc = "failmove" /\ snd'[s].mail = m
  <2>1. /\ loc' = [loc EXCEPT ![m] = IF loc[m] = "info" THEN "SUCCESS"
                                     ELSE IF loc[m] = "SUCCESS" THEN "gone" ELSE loc[m]]
        /\ loc \in Locs
    BY <1>1 DEF Move, IInv, TypeOK, Locs
  <2>2. loc' \in Locs /\ \A n \in Mail \ {m} : loc'[n] = loc[n]
    BY <2>1 DEF Locs
  <2>3. CASE loc[m] = "info"
    <3>1. Done(s)
      BY <1>1, <2>3 DEF Move
    <3> QED BY <2>1, <2>2, <2>3, <3>1, DoneMoves DEF IInv, Locs
  <2>4. CASE loc[m] # "info"
    <3>1. To(s, "failmove")
      BY <1>1, <2>4 DEF Move
    <3> QED BY <2>1, <2>2, <2>4, <3>1, ToMoves DEF IInv, Locs
  <2> QED BY <2>3, <2>4
<1>3. UNCHANGED <<stage, read, scan, queue, created, delivered, twice, rescan, unheard, cut, stranded>>
  BY DEF Move, seen
<1>4. TypeOK'
  BY <1>2, <1>3 DEF IInv, TypeOK, Tasks, Locs
<1>5. IdleHasNoMail' /\ RestHasNoBatch' /\ BackIsDelivered'
  BY <1>1, <1>2, <1>3, MailConstants DEF IInv, IdleHasNoMail, RestHasNoBatch, BackIsDelivered, Delivered
<1>6. ASSUME NEW n \in Mail PROVE MailOK(n)'
  <2>1. CASE n # m
    <3>1. Untouched(n)
      BY <1>1, <1>2, <1>3, <2>1, MailConstants DEF Untouched, Delivered
    <3> QED BY <3>1, UntouchedOK DEF IInv
  <2>2. CASE n = m
    <3>1. /\ MailOK(m) /\ HeldBack(m) /\ Delivered(m)'
          /\ Waiting(m)' = Waiting(m) /\ Working(m)' = Working(m)
      BY <1>1, <1>2, <1>3, MailConstants DEF IInv, HeldBack, Waiting, Working, Delivered
    <3>2. ListedLater(m)' /\ Owned(m)' /\ Once(m)'
      BY <1>2, <1>3, <3>1 DEF MailOK, ListedLater, Owned, Once
    <3>3. CASE m \in rescan
      <4>1. Honest(m)'
        BY <1>2, <1>3, <3>1, <3>3 DEF MailOK, Honest
      <4> QED BY <1>3, <2>2, <3>2, <3>3, <4>1 DEF MailOK, TmpWhileHeld, OneHolder, DeliveredIsKept, UnheardFails
    <3>4. CASE m \notin rescan
      <4>1. /\ ~Waiting(m) /\ m \notin stranded
            /\ \A t \in Sender : snd[t].mail = m => t = s
        BY <1>1, <3>1, <3>4 DEF MailOK, OneHolder
      <4>2. loc'[m] = "SUCCESS" /\ \A t \in Sender : snd'[t].mail # m
        BY <1>2, <3>1, <3>4, <4>1, MailConstants DEF MailOK, TmpWhileHeld
      <4>3. ~Waiting(m)' /\ ~Working(m)' /\ ~HeldBack(m)'
        BY <3>1, <4>1, <4>2 DEF Working, HeldBack
      <4>5. m \notin unheard
        BY <1>1, <3>1, <3>4, <4>1 DEF MailOK, UnheardFails, TmpWhileHeld
      <4>4. TmpWhileHeld(m)' /\ OneHolder(m)' /\ DeliveredIsKept(m)' /\ UnheardFails(m)' /\ Honest(m)'
        BY <1>3, <3>1, <4>1, <4>2, <4>3, <4>5
           DEF MailOK, TmpWhileHeld, OneHolder, DeliveredIsKept, UnheardFails, Honest, Waiting
      <4> QED BY <2>2, <3>2, <4>4 DEF MailOK
    <3> QED BY <3>3, <3>4
  <2> QED BY <2>1, <2>2
<1> QED BY <1>4, <1>5, <1>6 DEF IInv

LEMMA FailMoveKeeps ==
    ASSUME IInv, NEW s \in Sender, NEW m \in Mail, snd[s].mail = m, FailMove(s)
    PROVE  IInv'
<1>1. snd[s].mail = m /\ snd[s].pc = "failmove"
  BY DEF FailMove
<1>2. /\ snd' \in [Sender -> Tasks]
      /\ \A t \in Sender \ {s} : snd'[t] = snd[t]
      /\ snd'[s].pc = "idle" /\ snd'[s].mail = NoMail
  BY DoneMoves DEF IInv, FailMove
<1>3. /\ loc' \in Locs /\ \A n \in Mail \ {m} : loc'[n] = loc[n]
      /\ loc'[m] = IF loc[m] = "info" THEN "FAIL"
                    ELSE IF loc[m] = "FAIL" THEN "gone" ELSE loc[m]
  BY <1>1 DEF IInv, TypeOK, Locs, FailMove
<1>4. UNCHANGED <<stage, read, scan, queue, created, delivered, twice, rescan, unheard, cut, stranded>>
  BY DEF FailMove, seen
<1>5. TypeOK'
  BY <1>2, <1>3, <1>4 DEF IInv, TypeOK, Tasks, Locs
<1>6. IdleHasNoMail' /\ RestHasNoBatch' /\ BackIsDelivered'
  BY <1>1, <1>2, <1>4, MailConstants DEF IInv, IdleHasNoMail, RestHasNoBatch, BackIsDelivered, Delivered
<1>7. ASSUME NEW n \in Mail PROVE MailOK(n)'
  <2>1. CASE n # m
    <3>1. Untouched(n)
      BY <1>1, <1>2, <1>3, <1>4, <2>1, MailConstants DEF Untouched, Delivered
    <3> QED BY <3>1, UntouchedOK DEF IInv
  <2>2. CASE n = m
    <3>1. /\ MailOK(m) /\ HeldBack(m) /\ Delivered(m)' = Delivered(m)
          /\ Waiting(m)' = Waiting(m) /\ Working(m)' = Working(m)
      BY <1>1, <1>2, <1>4, MailConstants DEF IInv, HeldBack, Waiting, Working, Delivered
    <3>2. ListedLater(m)' /\ Owned(m)' /\ Once(m)'
      BY <1>3, <1>4, <3>1 DEF MailOK, ListedLater, Owned, Once
    <3>3. CASE m \in rescan
      <4>1. Honest(m)'
        BY <1>3, <1>4, <3>1, <3>3 DEF MailOK, Honest
      <4> QED BY <1>4, <2>2, <3>2, <3>3, <4>1 DEF MailOK, TmpWhileHeld, OneHolder, DeliveredIsKept, UnheardFails
    <3>4. CASE m \notin rescan
      <4>1. /\ ~Waiting(m) /\ m \notin stranded
            /\ \A t \in Sender : snd[t].mail = m => t = s
        BY <1>1, <3>1, <3>4 DEF MailOK, OneHolder
      <4>2. loc'[m] = "FAIL" /\ (Delivered(m) => m \in unheard) /\ \A t \in Sender : snd'[t].mail # m
        BY <1>1, <1>2, <1>3, <3>1, <3>4, <4>1, MailConstants DEF MailOK, TmpWhileHeld, DeliveredIsKept, UnheardFails
      <4>3. ~Waiting(m)' /\ ~Working(m)' /\ ~HeldBack(m)'
        BY <3>1, <4>1, <4>2 DEF Working, HeldBack
      <4>4. TmpWhileHeld(m)' /\ OneHolder(m)' /\ DeliveredIsKept(m)' /\ UnheardFails(m)' /\ Honest(m)'
        BY <1>4, <3>1, <4>1, <4>2, <4>3
           DEF MailOK, TmpWhileHeld, OneHolder, DeliveredIsKept, UnheardFails, Honest, Waiting
      <4> QED BY <2>2, <3>2, <4>4 DEF MailOK
    <3> QED BY <3>3, <3>4
  <2> QED BY <2>1, <2>2
<1> QED BY <1>5, <1>6, <1>7 DEF IInv

-----------------------------------------------------------------------------
(* A thread that takes a step has a mail. *)
LEMMA StepHasMail ==
    ASSUME IInv, NEW s \in Sender, SendStep(s)
    PROVE  snd[s].mail \in Mail
<1>1. snd[s].pc # "idle"
  BY DEF SendStep, Deliver, DeliverUnheard, SendFails, PutBack, Move, FailMove
<1> QED BY <1>1 DEF IInv, IdleHasNoMail

LEMMA NextKeeps ==
    ASSUME IInv, [Next]_vars
    PROVE  IInv'
<1>1. CASE Scanner
  BY <1>1, ScanKeeps, ShutdownKeeps, ClaimKeeps, ExecuteKeeps DEF Scanner
<1>2. CASE Crash
  BY <1>2, CrashKeeps
<1>3. CASE \E m \in Mail : Write(m)
  BY <1>3, WriteKeeps
<1>4. ASSUME NEW s \in Sender, SendStep(s) PROVE IInv'
  <2>1. PICK m \in Mail : snd[s].mail = m
    BY <1>4, StepHasMail
  <2> QED BY <1>4, <2>1, DeliverKeeps, SendFailsKeeps, PutBackKeeps, MoveKeeps, FailMoveKeeps DEF SendStep
<1>5. CASE \E s \in Sender, m \in Mail : TakeQueued(s, m)
  BY <1>5, TakeQueuedKeeps
<1>6. CASE UNCHANGED vars
  <2>1. TypeOK' /\ IdleHasNoMail' /\ RestHasNoBatch' /\ BackIsDelivered'
    BY <1>6 DEF IInv, TypeOK, IdleHasNoMail, RestHasNoBatch, BackIsDelivered, Delivered, vars
  <2>2. ASSUME NEW n \in Mail PROVE MailOK(n)'
    <3>1. Untouched(n)
      BY <1>6 DEF Untouched, Delivered, vars
    <3> QED BY <3>1, UntouchedOK DEF IInv
  <2> QED BY <2>1, <2>2 DEF IInv
<1> QED BY <1>1, <1>2, <1>3, <1>4, <1>5, <1>6 DEF Next

LEMMA SpecIInv == Spec => []IInv
<1>1. Init => IInv
  BY InitIInv
<1>2. IInv /\ [Next]_vars => IInv'
  BY NextKeeps
<1> QED BY <1>1, <1>2, PTL DEF Spec

(* No .tmp file is without an owner: MailScanner.sendMail hands every file   *)
(* it renamed to a thread, to the queue, or loses it in shutdownNow.         *)
THEOREM TmpOwnership == Spec => []TmpIsOwned
<1>1. IInv => TmpIsOwned
  BY DEF IInv, MailOK, Owned, Waiting, TmpIsOwned
<1> QED BY <1>1, SpecIInv, PTL

(* The types, one delivery for each time a mail is taken, and SUCCESS and    *)
(* FAIL say what happened, for any number of mails, threads and scans.       *)
THEOREM DeliveryHonesty == Spec => []DeliveryIsHonest
<1>1. IInv => DeliveryIsHonest
  BY DEF IInv, TypeOK, MailOK, Once, Honest, DeliveryIsHonest, ResentOnlyIfRescanned, StatusIsHonest
<1> QED BY <1>1, SpecIInv, PTL

-----------------------------------------------------------------------------
(* What happens to the mails whose body is closed before the .info exists,   *)
(* when the SMTP server refuses nothing.                                     *)

LEMMA ReadWholeSame ==
    ASSUME NEW m \in Mail, ReadWhole(m), UNCHANGED <<read, loc, rescan>>,
           \A s \in Sender : snd'[s].mail = m /\ snd'[s].pc \in {"failback", "failmove"} =>
               snd[s].mail = m /\ snd[s].pc = snd'[s].pc
    PROVE  ReadWhole(m)'
BY DEF ReadWhole

LEMMA ReadWholeKeeps ==
    ASSUME IInv, Next, "smtp" \notin Events, NEW m \in Closed, ReadWhole(m)
    PROVE  ReadWhole(m)'
<1>1. m \in Mail /\ TypeOK /\ MailOK(m)
  BY MailConstants DEF IInv
<1>2. CASE ScanBegin \/ ListDir \/ NextDir
  BY <1>1, <1>2, ReadWholeSame DEF ScanBegin, ListDir, NextDir, files, seen
<1>3. CASE Shutdown
  <2>1. \A s \in Sender : snd'[s].pc = snd[s].pc /\ snd'[s].mail = snd[s].mail
    BY <1>1, <1>3 DEF TypeOK, Shutdown
  <2> QED BY <1>1, <1>3, <2>1, ReadWholeSame DEF Shutdown, files
<1>4. ASSUME NEW n \in Mail, Claim(n) PROVE ReadWhole(m)'
  <2>1. CASE n # m \/ loc[n] # "info"
    <3>1. read'[m] = read[m] /\ loc'[m] = loc[m] /\ (m \in rescan' <=> m \in rescan) /\ snd' = snd
      BY <1>1, <1>4, <2>1 DEF TypeOK, Claim
    <3> QED BY <3>1 DEF ReadWhole
  <2>2. CASE n = m /\ loc[m] = "info"
    <3>1. /\ read'[m] \in {"null", "full"} /\ loc'[m] = "tmp" /\ snd' = snd
          /\ m \in rescan \/ HeldBack(m) => m \in rescan'
      BY <1>1, <1>4, <2>2 DEF TypeOK, Claim, BodyNow
    <3>2. m \notin rescan' => ~Working(m) /\ ~HeldBack(m)
      BY <1>1, <2>2, <3>1 DEF MailOK, TmpWhileHeld
    <3> QED BY <3>1, <3>2 DEF ReadWhole, Working, HeldBack
  <2> QED BY <2>1, <2>2
<1>5. ASSUME NEW n \in Mail, Execute(n) PROVE ReadWhole(m)'
  <2>1. \A s \in Sender : snd'[s] = snd[s] \/ snd'[s].pc = "send"
    BY <1>1, <1>5 DEF TypeOK, Execute, Task
  <2> QED BY <1>1, <1>5, <2>1, ReadWholeSame DEF Execute, files, seen
<1>6. ASSUME NEW s \in Sender, NEW n \in Mail, TakeQueued(s, n) PROVE ReadWhole(m)'
  <2>1. \A t \in Sender : snd'[t] = snd[t] \/ snd'[t].pc = "send"
    BY <1>1, <1>6 DEF TypeOK, TakeQueued, Task
  <2> QED BY <1>1, <1>6, <2>1, ReadWholeSame DEF TakeQueued, files, seen
<1>7. CASE Crash
  <2>1. \A s \in Sender : snd'[s].pc = "idle"
    BY <1>7 DEF Crash, NoTask
  <2>2. UNCHANGED <<read, loc>> /\ (m \notin rescan' => m \notin rescan)
    BY <1>7 DEF Crash, files
  <2> QED BY <2>1, <2>2 DEF ReadWhole
<1>8. ASSUME NEW n \in Mail, Write(n) PROVE ReadWhole(m)'
  <2>1. UNCHANGED <<read, snd, rescan>> /\ (loc'[m] = "FAIL" => loc[m] = "FAIL")
    BY <1>1, <1>8 DEF TypeOK, Write, seen
  <2> QED BY <2>1 DEF ReadWhole
<1>9. ASSUME NEW s \in Sender, SendStep(s) PROVE ReadWhole(m)'
  <2>1. PICK n \in Mail : snd[s].mail = n
    BY <1>9, StepHasMail
  <2>2. CASE Deliver(s)
    <3>1. snd'[s].pc = "back" /\ \A t \in Sender \ {s} : snd'[t] = snd[t]
      BY <1>1, <2>2, ToMoves DEF Deliver
    <3> QED BY <1>1, <2>2, <3>1, ReadWholeSame DEF Deliver, files
  <2>7. ~DeliverUnheard(s)
    BY DEF DeliverUnheard
  <2>3. CASE SendFails(s)
    <3>1. /\ snd'[s].pc = "failback" /\ snd'[s].mail = n
          /\ \A t \in Sender \ {s} : snd'[t] = snd[t]
      BY <1>1, <2>1, <2>3, ToMoves DEF SendFails
    <3>2. UNCHANGED <<read, loc, rescan>> /\ read[n] \in {"null", "empty"}
      BY <2>1, <2>3, <1>9 DEF SendFails, files, seen
    <3> QED BY <3>1, <3>2 DEF ReadWhole
  <2>4. CASE PutBack(s)
    <3>1. /\ \A t \in Sender \ {s} : snd'[t] = snd[t]
          /\ \/ snd'[s].pc \in {"move", "idle"}
             \/ /\ snd[s].pc = "failback" /\ read[n] # "null"
                /\ snd'[s].pc = "failmove" /\ snd'[s].mail = n
      BY <1>1, <2>1, <2>4, ToMoves, DoneMoves DEF PutBack
    <3>2. UNCHANGED <<read, rescan>> /\ (loc'[m] = "FAIL" => loc[m] = "FAIL")
      BY <1>1, <2>1, <2>4 DEF TypeOK, PutBack, seen
    <3> QED BY <2>1, <3>1, <3>2 DEF ReadWhole
  <2>5. CASE Move(s)
    <3>1. UNCHANGED <<read, rescan>> /\ snd[s].pc = "move" /\ (loc'[m] = "FAIL" => loc[m] = "FAIL")
      BY <1>1, <2>1, <2>5 DEF TypeOK, Move, seen
    <3>2. /\ \A t \in Sender \ {s} : snd'[t] = snd[t]
          /\ \/ snd'[s].pc = "idle"
             \/ loc[n] # "info" /\ snd'[s].pc = "failmove" /\ snd'[s].mail = n
      <4>1. CASE loc[n] = "info"
        <5>1. Done(s)
          BY <2>1, <2>5, <4>1 DEF Move
        <5> QED BY <1>1, <5>1, DoneMoves
      <4>2. CASE loc[n] # "info"
        BY <1>1, <2>1, <2>5, <4>2, ToMoves DEF Move
      <4> QED BY <4>1, <4>2
    <3>3. n = m /\ m \notin rescan => loc[m] = "info"
      BY <1>1, <2>1, <3>1 DEF MailOK, TmpWhileHeld, HeldBack
    <3> QED BY <3>1, <3>2, <3>3 DEF ReadWhole
  <2>6. CASE FailMove(s)
    <3>1. /\ snd[s].pc = "failmove" /\ UNCHANGED <<read, rescan>>
          /\ n # m => loc'[m] = loc[m]
      BY <1>1, <2>1, <2>6 DEF TypeOK, FailMove, seen
    <3>2. snd'[s].pc = "idle" /\ \A t \in Sender \ {s} : snd'[t] = snd[t]
      BY <1>1, <2>6, DoneMoves DEF FailMove
    <3> QED BY <2>1, <3>1, <3>2 DEF ReadWhole
  <2> QED BY <1>9, <2>2, <2>3, <2>4, <2>5, <2>6, <2>7 DEF SendStep
<1> QED BY <1>2, <1>3, <1>4, <1>5, <1>6, <1>7, <1>8, <1>9 DEF Next, Scanner

(* A mail whose producer closes the body first ends in FAIL only after it    *)
(* was taken twice, if the SMTP server refuses nothing: the empty .info that *)
(* a scan may meet is put back by moveFailFile and costs nothing.            *)
THEOREM ClosedMailSucceeds ==
    ASSUME "smtp" \notin Events
    PROVE  Spec => []FailsOnlyIfTakenTwice
<1> DEFINE J == IInv /\ \A m \in Closed : ReadWhole(m)
<1>1. Init => J
  BY InitIInv, MailConstants DEF Init, NoTask, ReadWhole
<1>2. J /\ [Next]_vars => J'
  <2>1. ASSUME J, Next PROVE J'
    BY <2>1, NextKeeps, ReadWholeKeeps
  <2>2. ASSUME J, UNCHANGED vars PROVE J'
    BY <2>2, NextKeeps DEF ReadWhole, vars
  <2> QED BY <2>1, <2>2
<1>3. J => FailsOnlyIfTakenTwice
  BY DEF ReadWhole, FailsOnlyIfTakenTwice
<1> HIDE DEF J
<1> QED BY <1>1, <1>2, <1>3, PTL DEF Spec

-----------------------------------------------------------------------------
(* The refinement of MailLife. *)

TwiceIsDelivered == \A m \in twice : Delivered(m)

LEMMA TwiceKeeps ==
    ASSUME TypeOK, TwiceIsDelivered, [Next]_vars
    PROVE  TwiceIsDelivered'
<1>1. CASE UNCHANGED <<delivered, twice>>
  BY <1>1 DEF TwiceIsDelivered, Delivered
<1>2. CASE \E s \in Sender : Deliver(s) \/ DeliverUnheard(s)
  <2>1. PICK s \in Sender : Accept(snd[s].mail)
    BY <1>2 DEF Deliver, DeliverUnheard
  <2> DEFINE m == snd[s].mail
  <2>2. /\ read[m] \in {"part", "full"} /\ delivered' = delivered \cup {<<m, read[m]>>}
        /\ twice' \subseteq twice \cup {m}
    BY <2>1 DEF Accept
  <2>3. ASSUME NEW n \in twice' PROVE Delivered(n)'
    <3>1. CASE n = m
      BY <2>2, <3>1 DEF Delivered
    <3>2. CASE n # m
      BY <2>2, <2>3, <3>2 DEF TwiceIsDelivered, Delivered
    <3> QED BY <3>1, <3>2
  <2> QED BY <2>3 DEF TwiceIsDelivered
<1> QED BY <1>1, <1>2 DEF Next, Scanner, ScanBegin, ListDir, NextDir, Shutdown, Claim, Execute, SendStep,
     SendFails, PutBack, Move, FailMove, Crash, Write, TakeQueued, vars, seen

(* Steps as MailLife sees them. *)
SameLife(m) == LifeOf(m)' = LifeOf(m)
SameTimes == \A m \in Mail : Times(m)' = Times(m)

LEMMA NothingHappens ==
    ASSUME SameTimes, \A m \in Mail : SameLife(m)
    PROVE  UNCHANGED Spool!vars
BY DEF SameTimes, SameLife, Spool!vars

LEMMA OneGoes ==
    ASSUME NEW m \in Mail, \A n \in Mail \ {m} : SameLife(n),
           NEW from, NEW to, LifeOf(m) = from, LifeOf(m)' = to
    PROVE  Spool!Go(m, from, to)
BY DEF SameLife, Spool!Go

LEMMA TimesAre == ASSUME SameTimes PROVE [m \in Mail |-> Times(m)]' = [m \in Mail |-> Times(m)]
BY DEF SameTimes

LEMMA TimesKept == ASSUME UNCHANGED <<delivered, twice>> PROVE SameTimes
BY DEF SameTimes, Times, Delivered

LEMMA LifeKept ==
    ASSUME NEW m \in Mail, m \in rescan' <=> m \in rescan, m \in stranded' <=> m \in stranded,
           m \in unheard' <=> m \in unheard,
           loc'[m] = loc[m], Holds(m)' = Holds(m), Delivered(m)' = Delivered(m)
    PROVE  SameLife(m)
BY DEF SameLife, LifeOf, Phase

(* What the invariant says of a mail that was taken once at most. *)
LEMMA HeldOnce ==
    ASSUME IInv, NEW m \in Mail, m \notin rescan
    PROVE  /\ Holds(m) <=> Waiting(m) \/ Working(m) \/ HeldBack(m)
           /\ Waiting(m) \/ Working(m) => loc[m] = "tmp" /\ m \notin stranded
           /\ HeldBack(m) => loc[m] = "info" /\ m \notin stranded
           /\ m \in stranded => loc[m] = "tmp" /\ ~Holds(m)
           /\ loc[m] = "tmp" => Holds(m) \/ m \in stranded
           /\ m \notin twice
           /\ Delivered(m) => Holds(m) \/ loc[m] \in {"SUCCESS", "FAIL"} \/ m \in stranded
<1>1. MailOK(m)
  BY DEF IInv
<1>2. Holds(m) <=> Waiting(m) \/ Working(m) \/ HeldBack(m)
  BY DEF IInv, TypeOK, IdleHasNoMail, Holds, Waiting, Working, HeldBack
<1>3. /\ Waiting(m) \/ Working(m) \/ m \in stranded => loc[m] = "tmp"
      /\ HeldBack(m) => loc[m] = "info"
  BY <1>1 DEF MailOK, TmpWhileHeld
<1>4. /\ m \in stranded => ~Waiting(m)
      /\ Working(m) \/ HeldBack(m) => m \notin stranded
  BY <1>1 DEF MailOK, OneHolder, Working, HeldBack
<1>5. loc[m] = "tmp" => Waiting(m) \/ m \in stranded \/ Working(m)
  BY <1>1 DEF MailOK, Owned
<1>6. m \notin twice
  BY <1>1 DEF MailOK, Once
<1>7. Delivered(m) => Holds(m) \/ loc[m] \in {"SUCCESS", "FAIL"} \/ m \in stranded
  BY <1>1 DEF MailOK, DeliveredIsKept, UnheardFails, Holds
<1> QED BY <1>2, <1>3, <1>4, <1>5, <1>6, <1>7

(* A sender of a mail that was taken once knows whether it is delivered, *)
(* or the reply was lost and it is on its way to FAIL.                         *)
LEMMA SenderKnows ==
    ASSUME IInv, NEW s \in Sender, snd[s].pc # "idle", snd[s].mail \notin rescan
    PROVE  /\ snd[s].mail \in Mail /\ Holds(snd[s].mail)
           /\ Delivered(snd[s].mail) <=> snd[s].pc \in {"back", "move"} \/ snd[s].mail \in unheard
           /\ snd[s].mail \in unheard => /\ snd[s].pc \in {"failback", "failmove"}
                                         /\ read[snd[s].mail] # "null"
           /\ snd[s].mail \notin scan.batch \cup queue \cup stranded
           /\ \A t \in Sender \ {s} : snd[t].mail # snd[s].mail
           /\ loc[snd[s].mail] = IF snd[s].pc \in {"send", "back", "failback"} THEN "tmp" ELSE "info"
<1> DEFINE m == snd[s].mail
<1>1. m \in Mail /\ snd[s].pc \in {"send", "back", "move", "failback", "failmove"}
  BY DEF IInv, TypeOK, IdleHasNoMail
<1>2. MailOK(m) /\ Holds(m)
  BY <1>1 DEF IInv, Holds
<1>3. /\ m \notin scan.batch \cup queue \cup stranded
      /\ \A t \in Sender \ {s} : snd[t].mail # m
  BY <1>2 DEF MailOK, OneHolder, Waiting
<1>4. loc[m] = IF snd[s].pc \in {"send", "back", "failback"} THEN "tmp" ELSE "info"
  BY <1>1, <1>2 DEF MailOK, TmpWhileHeld, Working, HeldBack
<1>5. m \in unheard => /\ snd[s].pc \in {"failback", "failmove"}
                       /\ read[m] # "null" /\ Delivered(m)
  BY <1>1, <1>2, <1>3, <1>4 DEF MailOK, UnheardFails
<1>6. Delivered(m) <=> snd[s].pc \in {"back", "move"} \/ m \in unheard
  <2>1. snd[s].pc \in {"back", "move"} => Delivered(m)
    BY DEF IInv, BackIsDelivered
  <2>2. Delivered(m) /\ m \notin unheard => snd[s].pc \in {"back", "move"}
    BY <1>2, <1>3, <1>4 DEF MailOK, DeliveredIsKept
  <2> QED BY <1>5, <2>1, <2>2
<1> QED BY <1>1, <1>2, <1>3, <1>4, <1>5, <1>6

-----------------------------------------------------------------------------
(* One lemma for each action that MailLife sees. *)

LEMMA WriteLives ==
    ASSUME IInv, NEW m \in Mail, Write(m)
    PROVE  Spool!Enter(m) \/ UNCHANGED Spool!vars
<1>1. UNCHANGED <<scan, queue, snd, delivered, twice, rescan, unheard, stranded>>
      /\ \A n \in Mail \ {m} : loc'[n] = loc[n]
  BY DEF Write, seen, IInv, TypeOK
<1>2. SameTimes
  BY <1>1, TimesKept
<1>3. \A n \in Mail : Holds(n)' = Holds(n) /\ Delivered(n)' = Delivered(n)
  BY <1>1 DEF Holds, Delivered
<1>4. \A n \in Mail : loc'[n] = loc[n] \/ n \in rescan => SameLife(n)
  BY <1>1, <1>3, LifeKept DEF SameLife, LifeOf
<1>5. CASE loc'[m] = loc[m] \/ m \in rescan
  BY <1>1, <1>2, <1>4, <1>5, NothingHappens
<1>6. CASE loc'[m] # loc[m] /\ m \notin rescan
  <2>1. stage[m] = "body" /\ loc'[m] = "info"
    BY <1>6 DEF Write, IInv, TypeOK
  <2>2. loc[m] = "none"
    BY <2>1 DEF IInv, MailOK, ListedLater
  <2>3. m \notin stranded /\ ~Holds(m)
    BY <1>6, <2>2, HeldOnce
  <2>4. LifeOf(m) = "none" /\ LifeOf(m)' = "waiting"
    BY <1>1, <1>3, <1>6, <2>1, <2>2, <2>3 DEF LifeOf, Phase
  <2>5. Spool!Go(m, "none", "waiting")
    BY <1>1, <1>4, <2>4, OneGoes
  <2> QED BY <1>2, <2>5, TimesAre DEF Spool!Enter
<1> QED BY <1>5, <1>6

LEMMA ClaimLives ==
    ASSUME IInv, NEW m \in Mail, Claim(m)
    PROVE  Spool!Take(m) \/ Spool!Mishap({}, {m}) \/ UNCHANGED Spool!vars
<1>1. UNCHANGED <<queue, snd, delivered, twice, unheard, stranded>>
  BY DEF Claim
<1>2. \/ scan'.batch = scan.batch /\ UNCHANGED <<loc, rescan>>
      \/ /\ loc[m] = "info" /\ scan'.batch = scan.batch \cup {m}
         /\ loc'[m] = "tmp" /\ \A n \in Mail \ {m} : loc'[n] = loc[n]
         /\ rescan' = IF HeldBack(m) THEN rescan \cup {m} ELSE rescan
  BY DEF IInv, TypeOK, Scans, Claim
<1>3. SameTimes
  BY <1>1, TimesKept
<1>4. \A n \in Mail : Delivered(n)' = Delivered(n)
  BY <1>1 DEF Delivered
<1>5. ASSUME NEW n \in Mail, n # m \/ UNCHANGED <<loc, rescan>> \/ m \in rescan
      PROVE SameLife(n)
  <2>1. CASE n # m \/ (scan'.batch = scan.batch /\ UNCHANGED <<loc, rescan>>)
    <3>1. Holds(n)' = Holds(n)
      BY <1>1, <1>2, <2>1 DEF Holds
    <3> QED BY <1>1, <1>2, <1>4, <2>1, <3>1, LifeKept
  <2>2. CASE n = m /\ m \in rescan
    BY <1>2, <2>2 DEF SameLife, LifeOf
  <2>3. CASE UNCHANGED <<loc, rescan>> /\ scan'.batch # scan.batch
    BY <1>2, <2>3
  <2> QED BY <1>5, <2>1, <2>2, <2>3
<1>6. CASE UNCHANGED <<loc, rescan>> \/ m \in rescan
  BY <1>3, <1>5, <1>6, NothingHappens
<1>7. CASE ~UNCHANGED <<loc, rescan>> /\ m \notin rescan
  <2>1. /\ loc[m] = "info" /\ loc'[m] = "tmp" /\ Holds(m)'
        /\ rescan' = IF HeldBack(m) THEN rescan \cup {m} ELSE rescan
    BY <1>2, <1>7 DEF Holds
  <2>2. ~Waiting(m) /\ ~Working(m) /\ m \notin stranded
    BY <1>7, <2>1, HeldOnce
  <2>3. \A n \in Mail \ {m} : SameLife(n)
    BY <1>5
  <2>4. CASE HeldBack(m)
    <3>1. LifeOf(m) \in {"taken", "sent", "unheard"}
      BY <1>7, <2>1, <2>2, <2>4, HeldOnce DEF LifeOf, Phase
    <3>2. LifeOf(m)' = "contended"
      BY <2>1, <2>4 DEF LifeOf
    <3>3. Spool!Mishap({}, {m})
      BY <1>3, <2>3, <3>1, <3>2, TimesAre DEF Spool!Mishap, Spool!Held, SameLife
    <3> QED BY <3>3
  <2>5. CASE ~HeldBack(m)
    <3>1. ~Holds(m) /\ ~Delivered(m)
      BY <1>7, <2>1, <2>2, <2>5, HeldOnce
    <3>2. LifeOf(m) = "waiting" /\ LifeOf(m)' = "taken"
      BY <1>1, <1>4, <1>7, <2>1, <2>2, <2>5, <3>1 DEF LifeOf, Phase
    <3>3. Spool!Go(m, "waiting", "taken")
      BY <2>3, <3>2, OneGoes
    <3> QED BY <1>3, <3>3, TimesAre DEF Spool!Take
  <2> QED BY <2>4, <2>5
<1> QED BY <1>6, <1>7

LEMMA HandOverLives ==
    ASSUME IInv, \/ \E m \in Mail : Execute(m)
                 \/ \E s \in Sender, m \in Mail : TakeQueued(s, m)
    PROVE  UNCHANGED Spool!vars
<1>1. UNCHANGED <<loc, delivered, twice, rescan, unheard, stranded>>
  BY DEF Execute, TakeQueued, files, seen
<1>2. ASSUME NEW n \in Mail PROVE Holds(n)' = Holds(n)
  <2>1. \A s \in Sender : snd[s] = NoTask => snd[s].mail # n
    BY MailConstants DEF NoTask
  <2>2. CASE \E m \in Mail : Execute(m)
    <3>1. PICK m \in Mail : Execute(m)
      BY <2>2
    <3>2. scan'.batch = scan.batch \ {m} /\ m \in scan.batch
      BY <3>1 DEF IInv, TypeOK, Scans, Execute
    <3>3. CASE UNCHANGED snd /\ queue' = queue \cup {m}
      BY <3>2, <3>3 DEF Holds
    <3>4. CASE queue' = queue /\ \E s \in Sender : snd[s] = NoTask /\ snd' = [snd EXCEPT ![s] = Task(m)]
      <4>1. PICK s \in Sender : snd[s] = NoTask /\ snd' = [snd EXCEPT ![s] = Task(m)]
        BY <3>4
      <4>2. snd'[s].mail = m /\ \A t \in Sender \ {s} : snd'[t] = snd[t]
        BY <4>1, TaskMoves DEF IInv
      <4> QED BY <2>1, <3>2, <3>4, <4>1, <4>2 DEF Holds
    <3> QED BY <3>1, <3>3, <3>4 DEF Execute
  <2>3. CASE \E s \in Sender, m \in Mail : TakeQueued(s, m)
    <3>1. PICK s \in Sender, m \in Mail : TakeQueued(s, m)
      BY <2>3
    <3>2. snd'[s].mail = m /\ \A t \in Sender \ {s} : snd'[t] = snd[t]
      BY <3>1, TaskMoves DEF IInv, TakeQueued
    <3>3. snd[s] = NoTask /\ m \in queue /\ queue' = queue \ {m} /\ UNCHANGED scan
      BY <3>1 DEF TakeQueued
    <3> QED BY <2>1, <3>2, <3>3 DEF Holds
  <2> QED BY <2>2, <2>3
<1>3. \A n \in Mail : Delivered(n)' = Delivered(n)
  BY <1>1 DEF Delivered
<1>4. \A n \in Mail : SameLife(n)
  BY <1>1, <1>2, <1>3, LifeKept
<1> QED BY <1>1, <1>4, TimesKept, NothingHappens

LEMMA ShutdownLives ==
    ASSUME IInv, Shutdown
    PROVE  Spool!Mishap(queue \ rescan, {})
<1>1. /\ UNCHANGED <<loc, delivered, twice, rescan, unheard>> /\ stranded' = stranded \cup queue
      /\ scan.batch = {} /\ scan'.batch = {} /\ queue' = {}
  BY DEF Shutdown, Rest, files
<1>2. \A s \in Sender : snd'[s].mail = snd[s].mail
  BY DEF Shutdown, IInv, TypeOK
<1>3. \A n \in Mail : Delivered(n)' = Delivered(n)
  BY <1>1 DEF Delivered
<1>4. ASSUME NEW n \in Mail, n \notin queue \ rescan PROVE SameLife(n)
  <2>1. CASE n \in rescan
    BY <1>1, <2>1 DEF SameLife, LifeOf
  <2>2. CASE n \notin queue
    <3>1. Holds(n)' = Holds(n)
      BY <1>1, <1>2, <2>2 DEF Holds
    <3> QED BY <1>1, <1>3, <2>2, <3>1, LifeKept
  <2> QED BY <1>4, <2>1, <2>2
<1>5. ASSUME NEW n \in queue \ rescan
      PROVE  n \in Mail /\ LifeOf(n) \in {"taken", "sent", "unheard"} /\ LifeOf(n)' = "lost"
  <2>1. n \in Mail /\ Waiting(n)
    BY DEF IInv, TypeOK, Waiting
  <2>2. Holds(n) /\ loc[n] = "tmp" /\ n \notin stranded
    BY <2>1, HeldOnce
  <2> QED BY <1>1, <2>1, <2>2 DEF LifeOf, Phase
<1> QED BY <1>1, <1>4, <1>5, TimesKept, TimesAre DEF Spool!Mishap, Spool!Held, SameLife

LEMMA CrashLives ==
    ASSUME IInv, Crash
    PROVE  \E lost, found \in SUBSET Mail : Spool!Mishap(lost, found)
<1> DEFINE lost == {m \in Mail : loc[m] = "tmp" /\ m \notin rescan \cup stranded}
           found == {m \in Mail : loc[m] = "info" /\ HeldBack(m) /\ m \notin rescan}
<1>1. /\ UNCHANGED <<loc, delivered, twice, unheard>>
      /\ stranded' = stranded \cup {m \in Mail : loc[m] = "tmp"}
      /\ rescan' = rescan \cup {m \in Mail : loc[m] = "info" /\ HeldBack(m)}
      /\ scan'.batch = {} /\ queue' = {}
      /\ \A s \in Sender : snd'[s] = NoTask
  BY DEF Crash, Rest, files
<1>2. ASSUME NEW n \in Mail PROVE ~Holds(n)' /\ Delivered(n)' = Delivered(n)
  <2>1. NoTask.mail # n
    BY MailConstants DEF NoTask
  <2> QED BY <1>1, <2>1 DEF Holds, Delivered
<1>3. ASSUME NEW n \in lost
      PROVE  n \in Mail /\ LifeOf(n) \in {"taken", "sent", "unheard"} /\ LifeOf(n)' = "lost"
  <2>1. Holds(n)
    BY HeldOnce
  <2> QED BY <1>1, <2>1 DEF LifeOf, Phase
<1>4. ASSUME NEW n \in found
      PROVE  n \in Mail /\ LifeOf(n) \in {"taken", "sent", "unheard"} /\ LifeOf(n)' = "contended"
  <2>1. Holds(n) /\ n \notin stranded
    BY HeldOnce
  <2> QED BY <1>1, <2>1 DEF LifeOf, Phase
<1>5. ASSUME NEW n \in Mail, n \notin lost \cup found PROVE SameLife(n)
  <2>1. CASE n \in rescan
    BY <1>1, <2>1 DEF SameLife, LifeOf
  <2>2. CASE n \notin rescan /\ n \in stranded
    <3>1. loc[n] = "tmp"
      BY <2>2, HeldOnce
    <3> QED BY <1>1, <2>2, <3>1 DEF SameLife, LifeOf
  <2>3. CASE n \notin rescan \cup stranded
    <3>1. loc[n] # "tmp" /\ (loc[n] = "info" => ~HeldBack(n))
      BY <1>5, <2>3
    <3>2. loc[n] = "info" => ~Holds(n)
      BY <2>3, <3>1, HeldOnce
    <3>3. n \notin rescan' \cup stranded'
      BY <1>1, <2>3, <3>1
    <3>4. Phase(n)' = Phase(n)
      BY <1>1, <1>2, <3>1, <3>2 DEF Phase
    <3> QED BY <2>3, <3>3, <3>4 DEF SameLife, LifeOf
  <2> QED BY <2>1, <2>2, <2>3
<1>6. Spool!Mishap(lost, found)
  <2>1. \A n \in Mail : LifeOf(n)' = IF n \in found THEN "contended"
                                     ELSE IF n \in lost THEN "lost" ELSE LifeOf(n)
    BY <1>3, <1>4, <1>5 DEF SameLife
  <2>2. \A n \in lost \cup found : n \in Mail /\ LifeOf(n) \in {"taken", "sent", "unheard"}
    BY <1>3, <1>4
  <2> HIDE DEF lost, found
  <2> QED BY <1>1, <2>1, <2>2, TimesKept, TimesAre DEF Spool!Mishap, Spool!Held
<1>7. lost \in SUBSET Mail /\ found \in SUBSET Mail
  OBVIOUS
<1> QED BY <1>6, <1>7

LEMMA DeliverLives ==
    ASSUME IInv, TwiceIsDelivered, NEW s \in Sender, NEW m \in Mail, snd[s].mail = m,
           Deliver(s) \/ DeliverUnheard(s)
    PROVE  Spool!Deliver(m) \/ Spool!Resend(m)
<1>1. UNCHANGED <<loc, scan, queue, rescan, stranded>>
  BY DEF Deliver, DeliverUnheard, files
<1>2. /\ snd[s].pc = "send" /\ read[m] \in {"part", "full"}
      /\ delivered' = delivered \cup {<<m, read[m]>>}
      /\ twice' = IF Delivered(m) THEN twice \cup {m} ELSE twice
  BY DEF Deliver, DeliverUnheard, Accept, Delivered
<1>3. \A t \in Sender : snd'[t].mail = snd[t].mail
  BY ToMoves DEF IInv, Deliver, DeliverUnheard
<1>10. \A n \in Mail \ {m} : n \in unheard' <=> n \in unheard
  BY DEF Deliver, DeliverUnheard
<1>4. Delivered(m)' /\ \A n \in Mail \ {m} : Delivered(n)' = Delivered(n)
  BY <1>2 DEF Delivered
<1>5. \A n \in Mail : Holds(n)' = Holds(n)
  BY <1>1, <1>3 DEF Holds
<1>6. \A n \in Mail \ {m} : SameLife(n)
  BY <1>1, <1>4, <1>5, <1>10, LifeKept
<1>7. \A n \in Mail \ {m} : Times(n)' = Times(n)
  BY <1>2, <1>4 DEF Times
<1>8. CASE m \in rescan
  <2>1. LifeOf(m) = "contended" /\ SameLife(m)
    BY <1>1, <1>8 DEF SameLife, LifeOf
  <2>2. Times(m)' = IF Times(m) = 0 THEN 1 ELSE 2
    BY <1>2, <1>4 DEF Times, TwiceIsDelivered
  <2> QED BY <1>6, <1>7, <2>1, <2>2 DEF Spool!Resend, SameLife
<1>9. CASE m \notin rescan
  <2>1. Holds(m) /\ ~Delivered(m) /\ m \notin stranded /\ loc[m] = "tmp" /\ m \notin twice
    BY <1>2, <1>9, SenderKnows, HeldOnce
  <2>2. LifeOf(m) = "taken" /\ (LifeOf(m)' = "sent" \/ LifeOf(m)' = "unheard")
    BY <1>1, <1>4, <1>5, <1>9, <2>1 DEF LifeOf, Phase
  <2>3. Spool!Go(m, "taken", "sent") \/ Spool!Go(m, "taken", "unheard")
    BY <1>6, <2>2, OneGoes
  <2>4. Times(m) = 0 /\ Times(m)' = 1
    BY <1>2, <1>4, <2>1 DEF Times
  <2> QED BY <1>7, <2>3, <2>4 DEF Spool!Deliver
<1> QED BY <1>8, <1>9

LEMMA SendFailsLives ==
    ASSUME IInv, NEW s \in Sender, SendFails(s)
    PROVE  UNCHANGED Spool!vars
<1>1. UNCHANGED <<loc, scan, queue, delivered, twice, rescan, unheard, stranded>>
  BY DEF SendFails, files, seen
<1>2. \A t \in Sender : snd'[t].mail = snd[t].mail
  BY ToMoves DEF IInv, SendFails
<1>3. \A n \in Mail : Holds(n)' = Holds(n) /\ Delivered(n)' = Delivered(n)
  BY <1>1, <1>2 DEF Holds, Delivered
<1>4. \A n \in Mail : SameLife(n)
  BY <1>1, <1>3, LifeKept
<1> QED BY <1>1, <1>4, TimesKept, NothingHappens

(* A step of a sender that renames its file or is done with it. *)
LEMMA SenderLives ==
    ASSUME IInv, NEW s \in Sender, NEW m \in Mail, snd[s].mail = m,
           \/ \E l \in {"move", "failmove"} : To(s, l)
           \/ Done(s),
           \A n \in Mail \ {m} : loc'[n] = loc[n],
           UNCHANGED <<scan, queue, delivered, twice, rescan, unheard, stranded>>
    PROVE  /\ SameTimes /\ \A n \in Mail : Delivered(n)' = Delivered(n)
           /\ \A n \in Mail \ {m} : SameLife(n)
           /\ m \in rescan => SameLife(m)
           /\ m \notin rescan => Holds(m)' = ~Done(s)
<1>1. SameTimes /\ \A n \in Mail : Delivered(n)' = Delivered(n)
  BY TimesKept DEF Delivered
<1>2. \/ \A t \in Sender : snd'[t].mail = snd[t].mail
      \/ snd'[s].mail = NoMail /\ \A t \in Sender \ {s} : snd'[t].mail = snd[t].mail
  BY ToMoves, DoneMoves DEF IInv
<1>3. \A n \in Mail \ {m} : Holds(n)' = Holds(n)
  BY <1>2, MailConstants DEF Holds
<1>4. \A n \in Mail \ {m} : SameLife(n)
  BY <1>1, <1>3, LifeKept
<1>5. m \in rescan => SameLife(m)
  BY DEF SameLife, LifeOf
<1>6. ASSUME m \notin rescan PROVE Holds(m)' = ~Done(s)
  <2>1. snd[s].pc # "idle"
    BY DEF IInv, IdleHasNoMail
  <2>2. m \notin scan.batch \cup queue /\ \A t \in Sender \ {s} : snd[t].mail # m
    BY <1>6, <2>1, SenderKnows
  <2>3. CASE Done(s)
    <3>1. snd'[s].mail = NoMail /\ \A t \in Sender \ {s} : snd'[t] = snd[t]
      BY <2>3, DoneMoves DEF IInv
    <3> QED BY <2>2, <2>3, <3>1, MailConstants DEF Holds
  <2>4. CASE ~Done(s)
    <3>1. snd'[s].mail = m
      BY <2>4, ToMoves DEF IInv
    <3> QED BY <2>4, <3>1 DEF Holds
  <2> QED BY <2>3, <2>4
<1> QED BY <1>1, <1>4, <1>5, <1>6

LEMMA PutBackLives ==
    ASSUME IInv, NEW s \in Sender, NEW m \in Mail, snd[s].mail = m, PutBack(s)
    PROVE  Spool!Return(m) \/ UNCHANGED Spool!vars
<1>1. /\ snd[s].pc \in {"back", "failback"}
      /\ \A n \in Mail \ {m} : loc'[n] = loc[n]
      /\ loc'[m] = IF loc[m] = "tmp" THEN "info" ELSE loc[m]
      /\ UNCHANGED <<scan, queue, delivered, twice, rescan, unheard, stranded>>
      /\ \/ To(s, "move") \/ To(s, "failmove")
         \/ Done(s) /\ snd[s].pc = "failback"
  BY DEF PutBack, IInv, TypeOK, seen
<1>2. /\ SameTimes /\ \A n \in Mail : Delivered(n)' = Delivered(n)
      /\ \A n \in Mail \ {m} : SameLife(n)
      /\ m \in rescan => SameLife(m)
      /\ m \notin rescan => Holds(m)' = ~Done(s)
  BY <1>1, SenderLives
<1>3. CASE m \in rescan
  BY <1>2, <1>3, NothingHappens
<1>4. CASE m \notin rescan
  <2>1. Holds(m) /\ m \notin stranded /\ loc[m] = "tmp" /\ loc'[m] = "info"
        /\ (Delivered(m) <=> snd[s].pc = "back" \/ m \in unheard)
    BY <1>1, <1>4, SenderKnows
  <2>2. CASE Done(s)
    <3>1. snd[s].pc # "back"
      <4>1. snd'[s].pc = "idle"
        BY <2>2, DoneMoves DEF IInv
      <4>2. To(s, "move") \/ To(s, "failmove") => snd'[s].pc # "idle"
        BY ToMoves DEF IInv
      <4> QED BY <1>1, <4>1, <4>2
    <3>4. m \notin unheard
      <4>1. snd'[s].pc = "idle" /\ snd[s].pc = "failback"
        BY <1>1, <2>2, <3>1, DoneMoves DEF IInv
      <4>2. read[m] = "null"
        BY <4>1, ToMoves DEF PutBack, IInv
      <4> QED BY <1>1, <1>4, <4>2, SenderKnows
    <3>2. ~Holds(m)' /\ ~Delivered(m)
      BY <1>2, <1>4, <2>1, <2>2, <3>1, <3>4
    <3>3. LifeOf(m) = "taken" /\ LifeOf(m)' = "waiting"
      BY <1>1, <1>4, <2>1, <3>2 DEF LifeOf, Phase
    <3>5. Spool!Go(m, "taken", "waiting")
      BY <1>2, <3>3, OneGoes
    <3> QED BY <1>2, <3>5, TimesAre DEF Spool!Return
  <2>3. CASE ~Done(s)
    <3>1. Holds(m)' /\ Delivered(m)' = Delivered(m)
      BY <1>2, <1>4, <2>3
    <3>2. SameLife(m)
      BY <1>1, <1>4, <2>1, <3>1 DEF SameLife, LifeOf, Phase
    <3> QED BY <1>2, <3>2, NothingHappens
  <2> QED BY <2>2, <2>3
<1> QED BY <1>3, <1>4

LEMMA MoveLives ==
    ASSUME IInv, NEW s \in Sender, NEW m \in Mail, snd[s].mail = m, Move(s)
    PROVE  Spool!Succeed(m) \/ UNCHANGED Spool!vars
<1>1. /\ snd[s].pc = "move"
      /\ \A n \in Mail \ {m} : loc'[n] = loc[n]
      /\ loc[m] = "info" => loc'[m] = "SUCCESS"
      /\ UNCHANGED <<scan, queue, delivered, twice, rescan, unheard, stranded>>
      /\ To(s, "failmove") \/ Done(s)
  BY DEF Move, IInv, TypeOK, seen
<1>2. /\ SameTimes /\ \A n \in Mail : Delivered(n)' = Delivered(n)
      /\ \A n \in Mail \ {m} : SameLife(n)
      /\ m \in rescan => SameLife(m)
  BY <1>1, SenderLives
<1>3. CASE m \in rescan
  BY <1>2, <1>3, NothingHappens
<1>4. CASE m \notin rescan
  <2>1. /\ Holds(m) /\ m \notin stranded /\ loc[m] = "info" /\ Delivered(m)
        /\ m \notin unheard
    BY <1>1, <1>4, SenderKnows
  <2>2. LifeOf(m) = "sent" /\ LifeOf(m)' = "SUCCESS"
    BY <1>1, <1>4, <2>1 DEF LifeOf, Phase
  <2>3. Spool!Go(m, "sent", "SUCCESS")
    BY <1>2, <2>2, OneGoes
  <2> QED BY <1>2, <2>3, TimesAre DEF Spool!Succeed
<1> QED BY <1>3, <1>4

LEMMA FailMoveLives ==
    ASSUME IInv, NEW s \in Sender, NEW m \in Mail, snd[s].mail = m, FailMove(s)
    PROVE  Spool!Fail(m) \/ UNCHANGED Spool!vars
<1>1. /\ snd[s].pc = "failmove"
      /\ \A n \in Mail \ {m} : loc'[n] = loc[n]
      /\ loc[m] = "info" => loc'[m] = "FAIL"
      /\ UNCHANGED <<scan, queue, delivered, twice, rescan, unheard, stranded>>
      /\ Done(s)
  BY DEF FailMove, IInv, TypeOK, seen
<1>2. /\ SameTimes /\ \A n \in Mail : Delivered(n)' = Delivered(n)
      /\ \A n \in Mail \ {m} : SameLife(n)
      /\ m \in rescan => SameLife(m)
  BY <1>1, SenderLives
<1>3. CASE m \in rescan
  BY <1>2, <1>3, NothingHappens
<1>4. CASE m \notin rescan
  <2>1. Holds(m) /\ m \notin stranded /\ loc[m] = "info" /\ (Delivered(m) <=> m \in unheard)
    BY <1>1, <1>4, SenderKnows
  <2>2. (LifeOf(m) = "taken" \/ LifeOf(m) = "unheard") /\ LifeOf(m)' = "FAIL"
    BY <1>1, <1>4, <2>1 DEF LifeOf, Phase
  <2>3. Spool!Go(m, "taken", "FAIL") \/ Spool!Go(m, "unheard", "FAIL")
    BY <1>2, <2>2, OneGoes
  <2> QED BY <1>2, <2>3, TimesAre DEF Spool!Fail
<1> QED BY <1>3, <1>4

LEMMA ScanLives ==
    ASSUME ScanBegin \/ ListDir \/ NextDir, IInv
    PROVE  UNCHANGED Spool!vars
<1>1. UNCHANGED <<loc, queue, snd, delivered, twice, rescan, unheard, stranded>> /\ scan'.batch = scan.batch
  <2>1. scan \in Scans /\ (scan.pc = "rest" => scan.batch = {})
    BY DEF IInv, TypeOK, Scans, RestHasNoBatch
  <2> QED BY <2>1 DEF ScanBegin, ListDir, NextDir, files, seen, Scans, Rest
<1>2. \A n \in Mail : Holds(n)' = Holds(n) /\ Delivered(n)' = Delivered(n)
  BY <1>1 DEF Holds, Delivered
<1>3. \A n \in Mail : SameLife(n)
  BY <1>1, <1>2, LifeKept
<1> QED BY <1>1, <1>3, TimesKept, NothingHappens

(* The names of files, the batches and the threads implement the life of    *)
(* each mail: it is delivered once at most and filed as what happened to it, *)
(* and after its end, or its loss, nothing happens to it any more.           *)
(* (MailScanner.sendMail and scanner; MailSend.send, moveFile, moveFailFile.) *)
THEOREM SpoolRefinesLife == Spec => ImplementsLife
<1>1. Init => Spool!Init /\ TwiceIsDelivered
  <2> SUFFICES ASSUME Init PROVE Spool!Init /\ TwiceIsDelivered
    OBVIOUS
  <2>1. \A m \in Mail : LifeOf(m) = "none" /\ Times(m) = 0
    BY DEF Init, LifeOf, Phase, Times, Delivered
  <2> QED BY <2>1 DEF Init, TwiceIsDelivered, Spool!Init
<1>2. IInv /\ TwiceIsDelivered /\ [Next]_vars => TwiceIsDelivered'
  BY TwiceKeeps DEF IInv
<1>3. IInv /\ TwiceIsDelivered /\ [Next]_vars => [Spool!Next]_(Spool!vars)
  <2> SUFFICES ASSUME IInv, TwiceIsDelivered, [Next]_vars PROVE [Spool!Next]_(Spool!vars)
    OBVIOUS
  <2>1. CASE UNCHANGED vars
    <3>1. \A n \in Mail : LifeOf(n)' = LifeOf(n) /\ Times(n)' = Times(n)
      BY <2>1 DEF vars, LifeOf, Phase, Holds, Delivered, Times
    <3> QED BY <3>1, NothingHappens DEF SameLife, SameTimes
  <2>2. CASE ScanBegin \/ ListDir \/ NextDir
    BY <2>2, ScanLives
  <2>3. CASE Shutdown
    <3>1. queue \ rescan \in SUBSET Mail /\ {} \in SUBSET Mail
      BY DEF IInv, TypeOK
    <3> QED BY <2>3, <3>1, ShutdownLives DEF Spool!Next
  <2>4. ASSUME NEW m \in Mail, Claim(m) \/ Write(m) PROVE [Spool!Next]_(Spool!vars)
    <3>1. {m} \in SUBSET Mail /\ {} \in SUBSET Mail
      OBVIOUS
    <3> QED BY <2>4, <3>1, ClaimLives, WriteLives DEF Spool!Next
  <2>5. CASE \/ \E m \in Mail : Execute(m)
             \/ \E s \in Sender, m \in Mail : TakeQueued(s, m)
    BY <2>5, HandOverLives
  <2>6. CASE Crash
    BY <2>6, CrashLives DEF Spool!Next
  <2>7. ASSUME NEW s \in Sender, SendStep(s) PROVE [Spool!Next]_(Spool!vars)
    <3>1. PICK m \in Mail : snd[s].mail = m
      BY <2>7, StepHasMail DEF IInv
    <3>2. CASE Deliver(s) \/ DeliverUnheard(s)
      BY <3>1, <3>2, DeliverLives DEF Spool!Next
    <3>3. CASE SendFails(s)
      BY <3>3, SendFailsLives
    <3>4. CASE PutBack(s)
      BY <3>1, <3>4, PutBackLives DEF Spool!Next
    <3>5. CASE Move(s)
      BY <3>1, <3>5, MoveLives DEF Spool!Next
    <3>6. CASE FailMove(s)
      BY <3>1, <3>6, FailMoveLives DEF Spool!Next
    <3> QED BY <2>7, <3>2, <3>3, <3>4, <3>5, <3>6 DEF SendStep
  <2> QED BY <2>1, <2>2, <2>3, <2>4, <2>5, <2>6, <2>7 DEF Next, Scanner
<1> QED BY <1>1, <1>2, <1>3, SpecIInv, PTL DEF Spec, ImplementsLife, Spool!Spec
=============================================================================
