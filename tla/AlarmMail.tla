------------------------------ MODULE AlarmMail ------------------------------
(***************************************************************************)
(* Mail leaves the server through a directory per day.  A producer writes  *)
(* a body file and an ".info" file that names it; every minute             *)
(* MailScanner.sendMail lists the last days' directories, renames each     *)
(* .info it takes to .info.tmp, reads both files into a MailInfo and gives *)
(* it to a MailSend of a fresh thread pool, which is shut down at once.    *)
(* MailSend delivers the mail and moves its files to SUCCESS or FAIL.      *)
(*                                                                         *)
(* The file name is the only lock between producer, scanner and senders,   *)
(* and senders of one scan may still run during the next one.              *)
(***************************************************************************)
EXTENDS Naturals, FiniteSets

CONSTANTS
    Mail,       \* file names (without suffix); each is written once
    Sender,     \* MailSend threads; bounds how many are alive at once
    Dirs,       \* number of day directories scanned (BEFORE_DAYS)
    DirOf,      \* DirOf[m]: the directory of mail m
    PerDir,     \* MAX_MAIL_FOUND as the limit of one directory
    Pool,       \* MAX_MAIL_FOUND as the size of the pool
    Closed,     \* mails whose producer closes the body before the .info exists
    Large,      \* other mails whose body overflows the writer's buffer
    Events,     \* subset of EventKinds that may happen in this instance
    NoMail      \* not a mail

EventKinds == {"smtp", "crash"}

ASSUME MailConstants ==
    /\ Dirs \in Nat \ {0} /\ DirOf \in [Mail -> 1..Dirs]
    /\ PerDir \in Nat \ {0} /\ Pool \in Nat \ {0}
    /\ Closed \subseteq Mail /\ Large \subseteq Mail
    /\ Events \subseteq EventKinds
    /\ NoMail \notin Mail

VARIABLES
    stage,      \* stage[m]: how far the producer of m has come
    loc,        \* loc[m]: the name its .info file has now
    read,       \* read[m]: the body that the latest MailInfo of m holds
    scan,       \* the scanner: step, directory, files listed, MailInfos made
    queue,      \* tasks waiting in the pool of the current scan
    created,    \* threads that pool has started
    snd,        \* snd[s]: step, mail and pool of each MailSend
    delivered,  \* <<mail, body>> pairs the SMTP server accepted (observation)
    twice,      \* mails delivered more than once (observation)
    rescan,     \* mails put back to .info and taken again (observation)
    unheard,    \* mails accepted by the server in a send() that threw (observation)
    cut,        \* mails whose producer died with the process
    stranded    \* mails whose task was dropped or lost (observation)

vars == <<stage, loc, read, scan, queue, created, snd, delivered, twice,
          rescan, unheard, cut, stranded>>

files == <<stage, loc, read>>
seen  == <<delivered, twice, rescan, unheard, cut, stranded>>

-----------------------------------------------------------------------------
NoTask == [pc |-> "idle", mail |-> NoMail, cur |-> FALSE]
Rest   == [pc |-> "rest", dir |-> 0, todo |-> {}, batch |-> {}]

Init ==
    /\ stage = [m \in Mail |-> "new"]
    /\ loc = [m \in Mail |-> "none"]
    /\ read = [m \in Mail |-> "null"]
    /\ scan = Rest
    /\ queue = {} /\ created = 0
    /\ snd = [s \in Sender |-> NoTask]
    /\ delivered = {} /\ twice = {} /\ rescan = {} /\ unheard = {}
    /\ cut = {} /\ stranded = {}

-----------------------------------------------------------------------------
(* The producers. *)

(* What a reader of the body file sees: a BufferedWriter keeps the text, or  *)
(* its tail, until it is closed.                                            *)
BodyNow(m) == IF m \in Closed \/ stage[m] = "done" THEN "full"
              ELSE IF m \in Large THEN "part" ELSE "empty"

NextStage(m) ==
    CASE stage[m] = "new"    -> "body"
      [] stage[m] = "body"   -> "listed"
      [] stage[m] = "listed" -> IF m \in Closed THEN "done" ELSE "flushed"
      [] OTHER               -> "done"

(* Body file created (complete, for Closed) ; .info created, empty ; .info  *)
(* closed ; body closed.                                                    *)
Write(m) ==
    /\ stage[m] # "done" /\ m \notin cut
    /\ stage' = [stage EXCEPT ![m] = NextStage(m)]
    /\ loc' = [loc EXCEPT ![m] = IF stage[m] = "body" THEN "info" ELSE @]
    /\ UNCHANGED <<read, scan, queue, created, snd>> /\ UNCHANGED seen

InfoComplete(m) == stage[m] \in {"flushed", "done"}

-----------------------------------------------------------------------------
(* MailScanner. *)

ScanBegin ==
    /\ scan.pc = "rest"
    /\ scan' = [Rest EXCEPT !.pc = "list", !.dir = 1]
    /\ UNCHANGED <<files, queue, created, snd, seen>>

(* file.list(): the first PerDir names of an order the system chooses. *)
ListDir ==
    LET found == {m \in Mail : DirOf[m] = scan.dir /\ loc[m] = "info"}
    IN  /\ scan.pc = "list"
        /\ \E S \in SUBSET found :
             /\ Cardinality(S) = IF Cardinality(found) < PerDir
                                 THEN Cardinality(found) ELSE PerDir
             /\ scan' = [scan EXCEPT !.pc = "claim", !.todo = S]
        /\ UNCHANGED <<files, queue, created, snd, seen>>

HeldBack(m) == \E s \in Sender : snd[s].mail = m /\ snd[s].pc \in {"move", "failmove"}

(* Faulty: the file is read under its .info name and not renamed. *)
ClaimInPlace(m) ==
    /\ scan.pc = "claim" /\ m \in scan.todo
    /\ read' = [read EXCEPT ![m] = IF InfoComplete(m) THEN BodyNow(m) ELSE "null"]
    /\ scan' = [scan EXCEPT !.todo = @ \ {m}, !.batch = @ \cup {m}]
    /\ rescan' = IF HeldBack(m) THEN rescan \cup {m} ELSE rescan
    /\ UNCHANGED <<stage, loc, queue, created, snd, delivered, twice, unheard, cut, stranded>>

(* renameTo and new MailInfo: the file is read under its .tmp name.  If it  *)
(* is gone, the constructor throws and the rest of the directory waits.     *)
Claim(m) ==
    /\ scan.pc = "claim" /\ m \in scan.todo
    /\ IF loc[m] = "info"
       THEN /\ loc' = [loc EXCEPT ![m] = "tmp"]
            /\ read' = [read EXCEPT ![m] = IF InfoComplete(m) THEN BodyNow(m) ELSE "null"]
            /\ scan' = [scan EXCEPT !.todo = @ \ {m}, !.batch = @ \cup {m}]
            /\ rescan' = IF HeldBack(m) THEN rescan \cup {m} ELSE rescan
       ELSE /\ scan' = [scan EXCEPT !.todo = {}]
            /\ UNCHANGED <<loc, read, rescan>>
    /\ UNCHANGED <<stage, queue, created, snd, delivered, twice, unheard, cut, stranded>>

NextDir ==
    /\ scan.pc = "claim" /\ scan.todo = {}
    /\ scan' = IF scan.dir < Dirs THEN [scan EXCEPT !.pc = "list", !.dir = @ + 1]
                                  ELSE [scan EXCEPT !.pc = "start"]
    /\ UNCHANGED <<files, queue, created, snd, seen>>

Task(m) == [pc |-> "send", mail |-> m, cur |-> TRUE]

(* service.execute: a thread of its own up to the pool size, then a queue.  *)
Execute(m) ==
    /\ scan.pc = "start" /\ m \in scan.batch
    /\ scan' = [scan EXCEPT !.batch = @ \ {m}]
    /\ IF created < Pool
       THEN /\ \E s \in Sender : /\ snd[s] = NoTask
                                 /\ snd' = [snd EXCEPT ![s] = Task(m)]
            /\ created' = created + 1
            /\ UNCHANGED queue
       ELSE queue' = queue \cup {m} /\ UNCHANGED <<snd, created>>
    /\ UNCHANGED <<files, seen>>

(* A thread of the current pool that is done takes the next task. *)
TakeQueued(s, m) ==
    /\ m \in queue /\ snd[s] = NoTask
    /\ Cardinality({t \in Sender : snd[t].cur}) < created
    /\ snd' = [snd EXCEPT ![s] = Task(m)]
    /\ queue' = queue \ {m}
    /\ UNCHANGED <<files, scan, created, seen>>

(* service.shutdownNow: what still waits in the queue is forgotten. *)
Shutdown ==
    /\ scan.pc = "start" /\ scan.batch = {}
    /\ scan' = Rest
    /\ stranded' = stranded \cup queue
    /\ queue' = {} /\ created' = 0
    /\ snd' = [s \in Sender |-> [snd[s] EXCEPT !.cur = FALSE]]
    /\ UNCHANGED <<files, delivered, twice, rescan, unheard, cut>>

-----------------------------------------------------------------------------
(* MailSend.  Each step is taken by thread s for its mail. *)

To(s, l)  == snd' = [snd EXCEPT ![s].pc = l]
Done(s)   == snd' = [snd EXCEPT ![s] = NoTask]

(* The server accepts the mail with the body that was read. *)
Accept(m) ==
    /\ read[m] \in {"part", "full"}
    /\ delivered' = delivered \cup {<<m, read[m]>>}
    /\ twice' = IF \E b \in {"part", "full"} : <<m, b>> \in delivered
                THEN twice \cup {m} ELSE twice

Deliver(s) ==
    /\ snd[s].pc = "send" /\ Accept(snd[s].mail)
    /\ To(s, "back")
    /\ UNCHANGED <<files, scan, queue, created, rescan, unheard, cut, stranded>>

(* The server has the mail, but its reply is lost or closing the connection  *)
(* fails: send() throws, and the code cannot tell this from a refusal.       *)
DeliverUnheard(s) ==
    /\ snd[s].pc = "send" /\ "smtp" \in Events /\ Accept(snd[s].mail)
    /\ unheard' = unheard \cup {snd[s].mail}
    /\ To(s, "failback")
    /\ UNCHANGED <<files, scan, queue, created, rescan, cut, stranded>>

(* Faulty: the failure is swallowed and the mail goes to SUCCESS. *)
SendFailsSilently(s) ==
    /\ snd[s].pc = "send"
    /\ read[snd[s].mail] \in {"null", "empty"} \/ "smtp" \in Events
    /\ To(s, "back")
    /\ UNCHANGED <<files, scan, queue, created, seen>>

(* No sender address, an empty text, or the server does not take the mail:   *)
(* the .error file.                                                         *)
SendFails(s) ==
    /\ snd[s].pc = "send"
    /\ read[snd[s].mail] \in {"null", "empty"} \/ "smtp" \in Events
    /\ To(s, "failback")
    /\ UNCHANGED <<files, scan, queue, created, seen>>

(* Faulty: a failed mail keeps its .tmp name. *)
PutBackForgets(s) ==
    LET m == snd[s].mail
    IN  /\ snd[s].pc \in {"back", "failback"}
        /\ loc' = [loc EXCEPT ![m] = IF @ = "tmp" /\ snd[s].pc = "back" THEN "info" ELSE @]
        /\ IF snd[s].pc = "back" THEN To(s, "move")
           ELSE IF read[m] = "null" THEN Done(s) ELSE To(s, "failmove")
        /\ UNCHANGED <<stage, read, scan, queue, created, seen>>

(* Faulty: a MailInfo without a body path is moved to FAIL like any other. *)
PutBackGoesOn(s) ==
    LET m == snd[s].mail
    IN  /\ snd[s].pc \in {"back", "failback"}
        /\ loc' = [loc EXCEPT ![m] = IF @ = "tmp" THEN "info" ELSE @]
        /\ To(s, IF snd[s].pc = "back" THEN "move" ELSE "failmove")
        /\ UNCHANGED <<stage, read, scan, queue, created, seen>>

(* moveFile and moveFailFile first rename .tmp back to .info; without a     *)
(* body path the latter then stops, and a later scan takes the file again.  *)
PutBack(s) ==
    LET m == snd[s].mail
    IN  /\ snd[s].pc \in {"back", "failback"}
        /\ loc' = [loc EXCEPT ![m] = IF @ = "tmp" THEN "info" ELSE @]
        /\ IF snd[s].pc = "back" THEN To(s, "move")
           ELSE IF read[m] = "null" THEN Done(s) ELSE To(s, "failmove")
        /\ UNCHANGED <<stage, read, scan, queue, created, seen>>

(* Both moves first delete what lies under the name they move to.  moveFile  *)
(* throws when the .info is not there, and send() goes on to FAIL.           *)
Move(s) ==
    LET m == snd[s].mail
    IN  /\ snd[s].pc = "move"
        /\ loc' = [loc EXCEPT ![m] = IF @ = "info" THEN "SUCCESS"
                                    ELSE IF @ = "SUCCESS" THEN "gone" ELSE @]
        /\ IF loc[m] = "info" THEN Done(s) ELSE To(s, "failmove")
        /\ UNCHANGED <<stage, read, scan, queue, created, seen>>

FailMove(s) ==
    LET m == snd[s].mail
    IN  /\ snd[s].pc = "failmove"
        /\ loc' = [loc EXCEPT ![m] = IF @ = "info" THEN "FAIL"
                                    ELSE IF @ = "FAIL" THEN "gone" ELSE @]
        /\ Done(s)
        /\ UNCHANGED <<stage, read, scan, queue, created, seen>>

(* The process stops: files stay as they are named, everything else is gone. *)
Crash ==
    /\ "crash" \in Events
    /\ scan' = Rest /\ queue' = {} /\ created' = 0
    /\ snd' = [s \in Sender |-> NoTask]
    /\ stranded' = stranded \cup {m \in Mail : loc[m] = "tmp"}
    /\ rescan' = rescan \cup {m \in Mail : loc[m] = "info" /\ HeldBack(m)}
    /\ cut' = cut \cup {m \in Mail : stage[m] \notin {"new", "done"}}
    /\ UNCHANGED <<files, delivered, twice, unheard>>

-----------------------------------------------------------------------------
Scanner == \/ ScanBegin \/ ListDir \/ NextDir \/ Shutdown
           \/ \E m \in Mail : Claim(m) \/ Execute(m)
SendStep(s) == \/ Deliver(s) \/ DeliverUnheard(s) \/ SendFails(s)
               \/ PutBack(s) \/ Move(s) \/ FailMove(s)

Next == \/ Scanner \/ Crash
        \/ \E m \in Mail : Write(m)
        \/ \E s \in Sender : SendStep(s) \/ \E m \in Mail : TakeQueued(s, m)

Spec == Init /\ [][Next]_vars

(* The scan is rescheduled for ever, producers and threads keep running;    *)
(* nothing is assumed of the queue, which the shutdown usually beats.       *)
FairSpec == /\ Spec /\ WF_vars(Scanner)
            /\ \A m \in Mail : WF_vars(stage[m] # "new" /\ Write(m))
            /\ \A s \in Sender : WF_vars(SendStep(s))

-----------------------------------------------------------------------------
TypeOK ==
    /\ stage \in [Mail -> {"new", "body", "listed", "flushed", "done"}]
    /\ loc \in [Mail -> {"none", "info", "tmp", "SUCCESS", "FAIL", "gone"}]
    /\ read \in [Mail -> {"null", "empty", "part", "full"}]
    /\ scan \in [pc : {"rest", "list", "claim", "start"}, dir : 0..Dirs,
                 todo : SUBSET Mail, batch : SUBSET Mail]
    /\ queue \subseteq Mail /\ created \in 0..Pool
    /\ snd \in [Sender -> [pc : {"idle", "send", "back", "move", "failback", "failmove"},
                           mail : Mail \cup {NoMail}, cur : BOOLEAN]]
    /\ delivered \subseteq Mail \X {"part", "full"}
    /\ twice \subseteq Mail /\ rescan \subseteq Mail /\ unheard \subseteq Mail
    /\ cut \subseteq Mail /\ stranded \subseteq Mail

Working(m) == \E s \in Sender : /\ snd[s].mail = m
                                /\ snd[s].pc \in {"send", "back", "failback"}

(* A .tmp file, which no scan looks at, belongs to the scanner or to a task *)
(* that will rename it, unless that task was dropped by shutdownNow or lost *)
(* in a crash.  (MailScanner.sendMail, MailSend.moveFile.)                  *)
TmpIsOwned ==
    \A m \in Mail : loc[m] = "tmp" =>
        m \in scan.batch \cup queue \cup stranded \/ Working(m)

(* A mail is delivered a second time only if a scan, or a restart, found it *)
(* under .info between the rename back and the move of MailSend.            *)
ResentOnlyIfRescanned == twice \subseteq rescan

Delivered(m) == \E b \in {"part", "full"} : <<m, b>> \in delivered

(* SUCCESS holds only delivered mail; FAIL only undelivered mail unless the *)
(* server's word was lost or the mail was taken twice; and no outcome is    *)
(* deleted again unless the mail was taken twice.                           *)
StatusIsHonest ==
    \A m \in Mail :
        /\ loc[m] = "SUCCESS" => Delivered(m)
        /\ loc[m] = "FAIL" /\ m \notin rescan \cup unheard => ~Delivered(m)
        /\ loc[m] = "gone" => m \in rescan

(* What a mail's name and folder say of its delivery is true, and it is      *)
(* delivered once, but for the window of the rename back and for replies    *)
(* that never came.  (MailSend.send, moveFile, moveFailFile.)               *)
DeliveryIsHonest == TypeOK /\ ResentOnlyIfRescanned /\ StatusIsHonest

(* If the server refuses nothing, a mail whose producer closes the body     *)
(* before the .info exists goes to FAIL only after it was taken twice, also *)
(* when a scan finds its .info still empty.                                 *)
FailsOnlyIfTakenTwice ==
    \A m \in Closed : loc[m] = "FAIL" => m \in rescan

(* The life of a mail, as its name, its holders and the SMTP server tell it. *)
Holds(m) == m \in scan.batch \cup queue \/ \E s \in Sender : snd[s].mail = m

Phase(m) == IF loc[m] \notin {"info", "tmp"} THEN loc[m]
            ELSE IF ~Holds(m) THEN "waiting"
            ELSE IF ~Delivered(m) THEN "taken"
            ELSE IF m \in unheard THEN "unheard" ELSE "sent"

LifeOf(m) == IF m \in rescan THEN "contended"
             ELSE IF m \in stranded THEN "lost" ELSE Phase(m)

Times(m) == IF m \in twice THEN 2 ELSE IF Delivered(m) THEN 1 ELSE 0

Spool == INSTANCE MailLife WITH
    life <- [m \in Mail |-> LifeOf(m)], times <- [m \in Mail |-> Times(m)]

(* Renaming, reading, sending and moving files amounts to that life of each *)
(* mail, also when scans, senders and restarts overlap: no file skips a     *)
(* step, goes back, or goes on after its end.  (MailScanner, MailSend.)     *)
ImplementsLife == Spool!Spec

(* A mail that its producer finished ends in SUCCESS or FAIL, or is taken   *)
(* twice.                                                                   *)
EveryMailEnds ==
    \A m \in Mail : (stage[m] = "done") ~> (loc[m] \in {"SUCCESS", "FAIL"} \/ m \in rescan)
=============================================================================
