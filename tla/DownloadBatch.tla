---------------------------- MODULE DownloadBatch ----------------------------
(***************************************************************************)
(* Background exports.  A request thread inserts a row of UI_DOWNLOAD_BATCH,*)
(* loads the result page by page into a folder named after the second it   *)
(* started in, packs the folder into a zip and deletes it.  The row's      *)
(* status is the only channel between that thread and everybody else:      *)
(*   S started, I in progress, Y file ready, E error        (the thread)   *)
(*   C cancelled                                            (the admin)    *)
(*   M abnormal                                     (DownloadMonitor)      *)
(*   H shutdown                                      (TomcatDestroy)       *)
(*   X file expired                                 (DownloadDelJob)       *)
(* Nobody locks the row: each writes the column whatever it holds.         *)
(*                                                                         *)
(* All administrators share DOWN_SEQ and the folders; the duplicate check  *)
(* does not look across them, so Condition names the administrator too.    *)
(* One message stands for the messages of a page, and an export has one    *)
(* list file or the messages.                                              *)
(***************************************************************************)
EXTENDS Naturals, FiniteSets, FiniteSetsExt

CONSTANTS
    Job,        \* export requests, one thread each
    Bodies,     \* exports of bodies or attachments, which look per message
    Condition,  \* Condition[j]: what is exported; equal ones are duplicates
    QueryCnt,   \* pages of a result
    MaxSeq,     \* bound on DOWN_SEQ
    Outside     \* bound on clicks, shutdowns, expiries, failures,
                \* deaths and stalls of two hours

ASSUME DownloadConstants ==
    /\ Bodies \subseteq Job /\ DOMAIN Condition = Job
    /\ QueryCnt \in Nat \ {0} /\ MaxSeq \in Nat \ {0}     /\ Outside \in Nat

VARIABLES
    table,      \* the rows: DOWN_SEQ -> status and inserter
    th,         \* th[j]: step, DOWN_SEQ, folder, page, isCancel, ~isSpaceChk
    pend,       \* pend[j]: exports the duplicate check of j could not see
    tmp,        \* export folders on disk: name -> <<job, page>> written
    zip,        \* zip files on disk: folder -> <<job, page>> packed
    skipped,    \* <<job, page>> whose writing failed and was passed over
    click,      \* what the administrator decided to do to which row
    abnormal,   \* rows DownloadMonitor has listed and not yet marked
    due,        \* rows DownloadDelJob has listed and not yet marked
    outside     \* interventions so far (bounded by Outside)

vars == <<table, th, pend, tmp, zip, skipped, click, abnormal, due, outside>>
disk == <<tmp, zip, skipped>>
jobs == <<abnormal, due, outside>>

Seqs    == 1..MaxSeq
Folder  == 1..Cardinality(Job)
Live    == {"S", "I"}
Stopped == {"C", "M", "H"}
Ended   == {"done", "error", "dead"}
Piece   == Job \X (1..QueryCnt)

-----------------------------------------------------------------------------
Start == [pc |-> "idle", seq |-> 0, dir |-> 0, page |-> 0,
          seen |-> FALSE, full |-> FALSE]

Empty == [x \in {} |-> {}]

Init == /\ table = Empty /\ tmp = Empty /\ zip = Empty /\ skipped = {}
        /\ th = [j \in Job |-> Start]
        /\ pend = [j \in Job |-> {}]
        /\ click = {}
        /\ abnormal = {} /\ due = {} /\ outside = 0

LiveRow(s) == s \in DOMAIN table /\ table[s].status \in Live
Alive(j)   == th[j].pc \notin Ended \cup {"idle"}
Put(f, x, v) == [y \in DOMAIN f \cup {x} |-> IF y = x THEN v ELSE f[y]]
Without(f, x) == [y \in DOMAIN f \ {x} |-> f[y]]

(* UPDATE UI_DOWNLOAD_BATCH SET STATUS_STR = v WHERE DOWN_SEQ = s *)
Written(s, v) ==
    IF s \in DOMAIN table THEN [table EXCEPT ![s].status = v] ELSE table

checkCancel(j) == LET s == th[j].seq
                  IN s \in DOMAIN table /\ table[s].status \in Stopped

At(j, l) == th[j].pc = l
Goto(j, l) == th' = [th EXCEPT ![j].pc = l]
End(j, l)  == th' = [th EXCEPT ![j] = [@ EXCEPT !.pc = l, !.page = 0, !.full = FALSE]]
Intervene  == outside < Outside /\ outside' = outside + 1

-----------------------------------------------------------------------------
(* The request. *)

(* Faulty: looks for exports in progress and not for started ones. *)
CheckOnlyProgress(j) ==
    /\ At(j, "idle")
    /\ \A s \in DOMAIN table :
           Condition[table[s].by] = Condition[j] => table[s].status # "I"
    /\ Goto(j, "asked")
    /\ pend' = [pend EXCEPT ![j] =
           {k \in Job : Alive(k) /\ \A s \in DOMAIN table : table[s].by = k => ~LiveRow(s)}]
    /\ UNCHANGED <<table, disk, click, jobs>>

(* The browser asks for live rows of the same export and submits if none.  *)
CheckDownloadBatchExist(j) ==
    /\ At(j, "idle")
    /\ \A s \in DOMAIN table :
           Condition[table[s].by] = Condition[j] => ~LiveRow(s)
    /\ Goto(j, "asked")
    /\ pend' = [pend EXCEPT ![j] =
           {k \in Job : Alive(k) /\ \A s \in DOMAIN table : table[s].by = k => ~LiveRow(s)}]
    /\ UNCHANGED <<table, disk, click, jobs>>

(* The folder is named after the current second: the one of the latest      *)
(* export if no second has passed since, and a new one otherwise.           *)
GetMaxDownSeq(j) ==
    LET s == IF table = Empty THEN 1 ELSE Max(DOMAIN table) + 1
        latest == Max({th[k].dir : k \in Job})
    IN /\ At(j, "asked") /\ s \in Seqs
       /\ \E d \in Folder \cap {latest, latest + 1} :
              th' = [th EXCEPT ![j] = [@ EXCEPT !.pc = "insert", !.seq = s, !.dir = d]]
       /\ UNCHANGED <<table, pend, disk, click, jobs>>

InserDB(j) ==
    LET s == th[j].seq
    IN /\ At(j, "insert")
       /\ \/ /\ s \notin DOMAIN table
             /\ table' = Put(table, s, [status |-> "S", by |-> j])
             /\ Goto(j, "space")
          \/ /\ s \in DOMAIN table      \* duplicate key
             /\ Goto(j, "failed")
             /\ UNCHANGED table
       /\ UNCHANGED <<pend, disk, click, jobs>>

(* Faulty: gives up without a status. *)
SpaceCheckForgets(j) ==
    /\ At(j, "space")
    /\ \/ /\ th' = [th EXCEPT ![j] = [@ EXCEPT !.pc = "page", !.page = 1]]
          /\ tmp' = Put(tmp, th[j].dir, IF th[j].dir \in DOMAIN tmp THEN tmp[th[j].dir] ELSE {})
       \/ End(j, "done") /\ UNCHANGED tmp
    /\ UNCHANGED <<table, zip, skipped, pend, click, jobs>>

SpaceCheck(j) ==
    LET d == th[j].dir
    IN /\ At(j, "space")
       /\ \/ /\ th' = [th EXCEPT ![j] = [@ EXCEPT !.pc = "page", !.page = 1]]
             /\ tmp' = Put(tmp, d, IF d \in DOMAIN tmp THEN tmp[d] ELSE {})
             /\ UNCHANGED table
          \/ /\ table' = Written(th[j].seq, "E")
             /\ End(j, "done")
             /\ UNCHANGED tmp
       /\ UNCHANGED <<zip, skipped, pend, click, jobs>>

-----------------------------------------------------------------------------
(* The loop over the pages. *)

(* The list file is created with the first page and kept open: if its      *)
(* folder is deleted meanwhile, later pages go nowhere.                     *)
LoadPage(j) ==
    LET d == th[j].dir
        i == th[j].page
    IN /\ At(j, "page")
       /\ \/ j \in Bodies /\ Goto(j, "message") /\ UNCHANGED tmp
          \/ /\ j \notin Bodies /\ i = 1 /\ d \notin DOMAIN tmp
             /\ Goto(j, "failed") /\ UNCHANGED tmp
          \/ /\ j \notin Bodies /\ (i = 1 => d \in DOMAIN tmp)
             /\ Goto(j, "pageEnd")
             /\ tmp' = IF d \in DOMAIN tmp /\ (i = 1 \/ <<j, 1>> \in tmp[d])
                       THEN [tmp EXCEPT ![d] = @ \cup {<<j, i>>}] ELSE tmp
       /\ UNCHANGED <<table, zip, skipped, pend, click, jobs>>

(* With the last page the list file is flushed and closed.  If that fails,  *)
(* the pages from k on are not in it, and the handler goes on all the same. *)
CloseFails(j) ==
    LET d == th[j].dir
    IN /\ At(j, "page") /\ j \notin Bodies /\ th[j].page = QueryCnt
       /\ Intervene
       /\ Goto(j, "pageEnd")
       /\ \E k \in 1..QueryCnt :
              LET lost == {j} \X (k..QueryCnt)
              IN /\ skipped' = skipped \cup lost
                 /\ tmp' = IF d \in DOMAIN tmp THEN [tmp EXCEPT ![d] = @ \ lost] ELSE tmp
       /\ UNCHANGED <<table, zip, pend, click, abnormal, due>>

(* The folder of a message is made anew if it is gone.                      *)
DownloadMessage(j) ==
    LET d == th[j].dir
        c == checkCancel(j)
    IN /\ At(j, "message")
       /\ th' = [th EXCEPT ![j] = [@ EXCEPT !.pc = "pageEnd", !.seen = c]]
       /\ tmp' = IF c THEN tmp
                 ELSE Put(tmp, d, (IF d \in DOMAIN tmp THEN tmp[d] ELSE {})
                                  \cup {<<j, th[j].page>>})
       /\ UNCHANGED <<table, zip, skipped, pend, click, jobs>>

(* A body or attachment that cannot be had or written is passed over; its   *)
(* folder is there by then or not.                                          *)
SkipMessage(j) ==
    LET d == th[j].dir
    IN /\ At(j, "message") /\ ~checkCancel(j)
       /\ Intervene
       /\ th' = [th EXCEPT ![j] = [@ EXCEPT !.pc = "pageEnd", !.seen = FALSE]]
       /\ skipped' = skipped \cup {<<j, th[j].page>>}
       /\ tmp' \in {tmp, Put(tmp, d, IF d \in DOMAIN tmp THEN tmp[d] ELSE {})}
       /\ UNCHANGED <<table, zip, pend, click, abnormal, due>>

PageEnd(j) ==
    /\ At(j, "pageEnd")
    /\ LET c == checkCancel(j) IN
       \/ /\ th[j].page < QueryCnt
          /\ th' = [th EXCEPT ![j] = [@ EXCEPT !.pc = IF c THEN "after" ELSE "ing",
                                               !.seen = c]]
       \/ th[j].page = QueryCnt /\ Goto(j, "after")
    /\ UNCHANGED <<table, disk, pend, click, jobs>>

UpdateIngDB(j) ==
    /\ At(j, "ing")
    /\ table' = Written(th[j].seq, "I")
    /\ \/ th' = [th EXCEPT ![j] = [@ EXCEPT !.pc = "page", !.page = th[j].page + 1]]
       \/ th' = [th EXCEPT ![j] = [@ EXCEPT !.pc = "after", !.full = TRUE]]
    /\ UNCHANGED <<disk, pend, click, jobs>>

-----------------------------------------------------------------------------
(* After the loop. *)

(* Faulty: packs what there is, though the disk ran full. *)
PackAnyway(j) ==
    /\ At(j, "after") /\ ~th[j].seen /\ th[j].dir \in DOMAIN tmp
    /\ zip' = Put(zip, th[j].dir, tmp[th[j].dir])
    /\ Goto(j, "packed")
    /\ UNCHANGED <<table, tmp, skipped, pend, click, jobs>>

(* Faulty: forgets what the inner loop saw. *)
PackThoughCancelled(j) ==
    /\ At(j, "after") /\ ~th[j].full /\ th[j].dir \in DOMAIN tmp
    /\ zip' = Put(zip, th[j].dir, tmp[th[j].dir])
    /\ Goto(j, "packed")
    /\ UNCHANGED <<table, tmp, skipped, pend, click, jobs>>

Pack(j) ==
    /\ At(j, "after") /\ ~th[j].seen /\ ~th[j].full /\ th[j].dir \in DOMAIN tmp
    /\ zip' = Put(zip, th[j].dir, tmp[th[j].dir])
    /\ Goto(j, "packed")
    /\ UNCHANGED <<table, tmp, skipped, pend, click, jobs>>

UpdateSucessDB(j) ==
    /\ At(j, "packed")
    /\ table' = Written(th[j].seq, "Y")
    /\ Goto(j, "clean")
    /\ UNCHANGED <<disk, pend, click, jobs>>

(* Cancelled; or no room for the next page or for the zip. *)
GiveUp(j) ==
    /\ At(j, "after")
    /\ \/ th[j].seen /\ UNCHANGED table
       \/ /\ ~th[j].seen /\ (th[j].full \/ th[j].dir \in DOMAIN tmp)
          /\ table' = Written(th[j].seq, "E")
    /\ Goto(j, "clean")
    /\ UNCHANGED <<disk, pend, click, jobs>>

DeleteFolder(j) ==
    /\ At(j, "clean") /\ th[j].dir \in DOMAIN tmp
    /\ tmp' = Without(tmp, th[j].dir)
    /\ End(j, "done")
    /\ UNCHANGED <<table, zip, skipped, pend, click, jobs>>

(* getFolderSize and deleteFolder list a folder that somebody deleted.      *)
FolderMissing(j) ==
    /\ th[j].dir \notin DOMAIN tmp
    /\ \/ At(j, "clean")
       \/ At(j, "after") /\ ~th[j].seen /\ ~th[j].full
    /\ Goto(j, "failed")
    /\ UNCHANGED <<table, disk, pend, click, jobs>>

(* A search, the database or a file fails. *)
Throw(j) ==
    /\ Intervene
    /\ th[j].pc \in {"page", "message", "pageEnd", "ing", "after", "packed"}
    /\ Goto(j, "failed")
    /\ UNCHANGED <<table, disk, pend, click, abnormal, due>>

UpdateErrorDB(j) ==
    /\ At(j, "failed")
    /\ table' = Written(th[j].seq, "E")
    /\ End(j, "error")
    /\ UNCHANGED <<disk, pend, click, jobs>>

(* The thread ends without its catch block: an Error, a failing            *)
(* updateErrorDB, or the JVM is gone.                                       *)
Die(j) ==
    /\ Alive(j) /\ Intervene
    /\ End(j, "dead")
    /\ UNCHANGED <<table, disk, pend, click, abnormal, due>>

-----------------------------------------------------------------------------
(* The administrator, who decides by what the grid shows and clicks later. *)

GetDownBatchList(s) ==
    /\ Intervene
    /\ s \in DOMAIN table
    /\ \/ table[s].status \notin Stopped \cup {"X"} /\ click' = click \cup {<<"cancel", s>>}
       \/ table[s].status \notin Live /\ click' = click \cup {<<"remove", s>>}
    /\ UNCHANGED <<table, th, pend, disk, abnormal, due>>

CancelDownFile(s) ==
    /\ <<"cancel", s>> \in click
    /\ click' = click \ {<<"cancel", s>>}
    /\ table' = Written(s, "C")
    /\ UNCHANGED <<th, pend, disk, jobs>>

RemoveDownInfoData(s) ==
    /\ <<"remove", s>> \in click
    /\ click' = click \ {<<"remove", s>>}
    /\ table' = Without(table, s)
    /\ UNCHANGED <<th, pend, disk, jobs>>

-----------------------------------------------------------------------------
(* The scheduled jobs and the shutdown. *)

ShutdownDownloadBatch ==
    /\ Intervene
    /\ \E s \in DOMAIN table : LiveRow(s)
    /\ table' = [s \in DOMAIN table |->
           IF LiveRow(s) THEN [table[s] EXCEPT !.status = "H"] ELSE table[s]]
    /\ UNCHANGED <<th, pend, disk, click, abnormal, due>>

(* Faulty: lists exports in progress and not started ones. *)
ListOnlyProgress(S) ==
    /\ abnormal = {} /\ S # {}
    /\ S \subseteq {s \in DOMAIN table : table[s].status = "I"}
    /\ abnormal' = S
    /\ IF \E s \in S : Alive(table[s].by) THEN Intervene ELSE UNCHANGED outside
    /\ UNCHANGED <<table, th, pend, disk, click, due>>

(* Two hours may pass between any two steps, so any live rows S may be the *)
(* ones whose UPDATE_DT is too old; a thread that is alive must have stalled.*)
GetDownloadBatchIngList(S) ==
    /\ abnormal = {} /\ S # {}
    /\ S \subseteq {s \in DOMAIN table : LiveRow(s)}
    /\ abnormal' = S
    /\ IF \E s \in S : Alive(table[s].by) THEN Intervene ELSE UNCHANGED outside
    /\ UNCHANGED <<table, th, pend, disk, click, due>>

CancelUnkown(s) ==
    /\ s \in abnormal
    /\ abnormal' = abnormal \ {s}
    /\ table' = Written(s, "M")
    /\ UNCHANGED <<th, pend, disk, click, due, outside>>

GetExportFileExpireData ==
    /\ due = {} /\ Intervene
    /\ due' \in SUBSET {[seq |-> s, dir |-> th[table[s].by].dir, gone |-> FALSE] :
                            s \in {t \in DOMAIN table : table[t].status = "Y"}}
    /\ due' # {}
    /\ UNCHANGED <<table, th, pend, disk, click, abnormal>>

DeleteExpireFile(e) ==
    /\ e \in due /\ ~e.gone
    /\ zip' = Without(zip, e.dir)
    /\ due' = (due \ {e}) \cup {[e EXCEPT !.gone = TRUE]}
    /\ UNCHANGED <<table, th, pend, tmp, skipped, click, abnormal, outside>>

MarkExpired(e) ==
    /\ e \in due /\ e.gone
    /\ due' = due \ {e}
    /\ table' = Written(e.seq, "X")
    /\ UNCHANGED <<th, pend, disk, click, abnormal, outside>>

-----------------------------------------------------------------------------
Step(j) ==
    \/ GetMaxDownSeq(j) \/ InserDB(j) \/ SpaceCheck(j)
    \/ LoadPage(j) \/ DownloadMessage(j) \/ PageEnd(j) \/ UpdateIngDB(j)
    \/ Pack(j) \/ UpdateSucessDB(j) \/ GiveUp(j) \/ DeleteFolder(j)
    \/ FolderMissing(j) \/ UpdateErrorDB(j)

ListedWith(s) == \E S \in SUBSET Seqs : s \in S /\ GetDownloadBatchIngList(S)

Next ==
    \/ \E j \in Job : CheckDownloadBatchExist(j) \/ Step(j)
                    \/ CloseFails(j) \/ SkipMessage(j) \/ Throw(j) \/ Die(j)
    \/ ShutdownDownloadBatch
    \/ \E s \in Seqs : GetDownBatchList(s) \/ CancelDownFile(s) \/ RemoveDownInfoData(s) \/ CancelUnkown(s)
    \/ \E S \in SUBSET Seqs : GetDownloadBatchIngList(S)
    \/ GetExportFileExpireData
    \/ \E e \in due : DeleteExpireFile(e) \/ MarkExpired(e)

Spec == Init /\ [][Next]_vars

(* Threads run on; the monitor is called at a fixed rate, lists a row that  *)
(* stays live for two hours and goes through its list.  Nothing is assumed  *)
(* of the administrator, the expiry job or the shutdown.                    *)
FairSpec == /\ Spec
            /\ \A j \in Job : WF_vars(Step(j))
            /\ \A s \in Seqs : WF_vars(ListedWith(s))
            /\ WF_vars(\E s \in Seqs : CancelUnkown(s))

-----------------------------------------------------------------------------
TypeOK ==
    /\ DOMAIN table \subseteq Seqs
    /\ \A s \in DOMAIN table :
           table[s] \in [status : Live \cup Stopped \cup {"Y", "E", "X"},
                         by : Job]
    /\ th \in [Job -> [pc : {"idle", "asked", "insert", "space", "page", "message",
                             "pageEnd", "ing", "after", "packed", "clean", "failed"}
                            \cup Ended,
                       seq : 0..MaxSeq, dir : Folder \cup {0}, page : 0..QueryCnt,
                       seen : BOOLEAN, full : BOOLEAN]]
    /\ pend \in [Job -> SUBSET Job]
    /\ \A f \in {tmp, zip} : /\ DOMAIN f \subseteq Folder
                             /\ \A d \in DOMAIN f : f[d] \subseteq Piece
    /\ skipped \subseteq Piece
    /\ click \subseteq {"cancel", "remove"} \X Seqs
    /\ abnormal \subseteq Seqs
    /\ outside \in 0..Outside
    /\ due \subseteq [seq : Seqs, dir : Folder, gone : BOOLEAN]

(* Two threads were given the same DOWN_SEQ, or the same folder.            *)
SeqShared(j) == \E k \in Job \ {j} : th[k].seq = th[j].seq
DirShared(j) == \E k \in Job \ {j} : th[k].dir = th[j].dir

(* A row the grid offers for download has a zip with every page of its      *)
(* export but for those whose writing failed, and nothing else, unless two  *)
(* exports started in one second, got one DOWN_SEQ, or the expiry job is at *)
(* the row.  (The three handlers: pack before updateSucessDB, nothing packed*)
(* after a break.)                                                          *)
OfferedIsWhole ==
    \A s \in DOMAIN table : table[s].status = "Y" =>
        LET j == table[s].by
        IN \/ th[j].dir \in DOMAIN zip /\ zip[th[j].dir] = ({j} \X (1..QueryCnt)) \ skipped
           \/ SeqShared(j) \/ DirShared(j)
           \/ \E e \in due : e.seq = s

(* When the thread of an export has finished, its row does not show it as   *)
(* running, whoever wrote the row in between, unless another thread has the *)
(* same DOWN_SEQ.  (Every exit of the handler writes a final status.)       *)
SettledWhenDone ==
    \A s \in DOMAIN table : LiveRow(s) =>
        LET j == table[s].by
        IN th[j].pc \notin {"clean", "done", "error"} \/ SeqShared(j)

(* What a thread has seen as cancelled stays so until it is removed: the    *)
(* thread that saw it writes no progress and no success any more, at worst  *)
(* the error of an exception.  (isCancel across inner and outer loop.)      *)
SeenStopIsKept ==
    \A s \in DOMAIN table :
        LET j == table[s].by
        IN th[j].seen /\ ~SeqShared(j) => table[s].status \in Stopped \cup {"E"}

(* An export folder outlives the exports that used it only if one of them   *)
(* ended by an exception or died.  (deleteFolder is outside any finally.)   *)
FolderGoes ==
    \A d \in DOMAIN tmp :
        \E j \in Job : th[j].dir = d /\ (Alive(j) \/ th[j].pc \in {"error", "dead"})

(* What is on the disk is what the rows offer: whole zips, and no folder     *)
(* that nobody works in, but for the named accidents.                       *)
FilesAreWhole == TypeOK /\ OfferedIsWhole /\ FolderGoes

(* The same export runs twice only if the first was alive without a live    *)
(* row when the second was checked: not yet inserted, or cancelled and not  *)
(* yet stopped; or if the thread of another export, which has the same      *)
(* DOWN_SEQ, brought its row back to life.  (checkDownloadBatchExist and    *)
(* the insert are two requests.)                                            *)
TwiceOnlyIfUnseen ==
    \A s, t \in DOMAIN table :
        LET j == table[s].by
            k == table[t].by
        IN s # t /\ LiveRow(s) /\ LiveRow(t) /\ Condition[j] = Condition[k] =>
               \/ j \in pend[k] \/ k \in pend[j]
               \/ SeqShared(j) \/ SeqShared(k)

(* When the administrator starts no more exports, a time comes from which    *)
(* no row is shown as running, also if a thread or the server died on the    *)
(* way.  (Every exit of the handlers, DownloadMonitor, TomcatDestroy.)       *)
EveryExportSettles == <>[](\A s \in Seqs : ~LiveRow(s))
=============================================================================
