-------------------------- MODULE DownloadBatchProofs --------------------------
(* Proofs about DownloadBatch, for any exports, pages and bounds. *)
EXTENDS DownloadBatch, TLAPS

Row    == [status : Live \cup Stopped \cup {"Y", "E", "X"}, by : Job]
Thread == [pc : {"idle", "asked", "insert", "space", "page", "message",
                 "pageEnd", "ing", "after", "packed", "clean", "failed"} \cup Ended,
           seq : 0..MaxSeq, dir : Folder \cup {0}, page : 0..QueryCnt,
           seen : BOOLEAN, full : BOOLEAN]
Due    == [seq : Seqs, dir : Folder, gone : BOOLEAN]

(* Where a thread will look at the status no more, where it has a folder,    *)
(* and where it goes through the pages.                                      *)
Past   == {"clean", "failed"} \cup Ended
Loop   == {"page", "message", "pageEnd", "ing", "after"}
User   == Loop \cup {"packed", "clean", "failed", "error", "dead"}

(* The pages of an export but for those whose writing failed.                *)
Whole(j) == ({j} \X (1..QueryCnt)) \ skipped

(* Only a page the thread has been at is passed over, and of a list file only*)
(* with the last page.                                                       *)
SkippedAt(j, p) ==
    /\ th[j].pc \notin {"idle", "asked", "insert", "space"}
    /\ th[j].pc \in Loop => /\ p <= th[j].page
                            /\ th[j].pc \in {"page", "message"} => p < th[j].page
                            /\ j \notin Bodies => th[j].page = QueryCnt /\ th[j].pc # "page"

(* What a thread knows about itself. *)
ThreadOK(j) ==
    /\ th[j].pc \in {"idle", "asked"} => th[j].seq = 0
    /\ th[j].pc \notin {"idle", "asked", "dead"} => th[j].seq # 0
    /\ th[j].seq = 0 <=> th[j].dir = 0
    /\ th[j].seen => th[j].pc \in {"pageEnd", "after"} \cup Past
    /\ th[j].pc \in Loop => th[j].page # 0
    /\ th[j].pc = "ing" => th[j].page < QueryCnt
    /\ th[j].pc = "message" => j \in Bodies
    /\ th[j].pc = "after" /\ ~th[j].seen /\ ~th[j].full => th[j].page = QueryCnt
    /\ \A p \in 1..QueryCnt : <<j, p>> \in skipped => SkippedAt(j, p)

(* What can go wrong with the files of an export: they are shared, or its    *)
(* row was removed under it.                                                 *)
Excused(j) == SeqShared(j) \/ DirShared(j) \/ th[j].seq \notin DOMAIN table

PagesLoaded(j) == ({j} \X (1..(IF th[j].pc \in {"page", "message"}
                               THEN th[j].page - 1 ELSE th[j].page))) \ skipped

PagesOnDisk(j) ==
    th[j].pc \in Loop /\ ~Excused(j) =>
        /\ th[j].dir \in DOMAIN tmp
        /\ ~th[j].seen => tmp[th[j].dir] = PagesLoaded(j)

ZipWhole(j)    == th[j].dir \in DOMAIN zip /\ zip[th[j].dir] = Whole(j)
ZipWhenPacked(j) == th[j].pc = "packed" /\ ~Excused(j) => ZipWhole(j)

(* A row belongs to the thread that inserted it and says how far that is,    *)
(* unless another thread writes it too.                                      *)
RowHasThread(s, j) ==
    th[j].seq = s /\ th[j].pc \notin {"idle", "asked", "insert"}

Says(x, l, c) ==
    /\ x \in Live => l \notin {"clean", "done", "error"}
    /\ x \in {"Y", "E"} => l \in Past
    /\ c => x \in Stopped \cup {"E"}

RowSays(s, j) == ~SeqShared(j) => Says(table[s].status, th[j].pc, th[j].seen)

RowOffers(s, j) ==
    table[s].status = "Y" =>
        ZipWhole(j) \/ SeqShared(j) \/ DirShared(j) \/ \E e \in due : e.seq = s

RowOK(s, j) == RowHasThread(s, j) /\ RowSays(s, j) /\ RowOffers(s, j)

JobOK(j) ==
    /\ ThreadOK(j) /\ PagesOnDisk(j) /\ ZipWhenPacked(j)
    /\ \A s \in DOMAIN table : table[s].by = j => RowOK(s, j)

(* The expiry job has rows of exports that ended well. *)
DueIsOver(e) ==
    \E j \in Job : /\ th[j].seq = e.seq /\ th[j].dir = e.dir
                   /\ \/ SeqShared(j)
                      \/ th[j].pc \in Past /\ ~th[j].seen

FolderUsed(d) == \E j \in Job : th[j].dir = d /\ th[j].pc \in User

(* The check of the later one of two equal exports saw the earlier one, or   *)
(* that one was over by then.                                                *)
Over(j) == /\ th[j].pc \in Ended
           /\ \A s \in DOMAIN table : table[s].by = j => ~LiveRow(s) \/ SeqShared(j)

Checked(j, k) ==
    j # k /\ Condition[j] = Condition[k] /\ th[j].pc # "idle" /\ th[k].pc # "idle" =>
        j \in pend[k] \/ k \in pend[j] \/ Over(j) \/ Over(k)

IInv ==
    /\ TypeOK
    /\ \A j \in Job : JobOK(j)
    /\ \A e \in due : DueIsOver(e)
    /\ \A d \in DOMAIN tmp : FolderUsed(d)
    /\ \A j, k \in Job : Checked(j, k)

-----------------------------------------------------------------------------
(* The types in the form the proofs use. *)
PCs == {"idle", "asked", "insert", "space", "page", "message",
        "pageEnd", "ing", "after", "packed", "clean", "failed"} \cup Ended

Files(f) == DOMAIN f \subseteq Folder /\ \A d \in DOMAIN f : f[d] \subseteq Piece

LEMMA TypeParts ==
    TypeOK <=> /\ DOMAIN table \subseteq Seqs /\ \A s \in DOMAIN table : table[s] \in Row
               /\ th \in [Job -> Thread] /\ pend \in [Job -> SUBSET Job]
               /\ Files(tmp) /\ Files(zip) /\ skipped \subseteq Piece
               /\ click \subseteq {"cancel", "remove"} \X Seqs /\ abnormal \subseteq Seqs
               /\ outside \in 0..Outside /\ due \subseteq Due
BY DEF TypeOK, Row, Thread, Due, Files

LEMMA Numbers == 0 \notin Seqs /\ 0 \notin Folder /\ Seqs \subseteq 0..MaxSeq
BY DownloadConstants DEF Seqs, Folder

(* What a thread that keeps its numbers has done to itself. *)
Now(j, l, p, c, f) ==
    /\ th' \in [Job -> Thread]
    /\ \A k \in Job \ {j} : th'[k] = th[k]
    /\ th'[j].pc = l /\ th'[j].page = p /\ th'[j].seen = c /\ th'[j].full = f
    /\ th'[j].seq = th[j].seq /\ th'[j].dir = th[j].dir

LEMMA RecordIsNow ==
    ASSUME TypeOK, NEW j \in Job, NEW l \in PCs, NEW p \in 0..QueryCnt,
           NEW c \in BOOLEAN, NEW f \in BOOLEAN,
           th' = [th EXCEPT ![j] = [pc |-> l, seq |-> th[j].seq, dir |-> th[j].dir,
                                    page |-> p, seen |-> c, full |-> f]]
    PROVE  Now(j, l, p, c, f)
<1>1. th \in [Job -> Thread]
  BY TypeParts
<1>2. [pc |-> l, seq |-> th[j].seq, dir |-> th[j].dir, page |-> p, seen |-> c, full |-> f] \in Thread
  BY <1>1 DEF Thread, PCs
<1> QED BY <1>1, <1>2 DEF Now

LEMMA GotoIsNow ==
    ASSUME TypeOK, NEW j \in Job, NEW l \in PCs, Goto(j, l)
    PROVE  Now(j, l, th[j].page, th[j].seen, th[j].full)
<1>1. th \in [Job -> Thread]
  BY TypeParts
<1>2. th' = [th EXCEPT ![j] = [th[j] EXCEPT !.pc = l]]
  BY DEF Goto
<1>3. [th[j] EXCEPT !.pc = l] =
          [pc |-> l, seq |-> th[j].seq, dir |-> th[j].dir,
           page |-> th[j].page, seen |-> th[j].seen, full |-> th[j].full]
  BY <1>1 DEF Thread
<1>4. th[j].page \in 0..QueryCnt /\ th[j].seen \in BOOLEAN /\ th[j].full \in BOOLEAN
  BY <1>1 DEF Thread
<1>5. th' = [th EXCEPT ![j] = [pc |-> l, seq |-> th[j].seq, dir |-> th[j].dir, page |-> th[j].page,
                               seen |-> th[j].seen, full |-> th[j].full]]
  BY <1>2, <1>3
<1> QED BY <1>4, <1>5, RecordIsNow

LEMMA EndRecord ==
    ASSUME NEW r \in Thread, NEW l, NEW f
    PROVE  [r EXCEPT !.pc = l, !.page = 0, !.full = f] =
               [pc |-> l, seq |-> r.seq, dir |-> r.dir, page |-> 0, seen |-> r.seen, full |-> f]
<1> DEFINE a == [r EXCEPT !.pc = l]
           b == [a EXCEPT !.page = 0]
           c == [b EXCEPT !.full = f]
<1>1. a = [pc |-> l, seq |-> r.seq, dir |-> r.dir, page |-> r.page, seen |-> r.seen, full |-> r.full]
  BY DEF Thread
<1>2. b = [pc |-> l, seq |-> r.seq, dir |-> r.dir, page |-> 0, seen |-> r.seen, full |-> r.full]
  <2> HIDE DEF a
  <2> QED BY <1>1
<1>3. c = [pc |-> l, seq |-> r.seq, dir |-> r.dir, page |-> 0, seen |-> r.seen, full |-> f]
  <2> HIDE DEF b
  <2> QED BY <1>2
<1>4. [r EXCEPT !.pc = l, !.page = 0, !.full = f] = c
  OBVIOUS
<1> QED BY <1>3, <1>4

LEMMA PageRecord ==
    ASSUME NEW r \in Thread, NEW l, NEW x
    PROVE  [r EXCEPT !.pc = l, !.page = x] =
               [pc |-> l, seq |-> r.seq, dir |-> r.dir, page |-> x, seen |-> r.seen, full |-> r.full]
<1> DEFINE a == [r EXCEPT !.pc = l]
<1>1. a = [pc |-> l, seq |-> r.seq, dir |-> r.dir, page |-> r.page, seen |-> r.seen, full |-> r.full]
  BY DEF Thread
<1>2. [r EXCEPT !.pc = l, !.page = x] = [a EXCEPT !.page = x]
  OBVIOUS
<1> HIDE DEF a
<1>3. [a EXCEPT !.page = x] = [pc |-> l, seq |-> r.seq, dir |-> r.dir, page |-> x, seen |-> r.seen, full |-> r.full]
  BY <1>1
<1> QED BY <1>2, <1>3

LEMMA SeenRecord ==
    ASSUME NEW r \in Thread, NEW l, NEW x
    PROVE  [r EXCEPT !.pc = l, !.seen = x] =
               [pc |-> l, seq |-> r.seq, dir |-> r.dir, page |-> r.page, seen |-> x, full |-> r.full]
<1> DEFINE a == [r EXCEPT !.pc = l]
<1>1. a = [pc |-> l, seq |-> r.seq, dir |-> r.dir, page |-> r.page, seen |-> r.seen, full |-> r.full]
  BY DEF Thread
<1>2. [r EXCEPT !.pc = l, !.seen = x] = [a EXCEPT !.seen = x]
  OBVIOUS
<1> HIDE DEF a
<1>3. [a EXCEPT !.seen = x] = [pc |-> l, seq |-> r.seq, dir |-> r.dir, page |-> r.page, seen |-> x, full |-> r.full]
  BY <1>1
<1> QED BY <1>2, <1>3

LEMMA FullRecord ==
    ASSUME NEW r \in Thread, NEW l, NEW x
    PROVE  [r EXCEPT !.pc = l, !.full = x] =
               [pc |-> l, seq |-> r.seq, dir |-> r.dir, page |-> r.page, seen |-> r.seen, full |-> x]
<1> DEFINE a == [r EXCEPT !.pc = l]
<1>1. a = [pc |-> l, seq |-> r.seq, dir |-> r.dir, page |-> r.page, seen |-> r.seen, full |-> r.full]
  BY DEF Thread
<1>2. [r EXCEPT !.pc = l, !.full = x] = [a EXCEPT !.full = x]
  OBVIOUS
<1> HIDE DEF a
<1>3. [a EXCEPT !.full = x] = [pc |-> l, seq |-> r.seq, dir |-> r.dir, page |-> r.page, seen |-> r.seen, full |-> x]
  BY <1>1
<1> QED BY <1>2, <1>3

LEMMA EndIsNow ==
    ASSUME TypeOK, NEW j \in Job, NEW l \in PCs, End(j, l)
    PROVE  Now(j, l, 0, th[j].seen, FALSE)
<1>1. th \in [Job -> Thread]
  BY TypeParts
<1>2. th' = [th EXCEPT ![j] = [th[j] EXCEPT !.pc = l, !.page = 0, !.full = FALSE]]
  BY DEF End
<1>3. [th[j] EXCEPT !.pc = l, !.page = 0, !.full = FALSE] =
          [pc |-> l, seq |-> th[j].seq, dir |-> th[j].dir,
           page |-> 0, seen |-> th[j].seen, full |-> FALSE]
  BY <1>1, EndRecord
<1>4. 0 \in 0..QueryCnt /\ th[j].seen \in BOOLEAN
  BY <1>1, DownloadConstants DEF Thread
<1>5. th' = [th EXCEPT ![j] = [pc |-> l, seq |-> th[j].seq, dir |-> th[j].dir, page |-> 0,
                               seen |-> th[j].seen, full |-> FALSE]]
  BY <1>2, <1>3
<1> QED BY <1>4, <1>5, RecordIsNow

LEMMA WrittenIs ==
    ASSUME TypeOK, NEW s, NEW v \in Live \cup Stopped \cup {"Y", "E", "X"}, table' = Written(s, v)
    PROVE  /\ DOMAIN table' = DOMAIN table
           /\ \A t \in DOMAIN table : /\ table'[t] \in Row /\ table'[t].by = table[t].by
                                      /\ t # s => table'[t] = table[t]
                                      /\ t = s => table'[t].status = v
<1>1. \A t \in DOMAIN table : table[t] \in Row
  BY TypeParts
<1>2. CASE s \in DOMAIN table
  <2>1. table' = [table EXCEPT ![s] = [table[s] EXCEPT !.status = v]]
    BY <1>2 DEF Written
  <2>2. [table[s] EXCEPT !.status = v] = [status |-> v, by |-> table[s].by]
    BY <1>1, <1>2 DEF Row
  <2>3. [status |-> v, by |-> table[s].by] \in Row
    BY <1>1, <1>2 DEF Row
  <2> QED BY <1>1, <1>2, <2>1, <2>2, <2>3
<1>3. CASE s \notin DOMAIN table
  BY <1>1, <1>3 DEF Written
<1> QED BY <1>2, <1>3

-----------------------------------------------------------------------------
(* What a step of thread j that keeps its numbers leaves of everything else. *)
SameAt(f, d) == /\ d \in DOMAIN f' <=> d \in DOMAIN f
                /\ d \in DOMAIN f => f'[d] = f[d]

OwnSkips(j) ==
    /\ skipped' \subseteq Piece
    /\ \A k \in Job \ {j}, p \in 1..QueryCnt : <<k, p>> \in skipped' <=> <<k, p>> \in skipped

Footprint(j) ==
    /\ th' \in [Job -> Thread] /\ \A k \in Job \ {j} : th'[k] = th[k]
    /\ th'[j].seq = th[j].seq /\ th'[j].dir = th[j].dir
    /\ th[j].pc \notin Ended
    /\ th[j].pc \in Past => th'[j].pc \in Past /\ th'[j].seen = th[j].seen
    /\ DOMAIN table \subseteq DOMAIN table' /\ DOMAIN table' \subseteq Seqs
    /\ \A s \in DOMAIN table' :
           /\ table'[s] \in Row
           /\ s # th[j].seq => s \in DOMAIN table /\ table'[s] = table[s]
           /\ s \in DOMAIN table => table'[s].by = table[s].by
           /\ s \notin DOMAIN table => table'[s].by = j
    /\ Files(tmp') /\ Files(zip')
    /\ \A d \in Folder : d # th[j].dir => SameAt(tmp, d) /\ SameAt(zip, d)
    /\ OwnSkips(j)
    /\ th[j].dir \in DOMAIN tmp' =>
           \/ th'[j].pc \in User
           \/ th[j].pc \notin User /\ th[j].dir \in DOMAIN tmp
    /\ UNCHANGED <<click, abnormal, due>> /\ outside' \in 0..Outside

LEMMA NoSkips ==
    ASSUME TypeOK, skipped' = skipped, NEW j \in Job
    PROVE  OwnSkips(j)
BY TypeParts DEF OwnSkips

LEMMA SharedSame ==
    ASSUME \A k \in Job : th'[k].seq = th[k].seq /\ th'[k].dir = th[k].dir, NEW j \in Job
    PROVE  SeqShared(j)' = SeqShared(j) /\ DirShared(j)' = DirShared(j)
BY DEF SeqShared, DirShared

LEMMA NumbersOf ==
    ASSUME IInv, NEW j \in Job
    PROVE  /\ th[j].seq # 0 => th[j].seq \in Seqs /\ th[j].dir \in Folder
           /\ th[j].pc \notin {"idle", "asked", "dead"} => th[j].seq # 0
           /\ th[j].pc \in Loop \cup {"packed"} => th[j].seq # 0
<1>1. th[j] \in Thread /\ ThreadOK(j)
  BY TypeParts DEF IInv, JobOK
<1> QED BY <1>1, Numbers DEF Thread, ThreadOK, Loop, Seqs

LEMMA OthersKeep ==
    ASSUME IInv, NEW j \in Job, Footprint(j), NEW k \in Job, k # j
    PROVE  JobOK(k)'
<1>1. /\ th'[k] = th[k] /\ JobOK(k) /\ TypeOK
      /\ SeqShared(k)' = SeqShared(k) /\ DirShared(k)' = DirShared(k)
  <2>1. \A l \in Job : th'[l].seq = th[l].seq /\ th'[l].dir = th[l].dir
    BY DEF Footprint
  <2> QED BY <2>1, SharedSame DEF Footprint, IInv
<1>2. ~SeqShared(k) => th[k].seq # th[j].seq
  BY DEF SeqShared
<1>3. ~DirShared(k) => th[k].dir # th[j].dir
  BY DEF DirShared
<1>4. ASSUME ~DirShared(k), th[k].seq # 0 PROVE SameAt(tmp, th[k].dir) /\ SameAt(zip, th[k].dir)
  BY <1>3, <1>4, NumbersOf DEF Footprint
<1>5. ~Excused(k)' => ~Excused(k)
  BY <1>1, <1>2 DEF Excused, Footprint
<1> DEFINE lost == \A p \in 1..QueryCnt : <<k, p>> \in skipped' <=> <<k, p>> \in skipped
<1>0. lost /\ Whole(k)' = Whole(k) /\ (PagesLoaded(k)' = PagesLoaded(k))
  <2>1. lost
    BY DEF Footprint, OwnSkips
  <2>2. th[k] \in Thread /\ th[k].page \in 0..QueryCnt
    BY TypeParts DEF IInv, Thread
  <2>3. ({k} \X (1..QueryCnt)) \ skipped' = ({k} \X (1..QueryCnt)) \ skipped
    BY <2>1
  <2>4. ASSUME NEW n \in 0..QueryCnt PROVE ({k} \X (1..n)) \ skipped' = ({k} \X (1..n)) \ skipped
    <3>1. \A p \in 1..n : p \in 1..QueryCnt
      BY DownloadConstants
    <3> QED BY <2>1, <3>1
  <2>5. PagesLoaded(k)' = PagesLoaded(k)
    <3>1. CASE th[k].pc \in {"page", "message"}
      <4>1. th[k].page = 0 \/ th[k].page - 1 \in 0..QueryCnt
        BY <2>2, DownloadConstants
      <4>2. th[k].page # 0
        BY <1>1, <3>1 DEF JobOK, ThreadOK, Loop
      <4> QED BY <1>1, <2>4, <3>1, <4>1, <4>2 DEF PagesLoaded
    <3>2. CASE th[k].pc \notin {"page", "message"}
      BY <1>1, <2>2, <2>4, <3>2 DEF PagesLoaded
    <3> QED BY <3>1, <3>2
  <2> QED BY <2>1, <2>3, <2>5 DEF Whole
<1>6. ThreadOK(k)'
  BY <1>0, <1>1 DEF JobOK, ThreadOK, SkippedAt
<1>7. PagesOnDisk(k)'
  <2>1. SUFFICES ASSUME th[k].pc \in Loop, ~Excused(k)
                 PROVE  /\ th[k].dir \in DOMAIN tmp'
                        /\ ~th[k].seen => tmp'[th[k].dir] = PagesLoaded(k)
    BY <1>0, <1>1, <1>5 DEF PagesOnDisk
  <2> QED BY <1>1, <1>4, <2>1, NumbersOf DEF JobOK, PagesOnDisk, SameAt, Excused
<1>8. ZipWhenPacked(k)'
  <2>1. SUFFICES ASSUME th[k].pc = "packed", ~Excused(k)
                 PROVE  th[k].dir \in DOMAIN zip' /\ zip'[th[k].dir] = Whole(k)
    BY <1>0, <1>1, <1>5 DEF ZipWhenPacked, ZipWhole
  <2> QED BY <1>1, <1>4, <2>1, NumbersOf DEF JobOK, ZipWhenPacked, ZipWhole, SameAt, Excused
<1>9. ASSUME NEW s \in DOMAIN table', table'[s].by = k PROVE RowOK(s, k)'
  <2>1. s \in DOMAIN table /\ table[s].by = k
    BY <1>9 DEF Footprint
  <2>2. RowOK(s, k) /\ th[k].seq = s /\ s # 0
    BY <1>1, <2>1, Numbers DEF JobOK, RowOK, RowHasThread, TypeOK
  <2>3. ~SeqShared(k) => table'[s] = table[s]
    BY <1>2, <1>9, <2>2 DEF Footprint
  <2>4. RowHasThread(s, k)' /\ RowSays(s, k)'
    BY <1>1, <2>2, <2>3 DEF RowOK, RowHasThread, RowSays, Says
  <2>5. RowOffers(s, k)'
    <3>1. ~DirShared(k) => (ZipWhole(k)' <=> ZipWhole(k))
      BY <1>0, <1>1, <1>4, <2>2 DEF ZipWhole, SameAt
    <3> QED BY <1>1, <2>2, <2>3, <3>1 DEF RowOK, RowOffers, Footprint
  <2> QED BY <2>4, <2>5 DEF RowOK
<1> QED BY <1>6, <1>7, <1>8, <1>9 DEF JobOK

LEMMA RestKeeps ==
    ASSUME IInv, NEW j \in Job, Footprint(j), pend' \in [Job -> SUBSET Job]
    PROVE  /\ TypeOK'
           /\ \A e \in due' : DueIsOver(e)'
           /\ \A d \in DOMAIN tmp' : FolderUsed(d)'
           /\ \A k \in Job : Over(k) => Over(k)'
<1>1. \A k \in Job : SeqShared(k)' = SeqShared(k)
  <2>1. \A l \in Job : th'[l].seq = th[l].seq /\ th'[l].dir = th[l].dir
    BY DEF Footprint
  <2> QED BY <2>1, SharedSame
<1>2. TypeOK'
  <2>1. /\ DOMAIN table' \subseteq Seqs /\ \A s \in DOMAIN table' : table'[s] \in Row
        /\ th' \in [Job -> Thread] /\ Files(tmp') /\ Files(zip')
        /\ UNCHANGED <<click, abnormal, due>> /\ outside' \in 0..Outside /\ skipped' \subseteq Piece
    BY DEF Footprint, OwnSkips
  <2>2. click \subseteq {"cancel", "remove"} \X Seqs /\ abnormal \subseteq Seqs /\ due \subseteq Due
    BY TypeParts DEF IInv
  <2> QED BY <2>1, <2>2 DEF TypeOK, Row, Thread, Due, Files
<1>3. ASSUME NEW e \in due' PROVE DueIsOver(e)'
  <2>1. PICK k \in Job : /\ th[k].seq = e.seq /\ th[k].dir = e.dir
                         /\ SeqShared(k) \/ (th[k].pc \in Past /\ ~th[k].seen)
    BY <1>3 DEF IInv, Footprint, DueIsOver
  <2>2. /\ th'[k].seq = th[k].seq /\ th'[k].dir = th[k].dir
        /\ th[k].pc \in Past => th'[k].pc \in Past /\ th'[k].seen = th[k].seen
    BY DEF Footprint
  <2> QED BY <1>1, <2>1, <2>2 DEF DueIsOver
<1>4. ASSUME NEW d \in DOMAIN tmp' PROVE FolderUsed(d)'
  <2>1. d \in Folder
    BY <1>4 DEF Footprint, Files
  <2>2. CASE d # th[j].dir
    <3>1. PICK k \in Job : th[k].dir = d /\ th[k].pc \in User
      BY <1>4, <2>1, <2>2 DEF IInv, FolderUsed, Footprint, SameAt
    <3> QED BY <2>2, <3>1 DEF FolderUsed, Footprint
  <2>3. CASE d = th[j].dir
    <3>1. CASE th'[j].pc \in User
      BY <2>3, <3>1 DEF FolderUsed, Footprint
    <3>2. CASE th[j].pc \notin User /\ d \in DOMAIN tmp
      <4>1. PICK k \in Job : th[k].dir = d /\ th[k].pc \in User
        BY <3>2 DEF IInv, FolderUsed
      <4> QED BY <3>2, <4>1 DEF FolderUsed, Footprint
    <3> QED BY <1>4, <2>3, <3>1, <3>2 DEF Footprint
  <2> QED BY <2>2, <2>3
<1>5. ASSUME NEW k \in Job, Over(k) PROVE Over(k)'
  <2>1. k # j /\ th'[k] = th[k]
    BY <1>5 DEF Over, Footprint
  <2>2. ASSUME NEW s \in DOMAIN table', table'[s].by = k PROVE ~LiveRow(s)' \/ SeqShared(k)'
    <3>1. s \in DOMAIN table /\ table[s].by = k
      BY <2>1, <2>2 DEF Footprint
    <3>2. th[k].seq = s
      BY <3>1 DEF IInv, JobOK, RowOK, RowHasThread
    <3>3. CASE s = th[j].seq
      BY <1>1, <2>1, <3>2, <3>3 DEF SeqShared
    <3>4. CASE s # th[j].seq
      <4>1. table'[s] = table[s]
        BY <2>2, <3>4 DEF Footprint
      <4> QED BY <1>1, <1>5, <3>1, <4>1 DEF Over, LiveRow
    <3> QED BY <3>3, <3>4
  <2> QED BY <1>5, <2>1, <2>2 DEF Over
<1> QED BY <1>2, <1>3, <1>4, <1>5

(* A step of a thread after its duplicate check. *)
LEMMA ThreadKeeps ==
    ASSUME IInv, NEW j \in Job, Footprint(j), pend' = pend, JobOK(j)',
           th[j].pc # "idle"
    PROVE  IInv'
<1>1. pend' \in [Job -> SUBSET Job]
  BY TypeParts DEF IInv
<1>2. \A k \in Job : JobOK(k)'
  BY OthersKeep
<1>3. ASSUME NEW k \in Job, NEW l \in Job PROVE Checked(k, l)'
  <2>1. \A i \in Job : /\ th'[i].pc # "idle" => th[i].pc # "idle"
                       /\ Over(i) => Over(i)'
    BY <1>1, RestKeeps DEF Footprint
  <2> QED BY <2>1 DEF IInv, Checked
<1> QED BY <1>1, <1>2, <1>3, RestKeeps DEF IInv

-----------------------------------------------------------------------------
Statuses == Live \cup Stopped \cup {"Y", "E", "X"}

LEMMA OwnShared ==
    ASSUME NEW j \in Job, NEW l, NEW p, NEW c, NEW f, Now(j, l, p, c, f)
    PROVE  SeqShared(j)' = SeqShared(j) /\ DirShared(j)' = DirShared(j)
<1>1. \A k \in Job : th'[k].seq = th[k].seq /\ th'[k].dir = th[k].dir
  BY DEF Now
<1> QED BY <1>1, SharedSame

(* The row of a thread that says nothing, or writes a status. *)
LEMMA SilentRows ==
    ASSUME IInv, NEW j \in Job, NEW l \in PCs, NEW p, NEW c \in BOOLEAN, NEW f,
           Now(j, l, p, c, f), UNCHANGED <<table, zip, due>>,
           skipped' = skipped \/ th[j].pc \in Loop,
           l \in {"idle", "asked", "insert"} => th[j].pc \in {"idle", "asked", "insert"},
           \A s \in DOMAIN table :
               RowHasThread(s, j) /\ ~SeqShared(j) /\ Says(table[s].status, th[j].pc, th[j].seen)
                   => Says(table[s].status, l, c)
    PROVE  \A s \in DOMAIN table' : table'[s].by = j => RowOK(s, j)'
<1>1. SUFFICES ASSUME NEW s \in DOMAIN table, table[s].by = j PROVE RowOK(s, j)'
  OBVIOUS
<1>2. RowHasThread(s, j) /\ RowSays(s, j) /\ RowOffers(s, j)
  BY <1>1 DEF IInv, JobOK, RowOK
<1>3. SeqShared(j)' = SeqShared(j) /\ DirShared(j)' = DirShared(j)
  BY OwnShared
<1>4. RowHasThread(s, j)'
  BY <1>2 DEF RowHasThread, Now
<1>5. RowSays(s, j)'
  BY <1>1, <1>2, <1>3 DEF RowSays, Now, Says
<1>6. RowOffers(s, j)'
  <2>1. CASE skipped' = skipped
    <3>1. ZipWhole(j)' <=> ZipWhole(j)
      BY <2>1 DEF ZipWhole, Whole, Now
    <3> QED BY <1>2, <1>3, <3>1 DEF RowOffers
  <2>2. CASE th[j].pc \in Loop
    <3>1. table[s].status = "Y" => SeqShared(j)
      BY <1>2, <2>2 DEF RowSays, Says, Past, Loop, Ended
    <3> QED BY <1>3, <3>1 DEF RowOffers
  <2> QED BY <2>1, <2>2
<1> QED BY <1>4, <1>5, <1>6 DEF RowOK

LEMMA WriterRows ==
    ASSUME IInv, NEW j \in Job, NEW l \in PCs, NEW p, NEW c \in BOOLEAN, NEW f, NEW v \in Statuses,
           Now(j, l, p, c, f), UNCHANGED <<zip, skipped, due>>, table' = Written(th[j].seq, v),
           l \notin {"idle", "asked", "insert"}, Says(v, l, c),
           v = "Y" => ZipWhole(j) \/ Excused(j)
    PROVE  \A s \in DOMAIN table' : table'[s].by = j => RowOK(s, j)'
<1>1. SUFFICES ASSUME NEW s \in DOMAIN table', table'[s].by = j PROVE RowOK(s, j)'
  OBVIOUS
<1>2. s \in DOMAIN table /\ table[s].by = j /\ (s = th[j].seq => table'[s].status = v)
  BY <1>1, WrittenIs DEF IInv, Statuses
<1>3. RowHasThread(s, j) /\ s = th[j].seq
  BY <1>2 DEF IInv, JobOK, RowOK, RowHasThread
<1>4. SeqShared(j)' = SeqShared(j) /\ DirShared(j)' = DirShared(j)
  BY OwnShared
<1>5. RowHasThread(s, j)'
  BY <1>3 DEF RowHasThread, Now
<1>6. RowSays(s, j)'
  BY <1>2, <1>3 DEF RowSays, Now, Says
<1>7. RowOffers(s, j)'
  <2>1. ZipWhole(j)' <=> ZipWhole(j)
    BY DEF ZipWhole, Whole, Now
  <2> QED BY <1>2, <1>3, <1>4, <2>1 DEF RowOffers, Excused
<1> QED BY <1>5, <1>6, <1>7 DEF RowOK

(* A step that leaves the disk alone and writes at most its row. *)
LEMMA PureFootprint ==
    ASSUME IInv, NEW j \in Job, NEW l \in PCs, NEW p, NEW c \in BOOLEAN, NEW f, NEW v \in Statuses,
           Now(j, l, p, c, f), UNCHANGED <<tmp, zip, skipped, click, abnormal, due>>,
           table' = table \/ table' = Written(th[j].seq, v),
           outside' \in 0..Outside, th[j].pc \notin Ended,
           th[j].pc \in Past => l \in Past /\ c = th[j].seen,
           th[j].pc \in User => l \in User
    PROVE  Footprint(j)
<1>1. /\ DOMAIN table' = DOMAIN table /\ DOMAIN table \subseteq Seqs
      /\ \A s \in DOMAIN table : /\ table'[s] \in Row /\ table'[s].by = table[s].by
                                 /\ s # th[j].seq => table'[s] = table[s]
  BY TypeParts, WrittenIs DEF IInv, Statuses
<1>2. Files(tmp') /\ Files(zip') /\ \A d \in Folder : SameAt(tmp, d) /\ SameAt(zip, d)
  BY TypeParts DEF IInv, Files, SameAt
<1>3. th[j].dir \in DOMAIN tmp' => \/ th'[j].pc \in User
                                   \/ th[j].pc \notin User /\ th[j].dir \in DOMAIN tmp
  BY DEF Now
<1>4. OwnSkips(j)
  BY NoSkips DEF IInv
<1> QED BY <1>1, <1>2, <1>3, <1>4 DEF Footprint, Now

LEMMA PureKeeps ==
    ASSUME IInv, NEW j \in Job, NEW l \in PCs, NEW p, NEW c \in BOOLEAN, NEW f, NEW v \in Statuses,
           Now(j, l, p, c, f), UNCHANGED <<tmp, zip, skipped, click, abnormal, due, pend>>,
           table' = table \/ table' = Written(th[j].seq, v),
           outside' \in 0..Outside, th[j].pc \notin Ended \cup {"idle"},
           th[j].pc \in Past => l \in Past /\ c = th[j].seen,
           th[j].pc \in User => l \in User,
           ThreadOK(j)', PagesOnDisk(j)', ZipWhenPacked(j)',
           \A s \in DOMAIN table' : table'[s].by = j => RowOK(s, j)'
    PROVE  IInv'
<1>1. Footprint(j)
  BY PureFootprint
<1>2. JobOK(j)'
  BY DEF JobOK
<1> QED BY <1>1, <1>2, ThreadKeeps

(* The end of a thread, in whatever way. *)
LEMMA StopKeeps ==
    ASSUME IInv, NEW j \in Job, NEW l \in Past, NEW p, NEW f, NEW v \in Statuses,
           Now(j, l, p, th[j].seen, f), UNCHANGED <<tmp, zip, skipped, click, abnormal, due, pend>>,
           \/ table' = table /\ l \in {"failed", "dead"}
           \/ table' = Written(th[j].seq, v) /\ Says(v, l, th[j].seen) /\ (v = "Y" => ZipWhole(j) \/ Excused(j)),
           outside' \in 0..Outside, th[j].pc \notin Ended \cup {"idle"},
           th[j].pc \in User \/ l # "dead" => th[j].seq # 0,
           th[j].pc \in User => l \in User
    PROVE  IInv'
<1>1. /\ th[j] \in Thread /\ ThreadOK(j) /\ l \in PCs /\ th[j].seen \in BOOLEAN
  BY TypeParts DEF IInv, JobOK, Thread, Past, PCs
<1>2. ThreadOK(j)'
  BY <1>1 DEF ThreadOK, SkippedAt, Now, Past, Loop, Ended
<1>3. PagesOnDisk(j)' /\ ZipWhenPacked(j)'
  BY DEF PagesOnDisk, ZipWhenPacked, Now, Past, Loop, Ended
<1>4. \A s \in DOMAIN table' : table'[s].by = j => RowOK(s, j)'
  <2>1. CASE table' = table /\ l \in {"failed", "dead"}
    BY <1>1, <2>1, SilentRows DEF Says, Past, Ended
  <2>2. CASE /\ table' = Written(th[j].seq, v) /\ Says(v, l, th[j].seen)
             /\ v = "Y" => ZipWhole(j) \/ Excused(j)
    BY <1>1, <2>2, WriterRows DEF Past, Ended
  <2> QED BY <2>1, <2>2
<1> QED BY <1>1, <1>2, <1>3, <1>4, PureKeeps

-----------------------------------------------------------------------------
(* One lemma for each action; first the ways out of the handler. *)

LEMMA OwnTypes ==
    ASSUME IInv, NEW j \in Job
    PROVE  /\ TypeOK /\ ThreadOK(j) /\ PagesOnDisk(j) /\ ZipWhenPacked(j) /\ outside \in 0..Outside
           /\ th[j].pc \in PCs /\ th[j].seen \in BOOLEAN /\ th[j].full \in BOOLEAN
           /\ th[j].page \in 0..QueryCnt /\ th[j].seq \in 0..MaxSeq /\ th[j].dir \in Folder \cup {0}
BY TypeParts DEF IInv, JobOK, Thread, PCs

LEMMA ThrowKeeps ==
    ASSUME IInv, NEW j \in Job, Throw(j)
    PROVE  IInv'
<1>1. /\ th[j].pc \in {"page", "message", "pageEnd", "ing", "after", "packed"} /\ Goto(j, "failed")
      /\ UNCHANGED <<table, tmp, zip, skipped, pend, click, abnormal, due>> /\ outside' \in 0..Outside
  BY OwnTypes, DownloadConstants DEF Throw, Intervene, disk
<1>2. Now(j, "failed", th[j].page, th[j].seen, th[j].full)
  BY <1>1, OwnTypes, GotoIsNow DEF PCs
<1>3. th[j].seq # 0 /\ th[j].pc \notin Ended \cup {"idle"}
  BY <1>1, OwnTypes DEF ThreadOK, Ended
<1>4. "failed" \in Past /\ "failed" \in User /\ "E" \in Statuses
  BY DEF Past, User, Statuses
<1> QED BY <1>1, <1>2, <1>3, <1>4, StopKeeps

LEMMA DieKeeps ==
    ASSUME IInv, NEW j \in Job, Die(j)
    PROVE  IInv'
<1>1. /\ th[j].pc \notin Ended \cup {"idle"} /\ End(j, "dead")
      /\ UNCHANGED <<table, tmp, zip, skipped, pend, click, abnormal, due>> /\ outside' \in 0..Outside
  BY OwnTypes, DownloadConstants DEF Die, Alive, Intervene, disk
<1>2. Now(j, "dead", 0, th[j].seen, FALSE)
  BY <1>1, OwnTypes, EndIsNow DEF PCs, Ended
<1>3. th[j].pc \in User => th[j].seq # 0
  BY <1>1, OwnTypes DEF ThreadOK, Ended, User, Loop
<1>4. "dead" \in Past /\ "dead" \in User /\ "E" \in Statuses
  BY DEF Past, User, Statuses, Ended
<1> QED BY <1>1, <1>2, <1>3, <1>4, StopKeeps

LEMMA FolderMissingKeeps ==
    ASSUME IInv, NEW j \in Job, FolderMissing(j)
    PROVE  IInv'
<1>1. /\ th[j].pc \in {"clean", "after"} /\ Goto(j, "failed")
      /\ UNCHANGED <<table, tmp, zip, skipped, pend, click, abnormal, due>> /\ outside' \in 0..Outside
  BY OwnTypes DEF FolderMissing, At, disk, jobs
<1>2. Now(j, "failed", th[j].page, th[j].seen, th[j].full)
  BY <1>1, OwnTypes, GotoIsNow DEF PCs
<1>3. th[j].seq # 0 /\ th[j].pc \notin Ended \cup {"idle"}
  BY <1>1, OwnTypes DEF ThreadOK, Ended
<1>4. "failed" \in Past /\ "failed" \in User /\ "E" \in Statuses
  BY DEF Past, User, Statuses
<1> QED BY <1>1, <1>2, <1>3, <1>4, StopKeeps

LEMMA UpdateErrorKeeps ==
    ASSUME IInv, NEW j \in Job, UpdateErrorDB(j)
    PROVE  IInv'
<1>1. /\ th[j].pc = "failed" /\ table' = Written(th[j].seq, "E") /\ End(j, "error")
      /\ UNCHANGED <<tmp, zip, skipped, pend, click, abnormal, due>> /\ outside' \in 0..Outside
  BY OwnTypes DEF UpdateErrorDB, At, disk, jobs
<1>2. Now(j, "error", 0, th[j].seen, FALSE)
  BY <1>1, OwnTypes, EndIsNow DEF PCs, Ended
<1>3. th[j].seq # 0 /\ th[j].pc \notin Ended \cup {"idle"} /\ Says("E", "error", th[j].seen)
  BY <1>1, OwnTypes DEF ThreadOK, Ended, Says, Past, Live
<1>4. "error" \in Past /\ "error" \in User /\ "E" \in Statuses
  BY DEF Past, User, Statuses, Ended
<1> QED BY <1>1, <1>2, <1>3, <1>4, StopKeeps

LEMMA UpdateSucessKeeps ==
    ASSUME IInv, NEW j \in Job, UpdateSucessDB(j)
    PROVE  IInv'
<1>1. /\ th[j].pc = "packed" /\ table' = Written(th[j].seq, "Y") /\ Goto(j, "clean")
      /\ UNCHANGED <<tmp, zip, skipped, pend, click, abnormal, due>> /\ outside' \in 0..Outside
  BY OwnTypes DEF UpdateSucessDB, At, disk, jobs
<1>2. Now(j, "clean", th[j].page, th[j].seen, th[j].full)
  BY <1>1, OwnTypes, GotoIsNow DEF PCs
<1>3. th[j].seq # 0 /\ th[j].pc \notin Ended \cup {"idle"} /\ ~th[j].seen
  BY <1>1, OwnTypes DEF ThreadOK, Ended, Past
<1>4. Says("Y", "clean", th[j].seen) /\ (ZipWhole(j) \/ Excused(j))
  BY <1>1, <1>3, OwnTypes DEF Says, Past, Live, ZipWhenPacked
<1>5. "clean" \in Past /\ "clean" \in User /\ "Y" \in Statuses
  BY DEF Past, User, Statuses
<1> QED BY <1>1, <1>2, <1>3, <1>4, <1>5, StopKeeps

LEMMA GiveUpKeeps ==
    ASSUME IInv, NEW j \in Job, GiveUp(j)
    PROVE  IInv'
<1>1. /\ th[j].pc = "after" /\ Goto(j, "clean")
      /\ \/ th[j].seen /\ table' = table
         \/ ~th[j].seen /\ table' = Written(th[j].seq, "E")
      /\ UNCHANGED <<tmp, zip, skipped, pend, click, abnormal, due>> /\ outside' \in 0..Outside
  BY OwnTypes DEF GiveUp, At, disk, jobs
<1>2. Now(j, "clean", th[j].page, th[j].seen, th[j].full)
  BY <1>1, OwnTypes, GotoIsNow DEF PCs
<1>3. th[j].seq # 0 /\ th[j].pc \notin Ended \cup {"idle"} /\ ThreadOK(j) /\ th[j].pc \notin Past
  BY <1>1, OwnTypes DEF ThreadOK, Ended, Past
<1>4. "clean" \in Past /\ "clean" \in User /\ "clean" \in PCs /\ "E" \in Statuses
  BY DEF Past, User, Statuses, PCs
<1>5. CASE th[j].seen /\ table' = table
  <2>1. ThreadOK(j)'
    BY <1>1, <1>2, <1>3, <1>4 DEF ThreadOK, SkippedAt, Now, Loop
  <2>2. PagesOnDisk(j)' /\ ZipWhenPacked(j)'
    BY <1>2 DEF PagesOnDisk, ZipWhenPacked, Now, Loop
  <2>3. \A s \in DOMAIN table : Says(table[s].status, th[j].pc, th[j].seen)
                                   => Says(table[s].status, "clean", th[j].seen)
    BY <1>1, <1>5 DEF Says, Past, Live, Stopped, Ended
  <2>4. \A s \in DOMAIN table' : table'[s].by = j => RowOK(s, j)'
    BY <1>1, <1>2, <1>4, <1>5, <2>3, OwnTypes, SilentRows
  <2> QED BY <1>1, <1>2, <1>3, <1>4, <1>5, <2>1, <2>2, <2>4, OwnTypes, PureKeeps
<1>6. CASE ~th[j].seen /\ table' = Written(th[j].seq, "E")
  <2>1. Says("E", "clean", th[j].seen)
    BY <1>6 DEF Says, Past, Live
  <2> QED BY <1>1, <1>2, <1>3, <1>4, <1>6, <2>1, StopKeeps
<1> QED BY <1>1, <1>5, <1>6

(* The loop over the pages. *)

LEMMA PageEndKeeps ==
    ASSUME IInv, NEW j \in Job, PageEnd(j)
    PROVE  IInv'
<1>1. /\ th[j].pc = "pageEnd"
      /\ UNCHANGED <<table, tmp, zip, skipped, pend, click, abnormal, due>> /\ outside' \in 0..Outside
  BY OwnTypes DEF PageEnd, At, disk, jobs
<1>2. th[j].seq # 0 /\ th[j].page # 0 /\ "pageEnd" \notin Past \cup Ended \cup {"idle"} /\ "E" \in Statuses
  BY <1>1, OwnTypes DEF ThreadOK, Loop, Ended, Past, Statuses
<1>3. CASE th[j].page = QueryCnt /\ Goto(j, "after")
  <2>1. Now(j, "after", th[j].page, th[j].seen, th[j].full)
    BY <1>3, OwnTypes, GotoIsNow DEF PCs
  <2>2. "after" \in PCs /\ "after" \in User /\ "after" \notin Past
    BY DEF PCs, User, Loop, Past, Ended
  <2>3. ThreadOK(j)'
    BY <1>1, <1>2, <1>3, <2>1, <2>2, OwnTypes DEF ThreadOK, SkippedAt, Now
  <2>4. PagesOnDisk(j)'
    <3>1. Excused(j)' = Excused(j)
      BY <1>1, <2>1, OwnShared DEF Excused, Now
    <3>2. PagesLoaded(j)' = PagesLoaded(j)
      BY <1>1, <2>1 DEF PagesLoaded, Now
    <3> QED BY <1>1, <2>1, <3>1, <3>2, OwnTypes DEF PagesOnDisk, Now, Loop
  <2>5. ZipWhenPacked(j)'
    BY <2>1 DEF ZipWhenPacked, Now
  <2>6. \A s \in DOMAIN table : Says(table[s].status, th[j].pc, th[j].seen)
                                   => Says(table[s].status, "after", th[j].seen)
    BY <1>1, <1>2 DEF Says
  <2>7. \A s \in DOMAIN table' : table'[s].by = j => RowOK(s, j)'
    BY <1>1, <2>1, <2>2, <2>6, OwnTypes, SilentRows
  <2> QED BY <1>1, <1>2, <2>1, <2>2, <2>3, <2>4, <2>5, <2>7, OwnTypes, PureKeeps
<1>4. ASSUME th[j].page < QueryCnt, NEW c \in BOOLEAN, c = checkCancel(j), NEW l,
             l = IF c THEN "after" ELSE "ing", th' = [th EXCEPT ![j] = [th[j] EXCEPT !.pc = l, !.seen = c]]
      PROVE  IInv'
  <2>1. Now(j, l, th[j].page, c, th[j].full)
    <3>1. [th[j] EXCEPT !.pc = l, !.seen = c] =
              [pc |-> l, seq |-> th[j].seq, dir |-> th[j].dir, page |-> th[j].page,
               seen |-> c, full |-> th[j].full]
      <4>1. th[j] \in Thread
        BY TypeParts DEF IInv
      <4> QED BY <4>1, SeenRecord
    <3>2. th' = [th EXCEPT ![j] = [pc |-> l, seq |-> th[j].seq, dir |-> th[j].dir, page |-> th[j].page,
               seen |-> c, full |-> th[j].full]]
      BY <1>4, <3>1
    <3>3. l \in PCs
      BY <1>4 DEF PCs
    <3> QED BY <3>2, <3>3, OwnTypes, RecordIsNow
  <2>2. l \in PCs /\ l \in User /\ l \notin Past /\ l \in {"after", "ing"} /\ l \in Loop /\ (l = "ing" <=> ~c)
    BY <1>4 DEF PCs, User, Loop, Past, Ended
  <2>0. ASSUME NEW p \in 1..QueryCnt, <<j, p>> \in skipped PROVE SkippedAt(j, p)'
    <3>1. SkippedAt(j, p) /\ "pageEnd" \in Loop
      BY <2>0, OwnTypes DEF ThreadOK, Loop
    <3> QED BY <1>1, <1>4, <2>1, <2>2, <3>1, OwnTypes, DownloadConstants DEF SkippedAt, Now
  <2>3. ThreadOK(j)'
    BY <1>1, <1>2, <1>4, <2>0, <2>1, <2>2, OwnTypes DEF ThreadOK, Now
  <2>4. ASSUME NEW s \in DOMAIN table, table[s].by = j, ~SeqShared(j), th[j].seen PROVE c
    <3>1. s = th[j].seq /\ Says(table[s].status, th[j].pc, th[j].seen)
      BY <2>4 DEF IInv, JobOK, RowOK, RowHasThread, RowSays
    <3>2. table[s].status \in Stopped
      BY <1>1, <1>2, <2>4, <3>1 DEF Says
    <3> QED BY <1>4, <3>1, <3>2 DEF checkCancel
  <2>5. PagesOnDisk(j)'
    <3>1. Excused(j)' = Excused(j)
      BY <1>1, <2>1, OwnShared DEF Excused, Now
    <3>2. PagesLoaded(j)' = PagesLoaded(j)
      BY <1>1, <2>1, <2>2 DEF PagesLoaded, Now
    <3>3. ASSUME ~Excused(j), th[j].seen PROVE c
      <4>1. th[j].seq \in DOMAIN table /\ ~SeqShared(j)
        BY <3>3 DEF Excused
      <4>2. table[th[j].seq].by = j
        BY <4>1, TypeParts DEF IInv, JobOK, RowOK, RowHasThread, SeqShared, Row
      <4> QED BY <2>4, <3>3, <4>1, <4>2
    <3> QED BY <1>1, <2>1, <2>2, <3>1, <3>2, <3>3, OwnTypes DEF PagesOnDisk, Now, Loop
  <2>6. ZipWhenPacked(j)'
    BY <2>1, <2>2 DEF ZipWhenPacked, Now
  <2>7. ASSUME NEW s \in DOMAIN table, RowHasThread(s, j), Says(table[s].status, th[j].pc, th[j].seen)
        PROVE  Says(table[s].status, l, c)
    <3>1. c => table[s].status \in Stopped
      BY <1>4, <2>7 DEF checkCancel, RowHasThread
    <3> QED BY <1>1, <1>2, <2>2, <2>7, <3>1 DEF Says
  <2>8. \A s \in DOMAIN table' : table'[s].by = j => RowOK(s, j)'
    BY <1>1, <2>1, <2>2, <2>7, OwnTypes, SilentRows
  <2> QED BY <1>1, <1>2, <2>1, <2>2, <2>3, <2>5, <2>6, <2>8, OwnTypes, PureKeeps
<1>5. checkCancel(j) \in BOOLEAN
  BY DEF checkCancel
<1> QED BY <1>3, <1>4, <1>5 DEF PageEnd


LEMMA UpdateIngKeeps ==
    ASSUME IInv, NEW j \in Job, UpdateIngDB(j)
    PROVE  IInv'
<1>1. /\ th[j].pc = "ing" /\ table' = Written(th[j].seq, "I")
      /\ UNCHANGED <<tmp, zip, skipped, pend, click, abnormal, due>> /\ outside' \in 0..Outside
  BY OwnTypes DEF UpdateIngDB, At, disk, jobs
<1>2. /\ th[j].seq # 0 /\ th[j].page # 0 /\ th[j].page < QueryCnt /\ ~th[j].seen
      /\ "ing" \notin Past \cup Ended \cup {"idle"} /\ "I" \in Statuses
  BY <1>1, OwnTypes DEF ThreadOK, Loop, Ended, Past, Statuses, Live
<1>3. th[j] \in Thread
  BY TypeParts DEF IInv
<1>4. ASSUME NEW l \in {"page", "after"}, NEW p \in 0..QueryCnt, NEW f \in BOOLEAN,
             Now(j, l, p, th[j].seen, f), p # 0,
             l = "page" => p - 1 = th[j].page, l = "after" => p = th[j].page /\ f
      PROVE  IInv'
  <2>1. l \in PCs /\ l \in User /\ l \in Loop /\ l \notin Past
    BY <1>4 DEF PCs, User, Loop, Past, Ended
  <2>0. ASSUME NEW q \in 1..QueryCnt, <<j, q>> \in skipped PROVE SkippedAt(j, q)'
    <3>1. SkippedAt(j, q) /\ "ing" \in Loop
      BY <2>0, OwnTypes DEF ThreadOK, Loop
    <3>2. q <= th[j].page /\ j \in Bodies
      BY <1>1, <1>2, <3>1, OwnTypes, DownloadConstants DEF SkippedAt
    <3> QED BY <1>4, <3>1, <3>2, OwnTypes DEF SkippedAt, Now, Loop
  <2>2. ThreadOK(j)'
    BY <1>1, <1>2, <1>4, <2>0, <2>1, OwnTypes DEF ThreadOK, Now
  <2>3. PagesOnDisk(j)'
    <3>1. Excused(j)' = Excused(j)
      BY <1>1, <1>4, OwnTypes, WrittenIs, OwnShared DEF Excused, Now, Live
    <3>2. PagesLoaded(j)' = PagesLoaded(j)
      BY <1>1, <1>4 DEF PagesLoaded, Now
    <3> QED BY <1>1, <1>2, <1>4, <3>1, <3>2, OwnTypes DEF PagesOnDisk, Now, Loop
  <2>4. ZipWhenPacked(j)'
    BY <1>4 DEF ZipWhenPacked, Now
  <2>5. Says("I", l, th[j].seen)
    BY <1>2, <1>4 DEF Says
  <2>6. \A s \in DOMAIN table' : table'[s].by = j => RowOK(s, j)'
    BY <1>1, <1>2, <1>4, <2>1, <2>5, OwnTypes, WriterRows
  <2> QED BY <1>1, <1>2, <1>4, <2>1, <2>2, <2>3, <2>4, <2>6, OwnTypes, PureKeeps
<1>5. CASE th' = [th EXCEPT ![j] = [th[j] EXCEPT !.pc = "page", !.page = th[j].page + 1]]
  <2>1. th[j].page + 1 \in 0..QueryCnt /\ th[j].page + 1 # 0 /\ th[j].page + 1 - 1 = th[j].page
    BY <1>2, OwnTypes, DownloadConstants
  <2>2. th' = [th EXCEPT ![j] = [pc |-> "page", seq |-> th[j].seq, dir |-> th[j].dir,
                                 page |-> th[j].page + 1, seen |-> th[j].seen, full |-> th[j].full]]
    <3>1. ASSUME NEW l, NEW x
          PROVE  [th[j] EXCEPT !.pc = l, !.page = x] =
                     [pc |-> l, seq |-> th[j].seq, dir |-> th[j].dir,
                      page |-> x, seen |-> th[j].seen, full |-> th[j].full]
      BY <1>3, PageRecord
    <3> QED BY <1>5, <3>1, Zenon
  <2>3. Now(j, "page", th[j].page + 1, th[j].seen, th[j].full)
    BY <2>1, <2>2, OwnTypes, RecordIsNow DEF PCs
  <2> QED BY <2>1, <2>3, <1>4, OwnTypes
<1>6. CASE th' = [th EXCEPT ![j] = [th[j] EXCEPT !.pc = "after", !.full = TRUE]]
  <2>1. th' = [th EXCEPT ![j] = [pc |-> "after", seq |-> th[j].seq, dir |-> th[j].dir,
                                 page |-> th[j].page, seen |-> th[j].seen, full |-> TRUE]]
    BY <1>3, <1>6, FullRecord
  <2>2. Now(j, "after", th[j].page, th[j].seen, TRUE)
    BY <2>1, OwnTypes, RecordIsNow DEF PCs
  <2> QED BY <1>2, <2>2, <1>4, OwnTypes
<1> QED BY <1>5, <1>6, Zenon DEF UpdateIngDB

(* The steps that write the disk. *)
LEMMA DiskFootprint ==
    ASSUME IInv, NEW j \in Job, NEW l \in User, NEW p, NEW c, NEW f, Now(j, l, p, c, f),
           UNCHANGED <<table, click, abnormal, due>>, outside' \in 0..Outside,
           OwnSkips(j), Files(tmp'), Files(zip'), th[j].pc \notin Ended \cup Past,
           \A d \in Folder : d # th[j].dir => SameAt(tmp, d) /\ SameAt(zip, d)
    PROVE  Footprint(j)
<1>1. DOMAIN table \subseteq Seqs /\ \A s \in DOMAIN table : table[s] \in Row
  BY TypeParts DEF IInv
<1>2. \A s \in DOMAIN table : table[s].by = j => s = th[j].seq
  BY DEF IInv, JobOK, RowOK, RowHasThread
<1> QED BY <1>1, <1>2 DEF Footprint, Now

LEMMA PutIs ==
    ASSUME NEW f, Files(f), NEW d \in Folder, NEW v \in SUBSET Piece
    PROVE  /\ Files(Put(f, d, v))
           /\ d \in DOMAIN Put(f, d, v) /\ Put(f, d, v)[d] = v
           /\ \A x \in Folder : x # d => /\ x \in DOMAIN Put(f, d, v) <=> x \in DOMAIN f
                                         /\ x \in DOMAIN f => Put(f, d, v)[x] = f[x]
BY DEF Put, Files

LEMMA AddPage ==
    ASSUME NEW j, NEW i \in Nat \ {0}
    PROVE  ({j} \X (1..(i - 1))) \cup {<<j, i>>} = {j} \X (1..i)
<1>1. 1..i = (1..(i - 1)) \cup {i}
  OBVIOUS
<1> QED BY <1>1

(* A step that writes the export folder and keeps the row and the zip. *)
LEMMA LoopKeeps ==
    ASSUME IInv, NEW j \in Job, NEW l \in Loop, NEW p \in 0..QueryCnt, NEW c \in BOOLEAN, NEW f,
           Now(j, l, p, c, f), th[j].pc \in Loop \cup {"space"},
           UNCHANGED <<table, zip, pend, click, abnormal, due>>, outside' \in 0..Outside,
           OwnSkips(j), skipped' = skipped \/ th[j].pc \in Loop,
           Files(tmp'), \A d \in Folder : d # th[j].dir => SameAt(tmp, d),
           c => checkCancel(j),
           ThreadOK(j)', PagesOnDisk(j)'
    PROVE  IInv'
<1>1. l \in User /\ l \in PCs /\ l \notin Past \cup {"idle", "asked", "insert", "packed"}
  BY DEF User, PCs, Loop, Past, Ended
<1>2. th[j].pc \notin Past \cup Ended \cup {"idle"}
  BY DEF Loop, Past, Ended
<1>3. Files(zip') /\ \A d \in Folder : d # th[j].dir => SameAt(tmp, d) /\ SameAt(zip, d)
  BY TypeParts DEF IInv, Files, SameAt
<1>4. Footprint(j)
  BY <1>1, <1>2, <1>3, DiskFootprint
<1>5. ZipWhenPacked(j)'
  BY <1>1 DEF ZipWhenPacked, Now
<1>6. ASSUME NEW s \in DOMAIN table, RowHasThread(s, j), Says(table[s].status, th[j].pc, th[j].seen)
      PROVE  Says(table[s].status, l, c)
  <2>1. c => table[s].status \in Stopped
    BY <1>6 DEF checkCancel, RowHasThread
  <2> QED BY <1>1, <1>2, <1>6, <2>1 DEF Says, Past, Ended
<1>7. \A s \in DOMAIN table' : table'[s].by = j => RowOK(s, j)'
  BY <1>1, <1>6, SilentRows
<1>8. JobOK(j)'
  BY <1>5, <1>7 DEF JobOK
<1> QED BY <1>2, <1>4, <1>8, ThreadKeeps

LEMMA SpaceCheckKeeps ==
    ASSUME IInv, NEW j \in Job, SpaceCheck(j)
    PROVE  IInv'
<1> DEFINE d == th[j].dir
<1>1. /\ th[j].pc = "space"
      /\ UNCHANGED <<zip, skipped, pend, click, abnormal, due>> /\ outside' \in 0..Outside
  BY OwnTypes DEF SpaceCheck, At, jobs
<1>2. th[j].seq # 0 /\ d \in Folder /\ ~th[j].seen /\ th[j] \in Thread
  BY <1>1, OwnTypes, NumbersOf, TypeParts DEF ThreadOK, Past, Ended, IInv
<1>3. CASE table' = Written(th[j].seq, "E") /\ End(j, "done") /\ UNCHANGED tmp
  <2>1. Now(j, "done", 0, th[j].seen, FALSE)
    BY <1>3, OwnTypes, EndIsNow DEF PCs, Ended
  <2>2. Says("E", "done", th[j].seen) /\ "done" \in Past /\ "E" \in Statuses
    BY DEF Says, Past, Ended, Live, Statuses
  <2>3. th[j].pc \notin Ended \cup {"idle"} \cup User
    BY <1>1 DEF Ended, User, Loop
  <2> QED BY <1>1, <1>2, <1>3, <2>1, <2>2, <2>3, StopKeeps
<1>4. CASE /\ th' = [th EXCEPT ![j] = [th[j] EXCEPT !.pc = "page", !.page = 1]]
           /\ tmp' = Put(tmp, d, IF d \in DOMAIN tmp THEN tmp[d] ELSE {})
           /\ UNCHANGED table
  <2>1. Now(j, "page", 1, th[j].seen, th[j].full)
    <3>1. ASSUME NEW l, NEW x
          PROVE  [th[j] EXCEPT !.pc = l, !.page = x] =
                     [pc |-> l, seq |-> th[j].seq, dir |-> th[j].dir,
                      page |-> x, seen |-> th[j].seen, full |-> th[j].full]
      BY <1>2, PageRecord
    <3>2. th' = [th EXCEPT ![j] = [pc |-> "page", seq |-> th[j].seq, dir |-> th[j].dir,
                                   page |-> 1, seen |-> th[j].seen, full |-> th[j].full]]
      BY <1>4, <3>1, Zenon
    <3>3. 1 \in 0..QueryCnt
      BY DownloadConstants
    <3> QED BY <3>2, <3>3, OwnTypes, RecordIsNow DEF PCs
  <2>2. PICK v \in SUBSET Piece : tmp' = Put(tmp, d, v) /\ (d \notin DOMAIN tmp => v = {})
    BY <1>4, TypeParts DEF IInv, Files
  <2>3. \A x \in Folder : x # d => SameAt(tmp, x)
    BY <1>2, <2>2, TypeParts, PutIs DEF IInv, SameAt
  <2>4. Files(tmp') /\ d \in DOMAIN tmp' /\ tmp'[d] = v
    BY <1>2, <2>2, TypeParts, PutIs DEF IInv
  <2>5. ThreadOK(j)'
    BY <1>1, <1>2, <2>1, OwnTypes, DownloadConstants DEF ThreadOK, SkippedAt, Now
  <2>6. d \in DOMAIN tmp => DirShared(j)
    <3>1. SUFFICES ASSUME d \in DOMAIN tmp PROVE DirShared(j)
      OBVIOUS
    <3>2. PICK k \in Job : th[k].dir = d /\ th[k].pc \in User
      BY <3>1 DEF IInv, FolderUsed
    <3> QED BY <1>1, <3>2 DEF DirShared, User, Loop
  <2>7. PagesOnDisk(j)'
    <3>1. Excused(j)' = Excused(j)
      BY <1>4, <2>1, OwnShared DEF Excused, Now
    <3>2. PagesLoaded(j)' = {}
      BY <2>1 DEF PagesLoaded, Now
    <3>3. ~Excused(j) => tmp'[d] = {}
      BY <2>2, <2>4, <2>6 DEF Excused
    <3> QED BY <2>1, <2>4, <3>1, <3>2, <3>3 DEF PagesOnDisk, Now
  <2>8. "page" \in Loop /\ 1 \in 0..QueryCnt
    BY DownloadConstants DEF Loop
  <2> QED BY <1>1, <1>2, <1>4, <2>1, <2>3, <2>4, <2>5, <2>7, <2>8, OwnTypes, NoSkips, LoopKeeps DEF IInv
<1> QED BY <1>3, <1>4, Zenon DEF SpaceCheck

LEMMA LoadPageKeeps ==
    ASSUME IInv, NEW j \in Job, LoadPage(j)
    PROVE  IInv'
<1> DEFINE d == th[j].dir
           i == th[j].page
<1>1. /\ th[j].pc = "page"
      /\ UNCHANGED <<table, zip, skipped, pend, click, abnormal, due>> /\ outside' \in 0..Outside
  BY OwnTypes DEF LoadPage, At, jobs
<1>2. /\ th[j].seq # 0 /\ d \in Folder /\ ~th[j].seen /\ i \in 1..QueryCnt
      /\ th[j].pc \notin Ended \cup {"idle"} /\ th[j].pc \in Loop
  BY <1>1, OwnTypes, NumbersOf, DownloadConstants DEF ThreadOK, Past, Ended, Loop
<1>3. Files(tmp)
  BY TypeParts DEF IInv
<1>4. CASE j \in Bodies /\ Goto(j, "message") /\ UNCHANGED tmp
  <2>1. Now(j, "message", i, th[j].seen, th[j].full)
    BY <1>4, OwnTypes, GotoIsNow DEF PCs
  <2>2. \A x \in Folder : x # d => SameAt(tmp, x)
    BY <1>4 DEF SameAt
  <2>3. ThreadOK(j)'
    BY <1>1, <1>2, <1>4, <2>1, OwnTypes DEF ThreadOK, SkippedAt, Now
  <2>4. PagesOnDisk(j)'
    <3>1. Excused(j)' = Excused(j)
      BY <1>1, <2>1, OwnShared DEF Excused, Now
    <3>2. PagesLoaded(j)' = PagesLoaded(j)
      BY <1>1, <2>1 DEF PagesLoaded, Now
    <3> QED BY <1>1, <1>2, <1>4, <2>1, <3>1, <3>2, OwnTypes DEF PagesOnDisk, Now
  <2>5. "message" \in Loop
    BY DEF Loop
  <2> QED BY <1>1, <1>2, <1>3, <1>4, <2>1, <2>2, <2>3, <2>4, <2>5, OwnTypes, NoSkips, LoopKeeps DEF IInv
<1>5. CASE Goto(j, "failed") /\ UNCHANGED tmp
  <2>1. Now(j, "failed", i, th[j].seen, th[j].full)
    BY <1>5, OwnTypes, GotoIsNow DEF PCs
  <2>2. "failed" \in Past /\ "failed" \in User /\ "E" \in Statuses
    BY DEF Past, User, Statuses
  <2> QED BY <1>1, <1>2, <1>5, <2>1, <2>2, StopKeeps
<1>6. CASE /\ i = 1 => d \in DOMAIN tmp
           /\ j \notin Bodies
           /\ Goto(j, "pageEnd")
           /\ tmp' = IF d \in DOMAIN tmp /\ (i = 1 \/ <<j, 1>> \in tmp[d])
                     THEN [tmp EXCEPT ![d] = tmp[d] \cup {<<j, i>>}] ELSE tmp
  <2>1. Now(j, "pageEnd", i, th[j].seen, th[j].full)
    BY <1>6, OwnTypes, GotoIsNow DEF PCs
  <2>2. \A x \in Folder : x # d => SameAt(tmp, x)
    BY <1>6 DEF SameAt
  <2>3. Files(tmp')
    <3>1. <<j, i>> \in Piece
      BY <1>2 DEF Piece
    <3> QED BY <1>3, <1>6, <3>1 DEF Files
  <2>4. ThreadOK(j)'
    BY <1>1, <1>2, <2>1, OwnTypes DEF ThreadOK, SkippedAt, Now
  <2>5. PagesOnDisk(j)'
    <3>1. Excused(j)' = Excused(j)
      BY <1>1, <2>1, OwnShared DEF Excused, Now
    <3>2. SUFFICES ASSUME ~Excused(j) PROVE d \in DOMAIN tmp' /\ tmp'[d] = ({j} \X (1..i)) \ skipped
      BY <1>1, <2>1, <3>1 DEF PagesOnDisk, PagesLoaded, Now
    <3>3. d \in DOMAIN tmp /\ tmp[d] = ({j} \X (1..(i - 1))) \ skipped
      BY <1>1, <1>2, <3>2, OwnTypes DEF PagesOnDisk, PagesLoaded
    <3>0. j \notin Bodies => \A p \in 1..QueryCnt : <<j, p>> \notin skipped
      BY <1>1, <1>2, OwnTypes DEF ThreadOK, SkippedAt
    <3>4. i = 1 \/ <<j, 1>> \in tmp[d]
      BY <1>2, <1>6, <3>0, <3>3, DownloadConstants
    <3>5. tmp' = [tmp EXCEPT ![d] = tmp[d] \cup {<<j, i>>}]
      BY <1>6, <3>3, <3>4
    <3>6. tmp[d] \cup {<<j, i>>} = ({j} \X (1..i)) \ skipped
      BY <1>2, <1>6, <3>0, <3>3, AddPage
    <3> QED BY <3>3, <3>5, <3>6
  <2>6. "pageEnd" \in Loop
    BY DEF Loop
  <2>7. OwnSkips(j)
    BY <1>1, NoSkips DEF IInv
  <2>8. i \in 0..QueryCnt /\ th[j].seen \in BOOLEAN
    BY OwnTypes
  <2> QED BY <1>1, <1>2, <2>1, <2>2, <2>3, <2>4, <2>5, <2>6, <2>7, <2>8, LoopKeeps
<1> QED BY <1>4, <1>5, <1>6 DEF LoadPage

LEMMA DownloadMessageKeeps ==
    ASSUME IInv, NEW j \in Job, DownloadMessage(j)
    PROVE  IInv'
<1> DEFINE d == th[j].dir
           i == th[j].page
<1>1. PICK c \in BOOLEAN : c = checkCancel(j)
  BY DEF checkCancel
<1>2. /\ th[j].pc = "message"
      /\ th' = [th EXCEPT ![j] = [th[j] EXCEPT !.pc = "pageEnd", !.seen = c]]
      /\ UNCHANGED <<table, zip, skipped, pend, click, abnormal, due>> /\ outside' \in 0..Outside
  BY <1>1, OwnTypes DEF DownloadMessage, At, jobs
<1>3. tmp' = IF c THEN tmp
             ELSE Put(tmp, d, (IF d \in DOMAIN tmp THEN tmp[d] ELSE {}) \cup {<<j, i>>})
  BY <1>1 DEF DownloadMessage
<1>4. /\ th[j].seq # 0 /\ d \in Folder /\ ~th[j].seen /\ i \in 1..QueryCnt
      /\ th[j].pc \notin Ended \cup {"idle"} /\ th[j].pc \in Loop
  BY <1>2, OwnTypes, NumbersOf, DownloadConstants DEF ThreadOK, Past, Ended, Loop
<1>5. Files(tmp) /\ th[j] \in Thread
  BY TypeParts DEF IInv
<1>6. Now(j, "pageEnd", i, c, th[j].full)
  <2>1. ASSUME NEW l, NEW x
        PROVE  [th[j] EXCEPT !.pc = l, !.seen = x] =
                   [pc |-> l, seq |-> th[j].seq, dir |-> th[j].dir,
                    page |-> th[j].page, seen |-> x, full |-> th[j].full]
    BY <1>5, SeenRecord
  <2>2. th' = [th EXCEPT ![j] = [pc |-> "pageEnd", seq |-> th[j].seq, dir |-> th[j].dir,
                                 page |-> th[j].page, seen |-> c, full |-> th[j].full]]
    BY <1>2, <2>1, Zenon
  <2> QED BY <2>2, OwnTypes, RecordIsNow DEF PCs
<1>7. \/ c /\ tmp' = tmp
      \/ ~c /\ \E v \in SUBSET Piece :
             /\ tmp' = Put(tmp, d, v)
             /\ d \in DOMAIN tmp => v = tmp[d] \cup {<<j, i>>}
  <2>1. <<j, i>> \in Piece
    BY <1>4 DEF Piece
  <2> QED BY <1>3, <1>5, <2>1 DEF Files
<1>8. Files(tmp') /\ \A x \in Folder : x # d => SameAt(tmp, x)
  BY <1>4, <1>5, <1>7, PutIs DEF SameAt
<1>9. ThreadOK(j)'
  BY <1>1, <1>2, <1>4, <1>6, OwnTypes DEF ThreadOK, SkippedAt, Now
<1>10. PagesOnDisk(j)'
  <2>1. Excused(j)' = Excused(j)
    BY <1>2, <1>6, OwnShared DEF Excused, Now
  <2>2. SUFFICES ASSUME ~Excused(j) PROVE d \in DOMAIN tmp' /\ (~c => tmp'[d] = ({j} \X (1..i)) \ skipped)
    BY <1>2, <1>6, <2>1 DEF PagesOnDisk, PagesLoaded, Now
  <2>3. d \in DOMAIN tmp /\ tmp[d] = ({j} \X (1..(i - 1))) \ skipped
    BY <1>2, <1>4, <2>2, OwnTypes DEF PagesOnDisk, PagesLoaded
  <2>0. <<j, i>> \notin skipped
    BY <1>2, <1>4, OwnTypes DEF ThreadOK, SkippedAt
  <2>4. tmp[d] \cup {<<j, i>>} = ({j} \X (1..i)) \ skipped
    BY <1>4, <2>0, <2>3, AddPage
  <2> QED BY <1>4, <1>5, <1>7, <2>3, <2>4, PutIs
<1>11. "pageEnd" \in Loop
  BY DEF Loop
<1> QED BY <1>1, <1>2, <1>4, <1>6, <1>8, <1>9, <1>10, <1>11, OwnTypes, NoSkips, LoopKeeps DEF IInv

LEMMA CloseFailsKeeps ==
    ASSUME IInv, NEW j \in Job, CloseFails(j)
    PROVE  IInv'
<1> DEFINE d == th[j].dir
<1>1. /\ th[j].pc = "page" /\ j \notin Bodies /\ th[j].page = QueryCnt /\ Goto(j, "pageEnd")
      /\ UNCHANGED <<table, zip, pend, click, abnormal, due>> /\ outside' \in 0..Outside
  BY OwnTypes, DownloadConstants DEF CloseFails, At, Intervene
<1>2. PICK k \in 1..QueryCnt :
          /\ skipped' = skipped \cup ({j} \X (k..QueryCnt))
          /\ tmp' = IF d \in DOMAIN tmp THEN [tmp EXCEPT ![d] = tmp[d] \ ({j} \X (k..QueryCnt))] ELSE tmp
  BY DEF CloseFails
<1>3. /\ th[j].seq # 0 /\ d \in Folder /\ ~th[j].seen /\ th[j].pc \in Loop
      /\ \A p \in 1..QueryCnt : <<j, p>> \notin skipped
  BY <1>1, OwnTypes, NumbersOf DEF ThreadOK, SkippedAt, Past, Ended, Loop
<1>4. Now(j, "pageEnd", QueryCnt, th[j].seen, th[j].full)
  BY <1>1, OwnTypes, GotoIsNow DEF PCs
<1>5. Files(tmp) /\ skipped \subseteq Piece
  BY TypeParts DEF IInv
<1>6. OwnSkips(j)
  BY <1>2, <1>5 DEF OwnSkips, Piece
<1>7. Files(tmp') /\ \A x \in Folder : x # d => SameAt(tmp, x)
  BY <1>2, <1>5 DEF Files, SameAt
<1>8. ThreadOK(j)'
  BY <1>1, <1>3, <1>4, OwnTypes, DownloadConstants DEF ThreadOK, SkippedAt, Now
<1>9. PagesOnDisk(j)'
  <2>1. Excused(j)' = Excused(j)
    BY <1>1, <1>4, OwnShared DEF Excused, Now
  <2>2. SUFFICES ASSUME ~Excused(j)
                 PROVE  d \in DOMAIN tmp' /\ tmp'[d] = ({j} \X (1..QueryCnt)) \ skipped'
    BY <1>4, <2>1 DEF PagesOnDisk, PagesLoaded, Now
  <2>3. d \in DOMAIN tmp /\ tmp[d] = ({j} \X (1..(QueryCnt - 1))) \ skipped
    BY <1>1, <1>3, <2>2, OwnTypes DEF PagesOnDisk, PagesLoaded
  <2>4. tmp'[d] = tmp[d] \ ({j} \X (k..QueryCnt)) /\ d \in DOMAIN tmp'
    BY <1>2, <2>3
  <2>5. (1..(QueryCnt - 1)) \ (k..QueryCnt) = (1..QueryCnt) \ (k..QueryCnt)
    BY DownloadConstants
  <2> QED BY <1>2, <2>3, <2>4, <2>5
<1>10. "pageEnd" \in Loop /\ QueryCnt \in 0..QueryCnt
  BY DownloadConstants DEF Loop
<1> QED BY <1>1, <1>3, <1>4, <1>6, <1>7, <1>8, <1>9, <1>10, OwnTypes, LoopKeeps

LEMMA SkipMessageKeeps ==
    ASSUME IInv, NEW j \in Job, SkipMessage(j)
    PROVE  IInv'
<1> DEFINE d == th[j].dir
           i == th[j].page
<1>1. /\ th[j].pc = "message"
      /\ th' = [th EXCEPT ![j] = [th[j] EXCEPT !.pc = "pageEnd", !.seen = FALSE]]
      /\ skipped' = skipped \cup {<<j, i>>}
      /\ tmp' \in {tmp, Put(tmp, d, IF d \in DOMAIN tmp THEN tmp[d] ELSE {})}
      /\ UNCHANGED <<table, zip, pend, click, abnormal, due>> /\ outside' \in 0..Outside
  BY OwnTypes, DownloadConstants DEF SkipMessage, At, Intervene
<1>2. /\ th[j].seq # 0 /\ d \in Folder /\ ~th[j].seen /\ i \in 1..QueryCnt
      /\ th[j].pc \notin Ended \cup {"idle"} /\ th[j].pc \in Loop
  BY <1>1, OwnTypes, NumbersOf, DownloadConstants DEF ThreadOK, Past, Ended, Loop
<1>3. Files(tmp) /\ skipped \subseteq Piece /\ th[j] \in Thread
  BY TypeParts DEF IInv
<1>4. Now(j, "pageEnd", i, FALSE, th[j].full)
  <2>1. ASSUME NEW l, NEW x
        PROVE  [th[j] EXCEPT !.pc = l, !.seen = x] =
                   [pc |-> l, seq |-> th[j].seq, dir |-> th[j].dir,
                    page |-> th[j].page, seen |-> x, full |-> th[j].full]
    BY <1>3, SeenRecord
  <2>2. th' = [th EXCEPT ![j] = [pc |-> "pageEnd", seq |-> th[j].seq, dir |-> th[j].dir,
                                 page |-> th[j].page, seen |-> FALSE, full |-> th[j].full]]
    BY <1>1, <2>1, Zenon
  <2> QED BY <2>2, OwnTypes, RecordIsNow DEF PCs
<1>5. OwnSkips(j)
  BY <1>1, <1>2, <1>3 DEF OwnSkips, Piece
<1>6. /\ Files(tmp') /\ \A x \in Folder : x # d => SameAt(tmp, x)
      /\ d \in DOMAIN tmp => d \in DOMAIN tmp' /\ tmp'[d] = tmp[d]
  <2>1. CASE tmp' = tmp
    BY <1>3, <2>1 DEF SameAt, Files
  <2>2. CASE tmp' = Put(tmp, d, IF d \in DOMAIN tmp THEN tmp[d] ELSE {})
    <3>1. PICK v \in SUBSET Piece : tmp' = Put(tmp, d, v) /\ (d \in DOMAIN tmp => v = tmp[d])
      BY <1>3, <2>2 DEF Files
    <3> QED BY <1>2, <1>3, <3>1, PutIs DEF SameAt
  <2> QED BY <1>1, <2>1, <2>2
<1>7. ThreadOK(j)'
  BY <1>1, <1>2, <1>4, OwnTypes, DownloadConstants DEF ThreadOK, SkippedAt, Now
<1>8. PagesOnDisk(j)'
  <2>1. Excused(j)' = Excused(j)
    BY <1>1, <1>4, OwnShared DEF Excused, Now
  <2>2. SUFFICES ASSUME ~Excused(j) PROVE d \in DOMAIN tmp' /\ tmp'[d] = ({j} \X (1..i)) \ skipped'
    BY <1>4, <2>1 DEF PagesOnDisk, PagesLoaded, Now
  <2>3. d \in DOMAIN tmp /\ tmp[d] = ({j} \X (1..(i - 1))) \ skipped
    BY <1>1, <1>2, <2>2, OwnTypes DEF PagesOnDisk, PagesLoaded
  <2>4. ({j} \X (1..(i - 1))) \cup {<<j, i>>} = {j} \X (1..i)
    BY <1>2, AddPage
  <2>5. <<j, i>> \notin {j} \X (1..(i - 1))
    BY <1>2
  <2> QED BY <1>1, <1>6, <2>3, <2>4, <2>5
<1>9. "pageEnd" \in Loop
  BY DEF Loop
<1> QED BY <1>1, <1>2, <1>4, <1>5, <1>6, <1>7, <1>8, <1>9, OwnTypes, LoopKeeps

LEMMA PackKeeps ==
    ASSUME IInv, NEW j \in Job, Pack(j)
    PROVE  IInv'
<1> DEFINE d == th[j].dir
<1>1. /\ th[j].pc = "after" /\ ~th[j].seen /\ ~th[j].full /\ d \in DOMAIN tmp
      /\ zip' = Put(zip, d, tmp[d]) /\ Goto(j, "packed")
      /\ UNCHANGED <<table, tmp, skipped, pend, click, abnormal, due>> /\ outside' \in 0..Outside
  BY OwnTypes DEF Pack, At, jobs
<1>2. Now(j, "packed", th[j].page, th[j].seen, th[j].full)
  BY <1>1, OwnTypes, GotoIsNow DEF PCs
<1>3. /\ th[j].seq # 0 /\ d \in Folder /\ th[j].page = QueryCnt
      /\ th[j].pc \notin Ended \cup Past \cup {"idle"}
  BY <1>1, OwnTypes, NumbersOf DEF ThreadOK, Past, Ended, Loop
<1>4. /\ Files(tmp) /\ Files(zip) /\ tmp[d] \in SUBSET Piece
  BY <1>1, TypeParts DEF IInv, Files
<1>5. /\ Files(zip') /\ d \in DOMAIN zip' /\ zip'[d] = tmp[d]
      /\ \A x \in Folder : x # d => SameAt(tmp, x) /\ SameAt(zip, x)
  BY <1>1, <1>3, <1>4, PutIs DEF SameAt
<1>6. Footprint(j)
  <2>1. "packed" \in User
    BY DEF User
  <2>2. OwnSkips(j)
    BY <1>1, NoSkips DEF IInv
  <2> QED BY <1>1, <1>2, <1>3, <1>4, <1>5, <2>1, <2>2, DiskFootprint
<1>7. ThreadOK(j)'
  BY <1>1, <1>2, <1>3, OwnTypes DEF ThreadOK, SkippedAt, Now, Loop
<1>8. PagesOnDisk(j)'
  BY <1>2 DEF PagesOnDisk, Now, Loop
<1>9. SeqShared(j)' = SeqShared(j) /\ Excused(j)' = Excused(j)
  BY <1>1, <1>2, OwnShared DEF Excused, Now
<1>10. ZipWhenPacked(j)'
  <2>0. Whole(j)' = Whole(j)
    BY <1>1 DEF Whole
  <2>1. SUFFICES ASSUME ~Excused(j) PROVE tmp[d] = Whole(j)
    BY <1>2, <1>5, <1>9, <2>0 DEF ZipWhenPacked, ZipWhole, Now
  <2>2. tmp[d] = PagesLoaded(j)
    BY <1>1, <2>1, OwnTypes DEF PagesOnDisk, Loop
  <2> QED BY <1>1, <1>3, <2>2 DEF PagesLoaded, Whole
<1>11. ASSUME NEW s \in DOMAIN table, table[s].by = j PROVE RowOK(s, j)'
  <2>1. RowHasThread(s, j) /\ RowSays(s, j)
    BY <1>11 DEF IInv, JobOK, RowOK
  <2>2. RowHasThread(s, j)'
    BY <1>2, <2>1 DEF RowHasThread, Now
  <2>3. ~SeqShared(j) => table[s].status \notin {"Y", "E"}
    BY <1>3, <2>1 DEF RowSays, Says
  <2>4. RowSays(s, j)'
    BY <1>1, <1>2, <1>9, <2>1, <2>3 DEF RowSays, Says, Now
  <2>5. RowOffers(s, j)'
    BY <1>1, <1>9, <2>3 DEF RowOffers
  <2> QED BY <2>2, <2>4, <2>5 DEF RowOK
<1>12. JobOK(j)'
  BY <1>1, <1>7, <1>8, <1>10, <1>11 DEF JobOK
<1> QED BY <1>1, <1>3, <1>6, <1>12, ThreadKeeps

LEMMA DeleteFolderKeeps ==
    ASSUME IInv, NEW j \in Job, DeleteFolder(j)
    PROVE  IInv'
<1> DEFINE d == th[j].dir
<1>1. /\ th[j].pc = "clean" /\ tmp' = Without(tmp, d) /\ End(j, "done")
      /\ UNCHANGED <<table, zip, skipped, pend, click, abnormal, due>> /\ outside' \in 0..Outside
  BY OwnTypes DEF DeleteFolder, At, jobs
<1>2. PICK f \in BOOLEAN : Now(j, "done", 0, th[j].seen, f)
  BY <1>1, OwnTypes, EndIsNow DEF PCs, Ended
<1>3. th[j].seq # 0 /\ th[j].pc \notin Ended \cup {"idle"} /\ "done" \in Past /\ "done" \in PCs
  BY <1>1, OwnTypes DEF ThreadOK, Past, Ended, PCs
<1>4. /\ Files(tmp') /\ Files(zip') /\ d \notin DOMAIN tmp'
      /\ \A x \in Folder : x # d => SameAt(tmp, x) /\ SameAt(zip, x)
  BY <1>1, TypeParts DEF IInv, Files, Without, SameAt
<1>5. Footprint(j)
  <2>1. DOMAIN table \subseteq Seqs /\ \A s \in DOMAIN table : table[s] \in Row
    BY TypeParts DEF IInv
  <2>2. OwnSkips(j)
    BY <1>1, NoSkips DEF IInv
  <2> QED BY <1>1, <1>2, <1>3, <1>4, <2>1, <2>2 DEF Footprint, Now
<1>6. ThreadOK(j)'
  BY <1>1, <1>2, <1>3, OwnTypes DEF ThreadOK, SkippedAt, Now, Loop
<1>7. PagesOnDisk(j)' /\ ZipWhenPacked(j)'
  BY <1>2 DEF PagesOnDisk, ZipWhenPacked, Now, Loop
<1>8. \A s \in DOMAIN table : Says(table[s].status, th[j].pc, th[j].seen)
                                 => Says(table[s].status, "done", th[j].seen)
  BY <1>1, <1>3 DEF Says
<1>9. \A s \in DOMAIN table' : table'[s].by = j => RowOK(s, j)'
  <2>1. th[j].seen \in BOOLEAN /\ "done" \notin {"idle", "asked", "insert"}
    BY OwnTypes
  <2>2. UNCHANGED <<table, zip, skipped, due>>
    BY <1>1
  <2> QED BY <1>2, <1>3, <1>8, <2>1, <2>2, SilentRows
<1>10. JobOK(j)'
  BY <1>6, <1>7, <1>9 DEF JobOK
<1> QED BY <1>1, <1>3, <1>5, <1>10, ThreadKeeps

LEMMA InserDBKeeps ==
    ASSUME IInv, NEW j \in Job, InserDB(j)
    PROVE  IInv'
<1> DEFINE n == th[j].seq
<1>1. /\ th[j].pc = "insert"
      /\ UNCHANGED <<tmp, zip, skipped, pend, click, abnormal, due>> /\ outside' \in 0..Outside
  BY OwnTypes DEF InserDB, At, disk, jobs
<1>2. /\ n \in Seqs /\ n # 0 /\ th[j].pc \notin Ended \cup Past \cup User \cup {"idle"} /\ ~th[j].seen
      /\ \A s \in DOMAIN table : table[s].by # j
  <2>1. \A s \in DOMAIN table : table[s].by = j => RowHasThread(s, j)
    BY DEF IInv, JobOK, RowOK
  <2> QED BY <1>1, <2>1, OwnTypes, NumbersOf DEF ThreadOK, Ended, Past, User, Loop, RowHasThread
<1>3. CASE n \in DOMAIN table /\ Goto(j, "failed") /\ UNCHANGED table
  <2>1. Now(j, "failed", th[j].page, th[j].seen, th[j].full)
    BY <1>3, OwnTypes, GotoIsNow DEF PCs
  <2>2. "failed" \in Past /\ "failed" \in User /\ "E" \in Statuses
    BY DEF Past, User, Statuses
  <2> QED BY <1>1, <1>2, <1>3, <2>1, <2>2, StopKeeps
<1>4. CASE /\ n \notin DOMAIN table /\ Goto(j, "space")
           /\ table' = Put(table, n, [status |-> "S", by |-> j])
  <2>1. Now(j, "space", th[j].page, th[j].seen, th[j].full)
    BY <1>4, OwnTypes, GotoIsNow DEF PCs
  <2>2. /\ DOMAIN table' = DOMAIN table \cup {n} /\ table'[n] = [status |-> "S", by |-> j]
        /\ \A s \in DOMAIN table : table'[s] = table[s]
    BY <1>4 DEF Put
  <2>3. Footprint(j)
    <3>1. DOMAIN table \subseteq Seqs /\ \A s \in DOMAIN table : table[s] \in Row
      BY TypeParts DEF IInv
    <3>2. [status |-> "S", by |-> j] \in Row /\ Files(tmp) /\ Files(zip)
      BY TypeParts DEF IInv, Row, Live
    <3>3. \A s \in DOMAIN table' :
              /\ table'[s] \in Row
              /\ s # n => s \in DOMAIN table /\ table'[s] = table[s]
              /\ s \in DOMAIN table => table'[s].by = table[s].by
              /\ s \notin DOMAIN table => table'[s].by = j
      BY <1>4, <2>2, <3>1, <3>2
    <3>4. DOMAIN table \subseteq DOMAIN table' /\ DOMAIN table' \subseteq Seqs
      BY <1>2, <2>2, <3>1
    <3>5. Files(tmp') /\ Files(zip') /\ \A x \in Folder : SameAt(tmp, x) /\ SameAt(zip, x)
      BY <1>1, <3>2 DEF Files, SameAt
    <3>6. OwnSkips(j)
      BY <1>1, NoSkips DEF IInv
    <3> QED BY <1>1, <1>2, <2>1, <3>3, <3>4, <3>5, <3>6 DEF Footprint, Now
  <2>4. ThreadOK(j)'
    BY <1>1, <1>2, <2>1, OwnTypes DEF ThreadOK, SkippedAt, Now, Loop
  <2>5. PagesOnDisk(j)' /\ ZipWhenPacked(j)'
    BY <2>1 DEF PagesOnDisk, ZipWhenPacked, Now, Loop
  <2>6. ASSUME NEW s \in DOMAIN table', table'[s].by = j PROVE RowOK(s, j)'
    <3>1. s = n /\ table'[s].status = "S"
      BY <1>2, <2>2, <2>6
    <3>2. RowHasThread(s, j)'
      BY <2>1, <3>1 DEF RowHasThread, Now
    <3>3. RowSays(s, j)' /\ RowOffers(s, j)'
      BY <1>2, <2>1, <3>1 DEF RowSays, RowOffers, Says, Now
    <3> QED BY <3>2, <3>3 DEF RowOK
  <2>7. JobOK(j)'
    BY <2>4, <2>5, <2>6 DEF JobOK
  <2> QED BY <1>1, <1>2, <2>3, <2>7, ThreadKeeps
<1> QED BY <1>3, <1>4 DEF InserDB

(* The request before its row. *)

LEMMA CheckKeeps ==
    ASSUME IInv, NEW j \in Job, CheckDownloadBatchExist(j)
    PROVE  IInv'
<1>1. /\ th[j].pc = "idle" /\ Goto(j, "asked")
      /\ \A s \in DOMAIN table : Condition[table[s].by] = Condition[j] => ~LiveRow(s)
      /\ pend' = [pend EXCEPT ![j] =
             {k \in Job : Alive(k) /\ \A s \in DOMAIN table : table[s].by = k => ~LiveRow(s)}]
      /\ UNCHANGED <<table, tmp, zip, skipped, click, abnormal, due>> /\ outside' \in 0..Outside
  BY OwnTypes DEF CheckDownloadBatchExist, At, disk, jobs
<1>2. Now(j, "asked", th[j].page, th[j].seen, th[j].full)
  BY <1>1, OwnTypes, GotoIsNow DEF PCs
<1>3. /\ "asked" \in PCs \ Past /\ "idle" \notin Past \cup User \cup Ended
      /\ "asked" \notin Loop \cup {"packed"} /\ "E" \in Statuses
  BY DEF PCs, Past, User, Loop, Ended, Statuses
<1>4. pend' \in [Job -> SUBSET Job] /\ \A k \in Job \ {j} : pend'[k] = pend[k]
  BY <1>1, TypeParts DEF IInv
<1>5. Footprint(j)
  BY <1>1, <1>2, <1>3, OwnTypes, PureFootprint
<1>6. ThreadOK(j)'
  BY <1>1, <1>2, <1>3, OwnTypes DEF ThreadOK, SkippedAt, Now, Past, Loop, Ended
<1>7. PagesOnDisk(j)' /\ ZipWhenPacked(j)'
  BY <1>2, <1>3 DEF PagesOnDisk, ZipWhenPacked, Now
<1>8. \A s \in DOMAIN table' : table'[s].by # j
  BY <1>1 DEF IInv, JobOK, RowOK, RowHasThread
<1>9. \A k \in Job : JobOK(k)'
  BY <1>5, <1>6, <1>7, <1>8, OthersKeep DEF JobOK
<1>10. \A k \in Job : Over(k) => Over(k)'
  BY <1>4, <1>5, RestKeeps
<1>11. ASSUME NEW k \in Job, k # j, Condition[k] = Condition[j], th[k].pc # "idle"
       PROVE  k \in pend'[j] \/ Over(k)
  <2>1. \A s \in DOMAIN table : table[s].by = k => ~LiveRow(s)
    BY <1>1, <1>11
  <2>2. CASE th[k].pc \in Ended
    BY <2>1, <2>2 DEF Over
  <2>3. CASE th[k].pc \notin Ended
    <3>1. pend'[j] = {i \in Job : Alive(i) /\ \A s \in DOMAIN table : table[s].by = i => ~LiveRow(s)}
      BY <1>1, TypeParts DEF IInv
    <3>2. Alive(k)
      BY <1>11, <2>3 DEF Alive
    <3> QED BY <2>1, <3>1, <3>2
  <2> QED BY <2>2, <2>3
<1>12. ASSUME NEW k \in Job, NEW l \in Job PROVE Checked(k, l)'
  <2>1. \A i \in Job \ {j} : th'[i] = th[i]
    BY <1>2 DEF Now
  <2>2. SUFFICES ASSUME k # l, Condition[k] = Condition[l], th'[k].pc # "idle", th'[l].pc # "idle"
                 PROVE  k \in pend'[l] \/ l \in pend'[k] \/ Over(k)' \/ Over(l)'
    BY DEF Checked
  <2>3. CASE k = j
    BY <1>10, <1>11, <2>1, <2>2, <2>3
  <2>4. CASE l = j
    BY <1>10, <1>11, <2>1, <2>2, <2>4
  <2>5. CASE k # j /\ l # j
    <3>1. Checked(k, l) /\ th[k].pc # "idle" /\ th[l].pc # "idle"
      BY <2>1, <2>2, <2>5 DEF IInv
    <3> QED BY <1>4, <1>10, <2>2, <2>5, <3>1 DEF Checked
  <2> QED BY <2>3, <2>4, <2>5
<1> QED BY <1>4, <1>5, <1>9, <1>12, RestKeeps DEF IInv

LEMMA StartRecord ==
    ASSUME NEW r \in Thread, NEW l, NEW x, NEW y
    PROVE  [r EXCEPT !.pc = l, !.seq = x, !.dir = y] =
               [pc |-> l, seq |-> x, dir |-> y, page |-> r.page, seen |-> r.seen, full |-> r.full]
<1> DEFINE a == [r EXCEPT !.pc = l]
           b == [a EXCEPT !.seq = x]
           c == [b EXCEPT !.dir = y]
<1>1. a = [pc |-> l, seq |-> r.seq, dir |-> r.dir, page |-> r.page, seen |-> r.seen, full |-> r.full]
  BY DEF Thread
<1>2. b = [pc |-> l, seq |-> x, dir |-> r.dir, page |-> r.page, seen |-> r.seen, full |-> r.full]
  <2> HIDE DEF a
  <2> QED BY <1>1
<1>3. c = [pc |-> l, seq |-> x, dir |-> y, page |-> r.page, seen |-> r.seen, full |-> r.full]
  <2> HIDE DEF b
  <2> QED BY <1>2
<1>4. [r EXCEPT !.pc = l, !.seq = x, !.dir = y] = c
  OBVIOUS
<1> QED BY <1>3, <1>4

(* Two threads that share a number share it for ever. *)
LEMMA GetMaxKeeps ==
    ASSUME IInv, NEW j \in Job, GetMaxDownSeq(j)
    PROVE  IInv'
<1>1. PICK s \in Seqs, d \in Folder :
          th' = [th EXCEPT ![j] = [th[j] EXCEPT !.pc = "insert", !.seq = s, !.dir = d]]
  BY DEF GetMaxDownSeq
<1>2. th[j].pc = "asked" /\ UNCHANGED <<table, tmp, zip, skipped, pend, click, abnormal, due, outside>>
  BY DEF GetMaxDownSeq, At, disk, jobs
<1>3. th \in [Job -> Thread] /\ th[j].seq = 0 /\ th[j].dir = 0 /\ ~th[j].seen
  BY <1>2, OwnTypes, TypeParts DEF IInv, ThreadOK, Past, Ended
<1>4. /\ th' \in [Job -> Thread] /\ \A k \in Job \ {j} : th'[k] = th[k]
      /\ th'[j].pc = "insert" /\ th'[j].seq = s /\ th'[j].dir = d /\ ~th'[j].seen
  <2>1. ASSUME NEW l, NEW x, NEW y
        PROVE  [th[j] EXCEPT !.pc = l, !.seq = x, !.dir = y] =
                   [pc |-> l, seq |-> x, dir |-> y, page |-> th[j].page,
                    seen |-> th[j].seen, full |-> th[j].full]
    BY <1>3, StartRecord
  <2>2. th' = [th EXCEPT ![j] = [pc |-> "insert", seq |-> s, dir |-> d, page |-> th[j].page,
                                 seen |-> th[j].seen, full |-> th[j].full]]
    BY <1>1, <2>1, Zenon
  <2>3. [pc |-> "insert", seq |-> s, dir |-> d, page |-> th[j].page,
         seen |-> th[j].seen, full |-> th[j].full] \in Thread
    BY <1>3, OwnTypes, Numbers DEF Thread
  <2> QED BY <1>3, <2>2, <2>3
<1>5. ASSUME NEW k \in Job \ {j}, th[k].seq # 0
      PROVE  (SeqShared(k) => SeqShared(k)') /\ (DirShared(k) => DirShared(k)')
  <2>1. th[k].dir # 0
    BY <1>5, OwnTypes DEF ThreadOK
  <2> QED BY <1>3, <1>4, <1>5, <2>1 DEF SeqShared, DirShared
<1>6. \A s1 \in DOMAIN table : table[s1].by # j /\ table[s1].by \in Job /\ th[table[s1].by].seq = s1 /\ s1 # 0
  BY <1>2, TypeParts, Numbers DEF IInv, JobOK, RowOK, RowHasThread, Row
<1>7. TypeOK'
  BY <1>2, <1>4 DEF IInv, TypeOK, Thread
<1>8. ASSUME NEW k \in Job, k # j PROVE JobOK(k)'
  <2>1. JobOK(k) /\ th'[k] = th[k]
    BY <1>4, <1>8 DEF IInv
  <2>2. th[k].pc \in Loop \cup {"packed"} => (Excused(k) => Excused(k)')
    BY <1>2, <1>5, <1>8, <2>1, NumbersOf DEF Excused
  <2>3. ThreadOK(k)'
    BY <1>2, <2>1 DEF JobOK, ThreadOK, SkippedAt
  <2>4. PagesOnDisk(k)' /\ ZipWhenPacked(k)'
    <3>1. (PagesLoaded(k))' = PagesLoaded(k) /\ ZipWhole(k)' = ZipWhole(k)
      BY <1>2, <2>1 DEF PagesLoaded, ZipWhole, Whole
    <3> QED BY <1>2, <2>1, <2>2, <3>1 DEF JobOK, PagesOnDisk, ZipWhenPacked
  <2>5. ASSUME NEW s1 \in DOMAIN table, table[s1].by = k PROVE RowOK(s1, k)'
    <3>1. RowOK(s1, k) /\ (SeqShared(k) => SeqShared(k)') /\ (DirShared(k) => DirShared(k)')
      BY <1>5, <1>6, <1>8, <2>1, <2>5 DEF JobOK
    <3>2. RowHasThread(s1, k)'
      BY <2>1, <3>1 DEF RowOK, RowHasThread
    <3>3. RowSays(s1, k)'
      BY <1>2, <2>1, <3>1 DEF RowOK, RowSays, Says
    <3>4. RowOffers(s1, k)'
      BY <1>2, <2>1, <3>1 DEF RowOK, RowOffers, ZipWhole, Whole
    <3> QED BY <3>2, <3>3, <3>4 DEF RowOK
  <2> QED BY <1>2, <2>3, <2>4, <2>5 DEF JobOK
<1>9. JobOK(j)'
  <2>1. ThreadOK(j)'
    BY <1>2, <1>4, OwnTypes, Numbers DEF ThreadOK, SkippedAt, Loop
  <2>2. PagesOnDisk(j)' /\ ZipWhenPacked(j)'
    BY <1>4 DEF PagesOnDisk, ZipWhenPacked, Loop
  <2> QED BY <1>2, <1>6, <2>1, <2>2 DEF JobOK
<1>10. ASSUME NEW e \in due' PROVE DueIsOver(e)'
  <2>1. e \in Due /\ DueIsOver(e)
    BY <1>2, <1>10, TypeParts DEF IInv
  <2>2. PICK k \in Job : /\ th[k].seq = e.seq /\ th[k].dir = e.dir
                         /\ SeqShared(k) \/ (th[k].pc \in Past /\ ~th[k].seen)
    BY <2>1 DEF DueIsOver
  <2>3. k # j /\ th[k].seq # 0
    BY <1>3, <2>1, <2>2, Numbers DEF Due
  <2> QED BY <1>4, <1>5, <2>2, <2>3 DEF DueIsOver
<1>11. ASSUME NEW x \in DOMAIN tmp' PROVE FolderUsed(x)'
  <2>1. PICK k \in Job : th[k].dir = x /\ th[k].pc \in User
    BY <1>2, <1>11 DEF IInv, FolderUsed
  <2> QED BY <1>2, <1>4, <2>1 DEF FolderUsed, User, Loop
<1>12. ASSUME NEW k \in Job, Over(k) PROVE Over(k)'
  <2>1. k # j
    BY <1>2, <1>12 DEF Over, Ended
  <2> QED BY <1>2, <1>4, <1>5, <1>6, <1>12, <2>1 DEF Over, LiveRow
<1>13. ASSUME NEW k \in Job, NEW l \in Job PROVE Checked(k, l)'
  <2>1. \A i \in Job : th'[i].pc # "idle" => th[i].pc # "idle"
    BY <1>2, <1>4
  <2> QED BY <1>2, <1>12, <2>1 DEF IInv, Checked
<1> QED BY <1>7, <1>8, <1>9, <1>10, <1>11, <1>13 DEF IInv

-----------------------------------------------------------------------------
(* The steps of the administrator, the scheduled jobs and the shutdown: rows *)
(* go away or get a status from outside, and zips of expired rows go away.   *)
Outer ==
    /\ UNCHANGED <<th, pend, tmp, skipped>>
    /\ DOMAIN table' \subseteq DOMAIN table
    /\ \A s \in DOMAIN table' :
           /\ table'[s] \in Row /\ table'[s].by = table[s].by
           /\ \/ table'[s].status = table[s].status
              \/ table'[s].status \in Stopped
              \/ /\ table'[s].status = "X"
                 /\ SeqShared(table[s].by) \/ ~th[table[s].by].seen
    /\ Files(zip')
    /\ \A j \in Job : th[j].pc = "packed" /\ ~Excused(j) => (ZipWhole(j) => ZipWhole(j)')
    /\ \A s \in DOMAIN table', j \in Job : table'[s].by = j => RowOffers(s, j)'
    /\ click' \subseteq {"cancel", "remove"} \X Seqs /\ abnormal' \subseteq Seqs
    /\ outside' \in 0..Outside /\ due' \subseteq Due
    /\ \A e \in due' : DueIsOver(e)

LEMMA OuterKeeps ==
    ASSUME IInv, Outer
    PROVE  IInv'
<1>1. UNCHANGED <<th, pend, tmp, skipped>> /\ TypeOK
  BY DEF IInv, Outer
<1>2. TypeOK'
  <2>1. /\ DOMAIN table \subseteq Seqs /\ th \in [Job -> Thread]
        /\ pend \in [Job -> SUBSET Job] /\ Files(tmp)
    BY TypeParts DEF IInv
  <2>2. /\ DOMAIN table' \subseteq Seqs /\ \A s \in DOMAIN table' : table'[s] \in Row
        /\ th' \in [Job -> Thread] /\ pend' \in [Job -> SUBSET Job] /\ Files(tmp') /\ Files(zip')
        /\ click' \subseteq {"cancel", "remove"} \X Seqs /\ abnormal' \subseteq Seqs
        /\ outside' \in 0..Outside /\ due' \subseteq Due
    BY <2>1 DEF Outer, Files
  <2>3. skipped' \subseteq Piece
    BY <1>1, TypeParts
  <2> QED BY <2>2, <2>3 DEF TypeOK, Row, Thread, Due, Files
<1>3. \A j \in Job : SeqShared(j)' = SeqShared(j) /\ DirShared(j)' = DirShared(j)
  BY <1>1 DEF SeqShared, DirShared
<1>4. ASSUME NEW j \in Job PROVE JobOK(j)'
  <2>1. JobOK(j) /\ (Excused(j) => Excused(j)')
    BY <1>1, <1>3 DEF IInv, Excused, Outer
  <2>2. ThreadOK(j)'
    BY <1>1, <2>1 DEF JobOK, ThreadOK, SkippedAt
  <2>3. PagesOnDisk(j)'
    BY <1>1, <2>1 DEF JobOK, PagesOnDisk, PagesLoaded
  <2>4. ZipWhenPacked(j)'
    BY <1>1, <2>1 DEF JobOK, ZipWhenPacked, Outer
  <2>5. ASSUME NEW s \in DOMAIN table', table'[s].by = j PROVE RowOK(s, j)'
    <3>1. s \in DOMAIN table /\ table[s].by = j
      BY <2>5 DEF Outer
    <3>2. RowOK(s, j)
      BY <2>1, <3>1 DEF JobOK
    <3>3. RowHasThread(s, j)' /\ RowOffers(s, j)'
      BY <1>1, <2>5, <3>2 DEF RowOK, RowHasThread, Outer
    <3>4. \/ table'[s].status = table[s].status
          \/ table'[s].status \in Stopped
          \/ table'[s].status = "X" /\ (SeqShared(j) \/ ~th[j].seen)
      BY <2>5, <3>1 DEF Outer
    <3>5. RowSays(s, j)'
      BY <1>1, <1>3, <3>2, <3>4 DEF RowOK, RowSays, Says, Live, Stopped
    <3> QED BY <3>3, <3>5 DEF RowOK
  <2> QED BY <2>2, <2>3, <2>4, <2>5 DEF JobOK
<1>5. \A e \in due' : DueIsOver(e)'
  BY <1>1, <1>3 DEF Outer, DueIsOver
<1>6. \A d \in DOMAIN tmp' : FolderUsed(d)'
  BY <1>1 DEF IInv, FolderUsed
<1>7. ASSUME NEW j \in Job, Over(j) PROVE Over(j)'
  <2>1. ASSUME NEW s \in DOMAIN table', table'[s].by = j, LiveRow(s)' PROVE LiveRow(s) /\ table[s].by = j
    BY <2>1 DEF Outer, LiveRow, Live, Stopped
  <2> QED BY <1>1, <1>3, <1>7, <2>1 DEF Over, LiveRow, Outer
<1>8. \A j, k \in Job : Checked(j, k)'
  BY <1>1, <1>7 DEF IInv, Checked
<1> QED BY <1>2, <1>4, <1>5, <1>6, <1>8 DEF IInv

(* What a row offers is the same if the zips and the list of the expiry job  *)
(* are, and the row does not become Y.                                       *)
LEMMA OffersKept ==
    ASSUME IInv, UNCHANGED <<th, zip, skipped>>, due \subseteq due', DOMAIN table' \subseteq DOMAIN table,
           \A s \in DOMAIN table' : /\ table'[s].by = table[s].by
                                    /\ table'[s].status = "Y" => table[s].status = "Y"
    PROVE  /\ \A s \in DOMAIN table', j \in Job : table'[s].by = j => RowOffers(s, j)'
           /\ \A j \in Job : ZipWhole(j)' = ZipWhole(j)
           /\ Files(zip')
<1>1. ASSUME NEW j \in Job PROVE /\ ZipWhole(j)' = ZipWhole(j)
                                 /\ SeqShared(j)' = SeqShared(j) /\ DirShared(j)' = DirShared(j)
  BY DEF ZipWhole, Whole, SeqShared, DirShared
<1>2. ASSUME NEW s \in DOMAIN table', NEW j \in Job, table'[s].by = j PROVE RowOffers(s, j)'
  <2>1. RowOffers(s, j)
    BY <1>2 DEF IInv, JobOK, RowOK
  <2> QED BY <1>1, <1>2, <2>1 DEF RowOffers
<1> QED BY <1>1, <1>2, TypeParts DEF IInv, Files

LEMMA OuterTypes ==
    ASSUME IInv
    PROVE  /\ DOMAIN table \subseteq Seqs /\ \A s \in DOMAIN table : table[s] \in Row
           /\ click \subseteq {"cancel", "remove"} \X Seqs /\ abnormal \subseteq Seqs
           /\ outside \in 0..Outside /\ due \subseteq Due /\ \A e \in due : DueIsOver(e)
BY TypeParts DEF IInv

LEMMA StatusOuter ==
    ASSUME IInv, NEW s, NEW v \in Stopped, table' = Written(s, v), UNCHANGED <<th, pend, tmp, zip, skipped, due>>,
           click' \subseteq click, abnormal' \subseteq abnormal, outside' = outside
    PROVE  IInv'
<1>1. /\ DOMAIN table' = DOMAIN table
      /\ \A t \in DOMAIN table : /\ table'[t] \in Row /\ table'[t].by = table[t].by
                                 /\ table'[t].status = table[t].status \/ table'[t].status \in Stopped
  <2>1. v \in Live \cup Stopped \cup {"Y", "E", "X"} /\ TypeOK
    BY DEF IInv
  <2> QED BY <2>1, WrittenIs
<1>2. \A t \in DOMAIN table' : table'[t].status = "Y" => table[t].status = "Y"
  BY <1>1 DEF Stopped
<1>3. Outer
  BY <1>1, <1>2, OffersKept, OuterTypes DEF Outer
<1> QED BY <1>3, OuterKeeps

LEMMA AdministratorKeeps ==
    ASSUME IInv, NEW s \in Seqs,
           GetDownBatchList(s) \/ CancelDownFile(s) \/ RemoveDownInfoData(s) \/ CancelUnkown(s)
    PROVE  IInv'
<1>1. CASE GetDownBatchList(s)
  <2>1. /\ UNCHANGED <<table, th, pend, tmp, zip, skipped, abnormal, due>>
        /\ click' \subseteq {"cancel", "remove"} \X Seqs /\ outside' \in 0..Outside
    BY <1>1, OuterTypes, DownloadConstants DEF GetDownBatchList, Intervene, disk
  <2>2. Outer
    BY <2>1, OffersKept, OuterTypes DEF Outer
  <2> QED BY <2>2, OuterKeeps
<1>2. CASE CancelDownFile(s)
  BY <1>2, StatusOuter DEF CancelDownFile, disk, jobs, Stopped
<1>3. CASE RemoveDownInfoData(s)
  <2>1. /\ UNCHANGED <<th, pend, tmp, zip, skipped, abnormal, due, outside>>
        /\ click' \subseteq {"cancel", "remove"} \X Seqs
    BY <1>3, OuterTypes DEF RemoveDownInfoData, disk, jobs
  <2>2. DOMAIN table' \subseteq DOMAIN table /\ \A t \in DOMAIN table' : table'[t] = table[t]
    BY <1>3 DEF RemoveDownInfoData, Without
  <2>3. Outer
    BY <2>1, <2>2, OffersKept, OuterTypes DEF Outer
  <2> QED BY <2>3, OuterKeeps
<1>4. CASE CancelUnkown(s)
  BY <1>4, StatusOuter DEF CancelUnkown, disk, Stopped
<1> QED BY <1>1, <1>2, <1>3, <1>4

LEMMA ShutdownKeeps ==
    ASSUME IInv, ShutdownDownloadBatch
    PROVE  IInv'
<1>1. UNCHANGED <<th, pend, tmp, zip, skipped, click, abnormal, due>> /\ outside' \in 0..Outside
  BY OuterTypes, DownloadConstants DEF ShutdownDownloadBatch, Intervene, disk
<1>2. /\ DOMAIN table' = DOMAIN table
      /\ \A s \in DOMAIN table :
             table'[s] = IF LiveRow(s) THEN [table[s] EXCEPT !.status = "H"] ELSE table[s]
  BY DEF ShutdownDownloadBatch
<1>3. \A s \in DOMAIN table : /\ table'[s] \in Row /\ table'[s].by = table[s].by
                              /\ table'[s].status = table[s].status \/ table'[s].status = "H"
  BY <1>2, OuterTypes DEF Row, Stopped
<1>4. Outer
  BY <1>1, <1>2, <1>3, OffersKept, OuterTypes DEF Outer, Stopped
<1> QED BY <1>4, OuterKeeps

LEMMA MonitorKeeps ==
    ASSUME IInv, NEW S \in SUBSET Seqs, GetDownloadBatchIngList(S)
    PROVE  IInv'
<1>1. /\ UNCHANGED <<table, th, pend, tmp, zip, skipped, click, due>> /\ outside' \in 0..Outside
      /\ abnormal' \subseteq Seqs
  BY OuterTypes, DownloadConstants DEF GetDownloadBatchIngList, Intervene, disk
<1>2. Outer
  BY <1>1, OffersKept, OuterTypes DEF Outer
<1> QED BY <1>2, OuterKeeps

LEMMA ListKeeps ==
    ASSUME IInv, GetExportFileExpireData
    PROVE  IInv'
<1>1. /\ UNCHANGED <<table, th, pend, tmp, zip, skipped, click, abnormal>> /\ outside' \in 0..Outside
      /\ due = {}
  BY OuterTypes, DownloadConstants DEF GetExportFileExpireData, Intervene, disk
<1>2. ASSUME NEW e \in due' PROVE e \in Due /\ DueIsOver(e)
  <2>1. PICK s \in DOMAIN table : /\ table[s].status = "Y"
                                  /\ e = [seq |-> s, dir |-> th[table[s].by].dir, gone |-> FALSE]
    BY <1>2 DEF GetExportFileExpireData
  <2>2. PICK j \in Job : table[s].by = j
    BY OuterTypes DEF Row
  <2>3. RowHasThread(s, j) /\ RowSays(s, j)
    BY <2>2 DEF IInv, JobOK, RowOK
  <2>4. s \in Seqs /\ th[j].seq = s /\ th[j].dir \in Folder
    BY <2>3, OuterTypes, NumbersOf, Numbers DEF RowHasThread
  <2>5. e \in Due /\ e.seq = s /\ e.dir = th[j].dir
    BY <2>1, <2>2, <2>4 DEF Due
  <2>6. SeqShared(j) \/ (th[j].pc \in Past /\ ~th[j].seen)
    BY <2>1, <2>3 DEF RowSays, Says, Stopped
  <2> QED BY <2>4, <2>5, <2>6 DEF DueIsOver
<1>3. Outer
  BY <1>1, <1>2, OffersKept, OuterTypes DEF Outer
<1> QED BY <1>3, OuterKeeps

LEMMA GoneRecord ==
    ASSUME NEW e \in Due, NEW f \in BOOLEAN
    PROVE  /\ [e EXCEPT !.gone = f] \in Due
           /\ [e EXCEPT !.gone = f].seq = e.seq /\ [e EXCEPT !.gone = f].dir = e.dir
BY DEF Due

(* A zip that the expiry job deletes is offered by no row it has not listed, *)
(* and no thread has just packed it, unless its folder is shared.            *)
LEMMA DeleteKeeps ==
    ASSUME IInv, NEW e \in due, DeleteExpireFile(e)
    PROVE  IInv'
<1>1. /\ UNCHANGED <<table, th, pend, tmp, skipped, click, abnormal, outside>>
      /\ zip' = Without(zip, e.dir)
      /\ due' = (due \ {e}) \cup {[e EXCEPT !.gone = TRUE]}
  BY DEF DeleteExpireFile
<1>2. PICK g : /\ due' = (due \ {e}) \cup {g} /\ g \in Due
               /\ g.seq = e.seq /\ g.dir = e.dir
  <2>1. \A f \in BOOLEAN : /\ [e EXCEPT !.gone = f] \in Due
                           /\ [e EXCEPT !.gone = f].seq = e.seq /\ [e EXCEPT !.gone = f].dir = e.dir
    BY OuterTypes, GoneRecord
  <2>2. \E f \in BOOLEAN : due' = (due \ {e}) \cup {[e EXCEPT !.gone = f]}
    BY <1>1
  <2> QED BY <2>1, <2>2
<1>3. PICK i \in Job : /\ th[i].seq = e.seq /\ th[i].dir = e.dir
                       /\ SeqShared(i) \/ (th[i].pc \in Past /\ ~th[i].seen)
  BY DEF IInv, DueIsOver
<1>4. ASSUME NEW j \in Job, ~DirShared(j), j # i \/ th[j].dir # e.dir, ZipWhole(j) PROVE ZipWhole(j)'
  <2>1. th[j].dir # e.dir
    BY <1>3, <1>4 DEF DirShared
  <2> QED BY <1>1, <1>4, <2>1 DEF ZipWhole, Without, Whole
<1>5. Files(zip')
  <2>1. Files(zip)
    BY TypeParts DEF IInv
  <2> QED BY <1>1, <2>1 DEF Files, Without
<1>6. ASSUME NEW j \in Job, th[j].pc = "packed", ~Excused(j), ZipWhole(j) PROVE ZipWhole(j)'
  <2>1. "packed" \notin Past
    BY DEF Past, Ended
  <2>2. ~SeqShared(j) /\ ~DirShared(j)
    BY <1>6 DEF Excused
  <2>3. j # i
    BY <1>3, <1>6, <2>1, <2>2
  <2> QED BY <1>4, <1>6, <2>2, <2>3
<1>7. ASSUME NEW s \in DOMAIN table', NEW j \in Job, table'[s].by = j PROVE RowOffers(s, j)'
  <2>1. RowOffers(s, j) /\ th[j].seq = s
    BY <1>1, <1>7 DEF IInv, JobOK, RowOK, RowHasThread
  <2>2. SUFFICES ASSUME table[s].status = "Y", ~SeqShared(j), ~DirShared(j), \A e1 \in due' : e1.seq # s
                 PROVE  ZipWhole(j)'
    BY <1>1 DEF RowOffers, SeqShared, DirShared
  <2>3. e.seq # s /\ \A e1 \in due : e1.seq # s
    BY <1>2, <2>2
  <2>4. ZipWhole(j) /\ j # i
    BY <1>3, <2>1, <2>2, <2>3 DEF RowOffers
  <2> QED BY <1>4, <2>2, <2>4
<1>8. \A e1 \in due' : e1 \in Due /\ DueIsOver(e1)
  <2>1. DueIsOver(g)
    BY <1>2, <1>3 DEF DueIsOver
  <2> QED BY <1>2, <2>1, OuterTypes
<1>9. Outer
  BY <1>1, <1>5, <1>6, <1>7, <1>8, OuterTypes DEF Outer
<1> QED BY <1>9, OuterKeeps

LEMMA MarkKeeps ==
    ASSUME IInv, NEW e \in due, MarkExpired(e)
    PROVE  IInv'
<1>1. /\ UNCHANGED <<th, pend, tmp, zip, skipped, click, abnormal, outside>>
      /\ table' = Written(e.seq, "X")
      /\ due' = due \ {e}
  BY DEF MarkExpired, disk
<1>2. /\ DOMAIN table' = DOMAIN table
      /\ \A t \in DOMAIN table : /\ table'[t] \in Row /\ table'[t].by = table[t].by
                                 /\ t # e.seq => table'[t] = table[t]
                                 /\ t = e.seq => table'[t].status = "X"
  <2>1. TypeOK
    BY DEF IInv
  <2> QED BY <1>1, <2>1, WrittenIs
<1>3. PICK i \in Job : /\ th[i].seq = e.seq /\ th[i].dir = e.dir
                       /\ SeqShared(i) \/ (th[i].pc \in Past /\ ~th[i].seen)
  BY DEF IInv, DueIsOver
<1>4. ASSUME e.seq \in DOMAIN table
      PROVE  SeqShared(table[e.seq].by) \/ ~th[table[e.seq].by].seen
  <2>1. PICK j \in Job : table[e.seq].by = j
    BY <1>4, OuterTypes DEF Row
  <2>2. th[j].seq = e.seq
    BY <1>4, <2>1 DEF IInv, JobOK, RowOK, RowHasThread
  <2> QED BY <1>3, <2>1, <2>2 DEF SeqShared
<1>5. Files(zip') /\ \A j \in Job : ZipWhole(j)' = ZipWhole(j)
  BY <1>1, TypeParts DEF IInv, Files, ZipWhole, Whole
<1>6. ASSUME NEW s \in DOMAIN table', NEW j \in Job, table'[s].by = j PROVE RowOffers(s, j)'
  <2>1. CASE s = e.seq
    BY <1>2, <2>1 DEF RowOffers
  <2>2. CASE s # e.seq
    <3>1. RowOffers(s, j) /\ table'[s] = table[s]
      BY <1>2, <1>6, <2>2 DEF IInv, JobOK, RowOK
    <3> QED BY <1>1, <1>5, <2>2, <3>1 DEF RowOffers, SeqShared, DirShared
  <2> QED BY <2>1, <2>2
<1>7. Outer
  BY <1>1, <1>2, <1>4, <1>5, <1>6, OuterTypes DEF Outer
<1> QED BY <1>7, OuterKeeps

LEMMA StutterKeeps ==
    ASSUME IInv, UNCHANGED vars
    PROVE  IInv'
<1>1. UNCHANGED <<table, th, pend, tmp, zip, skipped, click, abnormal, due, outside>>
  BY DEF vars
<1>2. Outer
  BY <1>1, OffersKept, OuterTypes DEF Outer
<1> QED BY <1>2, OuterKeeps

-----------------------------------------------------------------------------
LEMMA InitIInv ==
    ASSUME Init
    PROVE  IInv
<1>1. /\ table = Empty /\ tmp = Empty /\ zip = Empty /\ skipped = {} /\ DOMAIN Empty = {}
      /\ click = {} /\ abnormal = {} /\ due = {} /\ outside = 0
      /\ pend = [j \in Job |-> {}] /\ th = [j \in Job |-> Start]
  BY DEF Init, Empty
<1>2. Start \in Thread
  BY Numbers, DownloadConstants DEF Start, Thread
<1>3. TypeOK
  <2>1. th \in [Job -> Thread] /\ pend \in [Job -> SUBSET Job] /\ outside \in 0..Outside
    BY <1>1, <1>2, DownloadConstants
  <2> QED BY <1>1, <2>1, TypeParts DEF Files
<1>4. ASSUME NEW j \in Job PROVE JobOK(j)
  <2>1. th[j].pc = "idle" /\ th[j].seq = 0 /\ th[j].dir = 0 /\ ~th[j].seen
    BY <1>1 DEF Start
  <2> QED BY <1>1, <2>1 DEF JobOK, ThreadOK, PagesOnDisk, ZipWhenPacked, Loop
<1>5. \A j, k \in Job : Checked(j, k)
  BY <1>1 DEF Checked, Start
<1> QED BY <1>1, <1>3, <1>4, <1>5 DEF IInv

LEMMA NextKeeps ==
    ASSUME IInv, [Next]_vars
    PROVE  IInv'
<1>1. ASSUME NEW j \in Job,
             CheckDownloadBatchExist(j) \/ Step(j) \/ CloseFails(j) \/ SkipMessage(j) \/ Throw(j) \/ Die(j)
      PROVE  IInv'
  BY <1>1, CheckKeeps, GetMaxKeeps, InserDBKeeps, SpaceCheckKeeps, LoadPageKeeps, DownloadMessageKeeps,
     CloseFailsKeeps, SkipMessageKeeps,
     PageEndKeeps, UpdateIngKeeps, PackKeeps, UpdateSucessKeeps, GiveUpKeeps, DeleteFolderKeeps,
     FolderMissingKeeps, UpdateErrorKeeps, ThrowKeeps, DieKeeps DEF Step
<1>2. ASSUME NEW s \in Seqs,
             GetDownBatchList(s) \/ CancelDownFile(s) \/ RemoveDownInfoData(s) \/ CancelUnkown(s)
      PROVE  IInv'
  BY <1>2, AdministratorKeeps
<1>3. ASSUME NEW e \in due, DeleteExpireFile(e) \/ MarkExpired(e)
      PROVE  IInv'
  BY <1>3, DeleteKeeps, MarkKeeps
<1> QED BY <1>1, <1>2, <1>3, ShutdownKeeps, MonitorKeeps, ListKeeps, StutterKeeps DEF Next

LEMMA SpecIInv == Spec => []IInv
<1>1. Init => IInv
  BY InitIInv
<1>2. IInv /\ [Next]_vars => IInv'
  BY NextKeeps
<1> QED BY <1>1, <1>2, PTL DEF Spec

(* Whatever the administrator, the monitor, the expiry job, a shutdown, an   *)
(* exception or a death does in between, and for any number of exports and   *)
(* pages: a row offered for download has exactly the pages of its export in  *)
(* its zip, but for the named accidents, and no folder is left that nobody   *)
(* works in, but for the folders of exceptions and deaths; and no thread     *)
(* goes past the last page.                                                  *)
THEOREM WholeFiles == Spec => []FilesAreWhole
<1>1. ASSUME IInv PROVE FilesAreWhole
  <2>1. ASSUME NEW s \in DOMAIN table, table[s].status = "Y", NEW j, j = table[s].by
        PROVE  \/ th[j].dir \in DOMAIN zip /\ zip[th[j].dir] = ({j} \X (1..QueryCnt)) \ skipped
               \/ SeqShared(j) \/ DirShared(j)
               \/ \E e \in due : e.seq = s
    <3>1. j \in Job
      BY <1>1, <2>1, OuterTypes DEF Row
    <3>2. RowOffers(s, j)
      BY <1>1, <2>1, <3>1 DEF IInv, JobOK, RowOK
    <3> QED BY <2>1, <3>2 DEF RowOffers, ZipWhole, Whole
  <2>2. ASSUME NEW d \in DOMAIN tmp
        PROVE  \E j \in Job : th[j].dir = d /\ (Alive(j) \/ th[j].pc \in {"error", "dead"})
    BY <1>1 DEF IInv, FolderUsed, User, Loop, Alive, Ended
  <2> QED BY <1>1, <2>1, <2>2 DEF IInv, FilesAreWhole, OfferedIsWhole, FolderGoes
<1> QED BY <1>1, SpecIInv, PTL

(* A finished thread leaves no row that says it is running, whoever wrote    *)
(* the row between its steps, unless another thread has its DOWN_SEQ.        *)
THEOREM FinishedIsSettled == Spec => []SettledWhenDone
<1>1. ASSUME IInv PROVE SettledWhenDone
  <2>1. ASSUME NEW s \in DOMAIN table, LiveRow(s), NEW j, j = table[s].by
        PROVE  th[j].pc \notin {"clean", "done", "error"} \/ SeqShared(j)
    <3>1. RowSays(s, j)
      BY <1>1, <2>1, OuterTypes DEF Row, IInv, JobOK, RowOK
    <3> QED BY <2>1, <3>1 DEF RowSays, Says, LiveRow
  <2> QED BY <2>1 DEF SettledWhenDone
<1> QED BY <1>1, SpecIInv, PTL

(* A thread that has seen a stop in its row writes no progress and no        *)
(* success over it, through the rest of both loops and after them.           *)
THEOREM StopIsKept == Spec => []SeenStopIsKept
<1>1. ASSUME IInv PROVE SeenStopIsKept
  <2>1. ASSUME NEW s \in DOMAIN table, NEW j, j = table[s].by, th[j].seen, ~SeqShared(j)
        PROVE  table[s].status \in Stopped \cup {"E"}
    <3>1. RowSays(s, j)
      BY <1>1, <2>1, OuterTypes DEF Row, IInv, JobOK, RowOK
    <3> QED BY <2>1, <3>1 DEF RowSays, Says
  <2> QED BY <2>1 DEF SeenStopIsKept
<1> QED BY <1>1, SpecIInv, PTL

(* Two live rows of the same export mean that the check of one could not see *)
(* the other, or that a third export writes into one of the rows.            *)
THEOREM TwiceMeansUnseen == Spec => []TwiceOnlyIfUnseen
<1>1. ASSUME IInv PROVE TwiceOnlyIfUnseen
  <2>1. SUFFICES ASSUME NEW s \in DOMAIN table, NEW t \in DOMAIN table, NEW j, NEW k,
                        j = table[s].by, k = table[t].by, s # t, LiveRow(s), LiveRow(t),
                        Condition[j] = Condition[k], ~SeqShared(j), ~SeqShared(k)
                 PROVE  j \in pend[k] \/ k \in pend[j]
    BY DEF TwiceOnlyIfUnseen
  <2>2. j \in Job /\ k \in Job
    BY <1>1, <2>1, OuterTypes DEF Row
  <2>3. RowHasThread(s, j) /\ RowHasThread(t, k) /\ Checked(j, k)
    BY <1>1, <2>1, <2>2 DEF IInv, JobOK, RowOK
  <2>4. j # k /\ th[j].pc # "idle" /\ th[k].pc # "idle"
    BY <2>1, <2>3 DEF RowHasThread
  <2>5. ~Over(j) /\ ~Over(k)
    BY <2>1 DEF Over
  <2> QED BY <2>1, <2>3, <2>4, <2>5 DEF Checked
<1> QED BY <1>1, SpecIInv, PTL
=============================================================================
