----------------------------- MODULE SnmpPolling -----------------------------
(* The list of devices on the server and the status each was last seen with. *)
(* deviceReload replaces the list by fresh objects from the table.  A round   *)
(* of deviceStatus asks every device of the list, a request of SnmpController *)
(* asks one it loaded itself; both let statusChange put what was polled into  *)
(* the list, by address.  Nothing is locked: the scheduled methods run in the *)
(* pool that the WebSocket broker brings along, requests in Tomcat's.         *)
(* A poll writes into the DeviceVO object it was given, which the list may    *)
(* share, and may do so after its ten (four) seconds are over.  Of a status   *)
(* the model keeps the state the device was in when it was read, not what it  *)
(* says: an answer with an empty table, or none, gives a status as well.      *)
EXTENDS Integers, Sequences, FiniteSets, SequencesExt, FiniteSetsExt

CONSTANTS
    Ips,         \* addresses, numbers from 1: getDeviceList sorts by them
    First,       \* addresses in the table at startup
    Web,         \* requests of SnmpController that poll
    Scheduled,   \* the round of deviceStatus
    Budgets,     \* bound: numbers of edits, deletes, changed devices, faults and
                 \* requests that poll, and of workers followed past their
                 \* timeout at a time, in the combinations that are looked at
    None         \* no status yet

ASSUME SnmpConstants ==
    /\ Ips \subseteq Nat \ {0} /\ Ips # {} /\ First \subseteq Ips
    /\ IsFiniteSet(Ips) /\ IsFiniteSet(Web)
    /\ Budgets \subseteq [edits : Nat, deletes : Nat, changes : Nat,
                         faults : Nat, polls : Nat, lates : Nat]
    /\ Scheduled \notin Web /\ None \notin BOOLEAN

Jobs   == Web \cup {Scheduled}
Seqs   == 1..(Max(First \cup {0}) + Max({b.edits : b \in Budgets}))
Ids    == Ips \X Nat \X (Nat \ {0})

VARIABLES
    db,        \* UI_DEVICE: rows [seq, ip]; only seq is a key
    checked,   \* writes of DeviceController whose address was found free
    left,      \* what is left of the budget
    changed,   \* the addresses whose device has changed
    heap,      \* the DeviceVO objects: row, status, whether a load came later
    devices,   \* SnmpPolling.devices
    job,       \* the pollers: their tasks, workers and loop indices
    late,      \* workers that go on after their poll was cancelled
    loaded,    \* the rows of the last load (observation)
    mixed,     \* addresses set since it by polls begun before (observation)
    torn,      \* since it a poll used an index of the old list (observation)
    had        \* had[ip]: the devices that ever had the address (observation)

table == <<db, checked, had>>
seen  == <<loaded, mixed, torn>>
vars  == <<table, left, changed, heap, devices, job, late, seen>>

-----------------------------------------------------------------------------
(* Objects. *)

Object(row) == [seq |-> row.seq, ip |-> row.ip, st |-> None, old |-> FALSE]

TasksOf(k) == ToSet(job[k].tasks)

(* The objects that pollers and late workers refer to. *)
Held(jobs, ls) == (UNION {ToSet(jobs[k].tasks) : k \in Jobs}) \cup {l.obj : l \in ls}

(* The garbage collector: what nothing refers to is gone. *)
Only(h, ids) == Restrict(h, ids \cap DOMAIN h)

(* A name for a new object with this row. *)
Fresh(r, used) ==
    <<r.ip, r.seq,
      Min({n \in 1..(1 + Cardinality(used)) : <<r.ip, r.seq, n>> \notin used})>>

(* The order of getDeviceList, the type of all devices being the same: by    *)
(* address, the row that was created later first.                            *)
Before(a, b) == a.ip < b.ip \/ (a.ip = b.ip /\ a.seq > b.seq)

Rows ==
    [i \in 1..Cardinality(db) |->
        CHOOSE r \in db : Cardinality({x \in db : Before(x, r)}) = i - 1]

Idle == [pc |-> "idle", tasks |-> <<>>, w |-> <<>>, since |-> {}, i |-> 1, j |-> 1,
         cross |-> FALSE, slip |-> FALSE, beside |-> FALSE]

Init ==
    /\ db = {[seq |-> ip, ip |-> ip] : ip \in First}
    /\ checked = <<>>
    /\ left \in Budgets
    /\ changed = {}
    /\ devices = [i \in DOMAIN Rows |-> <<Rows[i].ip, Rows[i].seq, 1>>]
    /\ heap = [x \in ToSet(devices) |-> Object(CHOOSE r \in db : r.ip = x[1])]
    /\ job = [k \in Jobs |-> Idle] /\ late = {}
    /\ loaded = Rows
    /\ mixed = {} /\ torn = FALSE
    /\ had = [ip \in Ips |-> {r.seq : r \in {x \in db : x.ip = ip}}]

-----------------------------------------------------------------------------
(* The table and the devices. *)

Spend(kind) == left[kind] > 0 /\ left' = [left EXCEPT ![kind] = @ - 1]

(* isDeviceIpExist, for a row that is to be changed or a new one (0). *)
IpExists(q, ip) == \E r \in db : r.ip = ip /\ r.seq # q

(* insertDevice and updateDevice look whether the address is free, and write *)
(* in a statement of its own.                                                *)
CheckIp(q, ip) ==
    /\ ~IpExists(q, ip) /\ Spend("edits")
    /\ checked' = Append(checked, [seq |-> q, ip |-> ip])
    /\ UNCHANGED <<db, had, changed, heap, devices, job, late, seen>>

(* The table is written; none of the requests reloads this list. *)
Edit(rows) ==
    /\ db' = rows
    /\ had' = [ip \in Ips |-> had[ip] \cup {r.seq : r \in {x \in rows : x.ip = ip}}]
    /\ UNCHANGED <<changed, heap, devices, job, late, seen>>

(* The number of a deleted device is given again when it was the greatest. *)
NextSeq == 1 + Max({0} \cup {r.seq : r \in db})

InsertDevice(n) ==
    /\ checked[n].seq = 0
    /\ Edit(db \cup {[seq |-> NextSeq, ip |-> checked[n].ip]})
    /\ checked' = RemoveAt(checked, n) /\ UNCHANGED left

UpdateDevice(n) ==
    /\ checked[n].seq # 0
    /\ Edit({IF r.seq = checked[n].seq THEN [r EXCEPT !.ip = checked[n].ip] ELSE r : r \in db})
    /\ checked' = RemoveAt(checked, n) /\ UNCHANGED left

DeleteDevice == \E r \in db : Edit(db \ {r}) /\ Spend("deletes") /\ UNCHANGED checked

(* A device changes by itself or by the command of a request. *)
Change(ip) ==
    /\ ip \notin changed /\ Spend("changes")
    /\ changed' = changed \cup {ip}
    /\ UNCHANGED <<table, heap, devices, job, late, seen>>

(* init: fresh objects without a status; the old ones live on in polls. *)
Load ==
    LET kept == Held(job, late)
        name(r) == Fresh(r, kept)
    IN /\ devices' = [i \in DOMAIN Rows |-> name(Rows[i])]
       /\ heap' = [x \in kept \cup {name(r) : r \in db} |->
              IF x \in kept THEN [heap[x] EXCEPT !.old = TRUE]
              ELSE Object(CHOOSE r \in db : name(r) = x)]
       /\ loaded' = Rows

Reloaded ==
    /\ job' = [k \in Jobs |->
          IF job[k].pc \in {"idle", "over"} THEN job[k]
          ELSE [job[k] EXCEPT !.cross = TRUE, !.slip = (job[k].pc = "set")]]
    /\ mixed' = {} /\ torn' = FALSE
    /\ UNCHANGED <<table, left, changed, late>>

(* Faulty: a list that has entries is taken for loaded. *)
ReloadOnce == devices = <<>> /\ (\A k \in Jobs : ~job[k].cross) /\ Load /\ Reloaded

(* deviceReload, every five minutes; a poll is over in ten seconds and sees *)
(* one of them at most.                                                     *)
Reload == (\A k \in Jobs : ~job[k].cross) /\ Load /\ Reloaded

-----------------------------------------------------------------------------
(* Polling. *)

IpOf(x) == heap[x].ip
IpsOf(k) == {IpOf(x) : x \in TasksOf(k)}

(* Job k takes the objects s; whoever polls one of these addresses meanwhile *)
(* runs beside it.                                                           *)
Take(k, s, ips) ==
    LET beside(m) == m # k /\ IpsOf(m) \cap ips # {}
        after == \E l \in late : IpOf(l.obj) \in ips
    IN job' = [m \in Jobs |->
        IF m = k THEN [Idle EXCEPT !.pc = "poll", !.tasks = s, !.since = changed,
                                   !.w = [i \in DOMAIN s |-> "asks"],
                                   !.beside = after \/ \E n \in Jobs : beside(n)]
        ELSE IF beside(m) THEN [job[m] EXCEPT !.beside = TRUE] ELSE job[m]]

(* Faulty: the statuses are cleared before the devices are asked. *)
CollectClears ==
    /\ job[Scheduled].pc = "idle" /\ devices # <<>>
    /\ Take(Scheduled, devices, {IpOf(devices[i]) : i \in DOMAIN devices})
    /\ heap' = [x \in DOMAIN heap |->
          IF x \in ToSet(devices) THEN [heap[x] EXCEPT !.st = None] ELSE heap[x]]
    /\ UNCHANGED <<table, left, changed, devices, late, seen>>

(* deviceStatus hands the objects of the list to its workers. *)
Collect ==
    /\ job[Scheduled].pc = "idle" /\ devices # <<>>
    /\ Take(Scheduled, devices, {IpOf(devices[i]) : i \in DOMAIN devices})
    /\ UNCHANGED <<table, left, changed, heap, devices, late, seen>>

(* SnmpController loads the device anew, after its command was sent. *)
GetDeviceInfo(k, r) ==
    /\ job[k].pc = "idle" /\ Spend("polls")
    /\ LET x == Fresh(r, DOMAIN heap)
       IN /\ heap' = [y \in DOMAIN heap \cup {x} |-> IF y = x THEN Object(r) ELSE heap[y]]
          /\ Take(k, <<x>>, {r.ip})
    /\ UNCHANGED <<table, changed, devices, late, seen>>

Final == {"done", "fails"}

(* invokeAll returns with the last answer. *)
Worker(k, i, v) ==
    job' = [job EXCEPT ![k] = [job[k] EXCEPT
        !.w = [job[k].w EXCEPT ![i] = v],
        !.pc = IF \A m \in DOMAIN job[k].w \ {i} : job[k].w[m] \in Final
               THEN "change" ELSE job[k].pc]]

(* SnmpThread.call: the status is read at some moment since the start.  A     *)
(* device that is down does not answer in time (three tries of thirty        *)
(* seconds); whether one does is left open at every poll.                    *)
Readings(x, since) == {IpOf(x) \in since, IpOf(x) \in changed}

Answer(k, i) ==
    /\ job[k].pc = "poll" /\ job[k].w[i] = "asks"
    /\ \E st \in Readings(job[k].tasks[i], job[k].since) :
          heap' = [heap EXCEPT ![job[k].tasks[i]] = [@ EXCEPT !.st = st]]
    /\ Worker(k, i, "done")
    /\ UNCHANGED <<table, left, changed, devices, late, seen>>

(* GetSnmp swallowed an exception, and the answer lacks a table. *)
Fail(k, i) ==
    /\ job[k].pc = "poll" /\ job[k].w[i] = "asks" /\ Spend("faults")
    /\ Worker(k, i, "fails")
    /\ UNCHANGED <<table, changed, heap, devices, late, seen>>

(* The time of invokeAll is over, as in every poll of a device that is down: *)
(* the rest is cancelled.  An interrupted worker goes on with empty tables   *)
(* and sets a status; a bounded number of them is followed at a time.        *)
Timeout(k) ==
    /\ job[k].pc = "poll"
    /\ LET cut == {i \in DOMAIN job[k].w : job[k].w[i] \notin Final}
       IN /\ job' = [job EXCEPT ![k] = [job[k] EXCEPT !.pc = "change",
                !.w = [i \in DOMAIN job[k].w |->
                          IF i \in cut THEN "cut" ELSE job[k].w[i]]]]
          /\ \E S \in SUBSET cut :
                /\ late' = late \cup
                      {[obj |-> job[k].tasks[i], since |-> job[k].since] : i \in S}
                /\ Cardinality(late') <= left.lates
    /\ UNCHANGED <<table, left, changed, heap, devices, seen>>

LateAnswer(l) ==
    /\ late' = late \ {l}
    /\ \E st \in Readings(l.obj, l.since) :
          heap' = Only([heap EXCEPT ![l.obj] = [@ EXCEPT !.st = st]],
                       Held(job, late') \cup ToSet(devices))
    /\ UNCHANGED <<table, left, changed, devices, job, seen>>

LateDies(l) ==
    /\ late' = late \ {l}
    /\ heap' = Only(heap, Held(job, late') \cup ToSet(devices))
    /\ UNCHANGED <<table, left, changed, devices, job, seen>>

-----------------------------------------------------------------------------
(* statusChange: for each task the list is searched by address, and the entry *)
(* found is set.  The field devices is read anew by devices.set.              *)

Current(k) == job[k].tasks[job[k].i]
Changing(k) == job[k].pc = "change"

Ended(k) == [Idle EXCEPT !.pc = IF k \in Web THEN "over" ELSE "idle"]

(* The loop goes on, or the poll is over. *)
NextTask(k) ==
    /\ job' = [job EXCEPT ![k] =
          IF job[k].i = Len(job[k].tasks) THEN Ended(k)
          ELSE [job[k] EXCEPT !.pc = "change", !.i = job[k].i + 1, !.slip = FALSE]]
    /\ heap' = Only(heap, Held(job', late) \cup ToSet(devices'))

(* future.get throws, and the loop goes on with the next task. *)
SkipFailed(k) ==
    /\ Changing(k) /\ job[k].w[job[k].i] = "fails"
    /\ UNCHANGED <<table, left, changed, devices, late, seen>>
    /\ NextTask(k)

(* The entries with the address of the task; the loop stops at the first. *)
Places(k) == {j \in DOMAIN devices : IpOf(devices[j]) = IpOf(Current(k))}

Find(k) ==
    /\ Changing(k) /\ job[k].w[job[k].i] # "fails"
    /\ UNCHANGED <<table, left, changed, devices, late, seen>>
    /\ \/ Places(k) = {} /\ NextTask(k)
       \/ /\ Places(k) # {}
          /\ job' = [job EXCEPT ![k] =
                [job[k] EXCEPT !.pc = "set", !.j = Min(Places(k))]]
          /\ UNCHANGED heap

(* Faulty: the index of the task instead of the entry's. *)
SetAtTask(k) ==
    /\ job[k].pc = "set"
    /\ \/ job[k].i > Len(devices) /\ UNCHANGED <<devices, seen>>
       \/ /\ job[k].i <= Len(devices)
          /\ devices' = [devices EXCEPT ![job[k].i] = Current(k)]
          /\ mixed' = IF job[k].cross THEN mixed \cup {IpOf(Current(k))} ELSE mixed
          /\ torn' = (torn \/ job[k].slip)
          /\ UNCHANGED loaded
    /\ UNCHANGED <<table, left, changed, late>>
    /\ NextTask(k)

(* devices.set(j, device); past the end it throws, which is caught. *)
Set(k) ==
    /\ job[k].pc = "set"
    /\ \/ job[k].j > Len(devices) /\ UNCHANGED <<devices, seen>>
       \/ /\ job[k].j <= Len(devices)
          /\ devices' = [devices EXCEPT ![job[k].j] = Current(k)]
          /\ mixed' = IF job[k].cross THEN mixed \cup {IpOf(Current(k))} ELSE mixed
          /\ torn' = (torn \/ job[k].slip)
          /\ UNCHANGED loaded
    /\ UNCHANGED <<table, left, changed, late>>
    /\ NextTask(k)

-----------------------------------------------------------------------------
WorkerStep(k) == \E i \in DOMAIN job[k].w : Answer(k, i)
StatusChange(k) == SkipFailed(k) \/ Find(k) \/ Set(k)

Next ==
    \/ \E q \in {0} \cup {r.seq : r \in db}, ip \in Ips : CheckIp(q, ip)
    \/ \E n \in DOMAIN checked : InsertDevice(n) \/ UpdateDevice(n)
    \/ DeleteDevice
    \/ \E ip \in Ips : Change(ip)
    \/ Reload \/ Collect
    \/ \E k \in Web, r \in db : GetDeviceInfo(k, r)
    \/ \E k \in Jobs : WorkerStep(k) \/ Timeout(k) \/ StatusChange(k)
                       \/ \E i \in DOMAIN job[k].w : Fail(k, i)
    \/ \E l \in late : LateAnswer(l) \/ LateDies(l)

(* invokeAll returns after ten (four) seconds at the latest, whoever answers. *)
PollEnds(k) == WorkerStep(k) \/ Timeout(k)

(* Reload and rounds have periods of their own: the list rests four seconds *)
(* of every fourteen at least, and a reload does not miss that for ever.    *)
Quiet == \A k \in Jobs : job[k].pc \in {"idle", "over"}

Fairness ==
    /\ SF_vars(Reload /\ Quiet)
    /\ \A k \in Jobs : WF_vars(PollEnds(k)) /\ WF_vars(StatusChange(k))

Spec == Init /\ [][Next]_vars /\ Fairness

-----------------------------------------------------------------------------
TypeOK ==
    /\ db \subseteq [seq : Nat, ip : Ips]
    /\ \A a, b \in db : a.seq = b.seq => a = b
    /\ checked \in Seq([seq : Nat, ip : Ips])
    /\ left \in [edits : Nat, deletes : Nat, changes : Nat,
                faults : Nat, polls : Nat, lates : Nat]
    /\ changed \subseteq Ips
    /\ DOMAIN heap = Held(job, late) \cup ToSet(devices)
    /\ DOMAIN heap \subseteq Ids
    /\ \A x \in DOMAIN heap :
          heap[x] \in [seq : Nat, ip : Ips, st : BOOLEAN \cup {None}, old : BOOLEAN]
    /\ devices \in Seq(Ids)
    /\ \A k \in Jobs : /\ job[k].j \in Nat \ {0}
                       /\ job[k].tasks # <<>> => job[k].i \in DOMAIN job[k].tasks
    /\ late \subseteq [obj : DOMAIN heap, since : SUBSET Ips]

(* What DeviceController shows for a device: the status of its first entry. *)
Entries(q) == {j \in DOMAIN devices : heap[devices[j]].seq = q}
Shown(q) ==
    IF Entries(q) = {} THEN None
    ELSE heap[devices[CHOOSE j \in Entries(q) : \A i \in Entries(q) : j <= i]].st

(* The list holds one entry for every row of the last load, in its order,  *)
(* however polls, edits and reloads interleave.  The one way to lose one: a *)
(* reload between the comparison and devices.set.                           *)
ListIsLoaded ==
    torn \/ [j \in DOMAIN devices |-> IpOf(devices[j])]
            = [j \in DOMAIN loaded |-> loaded[j].ip]

(* An entry from before the last load is there only because a poll that     *)
(* began before it put its object back.                                     *)
NeverOlderThanLoad ==
    \A j \in DOMAIN devices :
        heap[devices[j]].old => IpOf(devices[j]) \in mixed

(* Another row of the last load has the same address. *)
Doubled(j) == \E i \in DOMAIN loaded \ {j} : loaded[i].ip = loaded[j].ip

(* A device of the last load is in its place of the list.  It is lost where  *)
(* such a reload or poll took the place, where two requests gave one address *)
(* twice (statusChange sets the first entry of an address), and where a      *)
(* request has polled a device that was given the address since.             *)
DeviceIsInPlace ==
    torn \/ \A j \in DOMAIN devices :
        LET d == heap[devices[j]]
        IN \/ d.seq = loaded[j].seq
           \/ loaded[j].ip \in mixed
           \/ Doubled(j)
           \/ ~d.old /\ [seq |-> d.seq, ip |-> d.ip] \notin ToSet(loaded)

(* Polls, edits and reloads leave one current entry per loaded device, up   *)
(* to these accidents.  (The two reads of the field devices, and the search *)
(* by address.)                                                             *)
ListIsRight == TypeOK /\ ListIsLoaded /\ NeverOlderThanLoad /\ DeviceIsInPlace

Rank(st) == CASE st = None -> 0 [] st = FALSE -> 1 [] st = TRUE -> 2

(* A device that never had another address, nor its address another device. *)
Settled(r) ==
    /\ r \in db /\ had[r.ip] = {r.seq}
    /\ \A ip \in Ips : r.seq \in had[ip] => ip = r.ip

GoesBack == \E r \in db : Settled(r) /\ Rank(Shown(r.seq)') < Rank(Shown(r.seq))

(* The status shown for a device that kept its address never falls back to  *)
(* an earlier reading, or to none, but by a reload (which forgets them all), *)
(* a worker that answers after its time, a request that timed out and sets  *)
(* the object it had loaded without a status, and by a poll that another    *)
(* poll of the address, or a reload, overlapped.                            *)
GoesBackOnlyIfContended ==
    [][GoesBack =>
        \/ Reload
        \/ \E l \in late : LateAnswer(l)
        \/ \E k \in Jobs :
              /\ job[k].beside \/ job[k].cross \/ torn
                 \/ (k \in Web /\ job[k].pc = "set" /\ job[k].w[job[k].i] = "cut")
              /\ Set(k) \/ \E i \in DOMAIN job[k].w : Answer(k, i)]_vars

Listed(r) ==
    \E j \in DOMAIN devices : heap[devices[j]].seq = r.seq /\ IpOf(devices[j]) = r.ip

(* A device that stays in the table, with an address of its own, comes to be *)
(* in the list with that address and stays there, whatever was edited, lost  *)
(* or put back before, and whether devices answer or not.  (Only deviceReload *)
(* repairs the list.)                                                        *)
ListRecovers ==
    \A r \in [seq : Seqs, ip : Ips] :
        <>[](r \in db /\ ~IpExists(r.seq, r.ip)) => <>[]Listed(r)
=============================================================================
