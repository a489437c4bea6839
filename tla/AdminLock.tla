----------------------------- MODULE AdminLock -----------------------------
(***************************************************************************)
(* The temporary block of an operator account after repeated wrong         *)
(* passwords: LoginController.loginProcess counts failures in the column   *)
(* UI_ADMIN.ACCESS_FAIL_CNT, and LockRelease, a thread started per block,  *)
(* sleeps password.restore.minute and clears the column.                   *)
(*                                                                         *)
(* A request reads the row, judges the password and writes the count in    *)
(* three separate statements, without a transaction or a row lock, so      *)
(* requests of several Tomcat threads interleave between them.             *)
(***************************************************************************)
EXTENDS Integers, FiniteSets

CONSTANTS
    Account,    \* operator accounts (rows of UI_ADMIN)
    Worker,     \* Tomcat worker threads that serve loginProcess.xcn
    Releaser,   \* LockRelease thread objects; bounds the sleeping threads
    Limits,     \* values password.fail.count takes while the server runs
    Restore,    \* password.restore.minute, in ticks of the clock
    FailCap,    \* where the observation counter "fails" saturates
    ErrCap,     \* bounds the failing stores of a count between two resets
    Faults,     \* subset of FaultKinds that may happen in this instance
    Nobody      \* not an account

FaultKinds == {"dbError", "rename", "restart"}

ASSUME ConstantsOK ==
    /\ Nobody \notin Account
    /\ Limits # {} /\ Limits \subseteq Nat \ {0}
    /\ Restore \in Nat \ {0}
    /\ FailCap \in Nat /\ ErrCap \in Nat
    /\ Faults \subseteq FaultKinds

VARIABLES
    cnt,      \* cnt[a]: ACCESS_FAIL_CNT of account a
    limit,    \* password.fail.count as Config.getInt returns it now
    at,       \* at[r]: where request r is, and what it holds locally
    rel,      \* rel[t]: the LockRelease thread t, its account, ticks to sleep
    lost,     \* accounts whose pending release was lost (observation)
    fails,    \* wrong passwords judged since the last reset or rename (observation)
    unstored  \* failures since then whose UPDATE threw (observation)

lockVars == <<cnt, limit, at, rel, lost, fails, unstored>>

-----------------------------------------------------------------------------
IdleReq == [pc |-> "idle", adm |-> Nobody, seen |-> 0, lim |-> 0]
NoRel   == [adm |-> Nobody, left |-> 0]

(* loginProcess answers PW_EXCESS to every attempt on such an account. *)
Blocked(a) == cnt[a] >= limit

Sleeping(a) == \E t \in Releaser : rel[t].adm = a
Locking(a)  == \E r \in Worker : at[r].pc = "lock" /\ at[r].adm = a

(* Some thread is on its way to clear the count of a. *)
ReleasePending(a) == Sleeping(a) \/ Locking(a)

LockInit ==
    /\ cnt = [a \in Account |-> 0]
    /\ limit \in Limits
    /\ at = [r \in Worker |-> IdleReq]
    /\ rel = [t \in Releaser |-> NoRel]
    /\ lost = {}
    /\ fails = [a \in Account |-> 0]
    /\ unstored = [a \in Account |-> 0]

-----------------------------------------------------------------------------
(* Writes that set ACCESS_FAIL_CNT of one row to 0. *)
ClearCount(a) ==
    /\ cnt' = [cnt EXCEPT ![a] = 0]
    /\ fails' = [fails EXCEPT ![a] = 0]
    /\ unstored' = [unstored EXCEPT ![a] = 0]
    /\ lost' = lost \ {a}

(* Faulty: the row may come from a cache filled before any failure. *)
ReadRowCached(r, a) ==
    /\ at[r].pc = "idle"
    /\ \E s \in {0, cnt[a]} :
         at' = [at EXCEPT ![r] = [pc |-> "read", adm |-> a, seen |-> s, lim |-> 0]]
    /\ UNCHANGED <<cnt, limit, rel, lost, fails, unstored>>

(* adminService.getAdmin: the row is copied into the request's AdminVO. *)
ReadRow(r, a) ==
    /\ at[r].pc = "idle"
    /\ at' = [at EXCEPT ![r] =
                 [pc |-> "read", adm |-> a, seen |-> cnt[a], lim |-> 0]]
    /\ UNCHANGED <<cnt, limit, rel, lost, fails, unstored>>

(* The copy is at the limit: PW_EXCESS, and no release is started. *)
RefuseBlocked(r) ==
    /\ at[r].pc = "read"
    /\ at[r].seen >= limit
    /\ at' = [at EXCEPT ![r] = IdleReq]
    /\ UNCHANGED <<cnt, limit, rel, lost, fails, unstored>>

(* The request compared the password under the limit configured now. *)
Judged(r, verdict) ==
    [pc |-> verdict, adm |-> at[r].adm, seen |-> at[r].seen, lim |-> limit]

(* Faulty: the comparison comes before the check of the count. *)
JudgeWrongUnchecked(r) ==
    /\ at[r].pc = "read"
    /\ at' = [at EXCEPT ![r] = Judged(r, "wrong")]
    /\ fails' = [fails EXCEPT ![at[r].adm] =
                    IF @ < FailCap THEN @ + 1 ELSE @]
    /\ UNCHANGED <<cnt, limit, rel, lost, unstored>>

(* The password differs: admin.setAccessFailCnt(seen + 1), not yet written. *)
JudgeWrong(r) ==
    /\ at[r].pc = "read"
    /\ at[r].seen < limit
    /\ at' = [at EXCEPT ![r] = Judged(r, "wrong")]
    /\ fails' = [fails EXCEPT ![at[r].adm] = 
                    IF @ < FailCap THEN @ + 1 ELSE @]
    /\ UNCHANGED <<cnt, limit, rel, lost, unstored>>

(* The password matches; the checks up to setLoginEnv follow. *)
JudgeRight(r) ==
    /\ at[r].pc = "read"
    /\ at[r].seen < limit
    /\ at' = [at EXCEPT ![r] = Judged(r, "right")]
    /\ UNCHANGED <<cnt, limit, rel, lost, fails, unstored>>

(* Faulty: a LockRelease only above the limit, though the block is at it. *)
WriteCountOffByOne(r) ==
    LET n == at[r].seen + 1
    IN  /\ at[r].pc = "wrong"
        /\ cnt' = [cnt EXCEPT ![at[r].adm] = n]
        /\ at' = [at EXCEPT ![r] = IF n > at[r].lim THEN [@ EXCEPT !.pc = "lock"]
                                                      ELSE IdleReq]
        /\ UNCHANGED <<limit, rel, lost, fails, unstored>>

(* updateUserPasswordWrongCount stores the absolute value; at the limit the *)
(* request goes on to start a LockRelease, below it the request is over.    *)
WriteCount(r) ==
    LET a == at[r].adm
        n == at[r].seen + 1
    IN  /\ at[r].pc = "wrong"
        /\ cnt' = [cnt EXCEPT ![a] = n]
        /\ at' = [at EXCEPT ![r] =
                     IF n >= at[r].lim THEN [@ EXCEPT !.pc = "lock"]
                                        ELSE IdleReq]
        /\ UNCHANGED <<limit, rel, lost, fails, unstored>>

(* The UPDATE throws: the password was judged, the column stays, and no     *)
(* thread is started.                                                       *)
WriteFails(r) ==
    LET a == at[r].adm
    IN  /\ "dbError" \in Faults
        /\ at[r].pc = "wrong"
        /\ unstored[a] < ErrCap
        /\ unstored' = [unstored EXCEPT ![a] = @ + 1]
        /\ at' = [at EXCEPT ![r] = IdleReq]
        /\ UNCHANGED <<cnt, limit, rel, lost, fails>>

(* Faulty: setAdmin is forgotten, so the thread has no account to open. *)
StartReleaseUnnamed(r) ==
    /\ at[r].pc = "lock"
    /\ \E t \in Releaser :
         /\ rel[t] = NoRel
         /\ rel' = [rel EXCEPT ![t] = [adm |-> Nobody, left |-> Restore]]
    /\ at' = [at EXCEPT ![r] = IdleReq]
    /\ UNCHANGED <<cnt, limit, lost, fails, unstored>>

(* new LockRelease(), lock.start(): one more sleeping thread. *)
StartRelease(r) ==
    /\ at[r].pc = "lock"
    /\ \E t \in Releaser :
         /\ rel[t] = NoRel
         /\ rel' = [rel EXCEPT ![t] = [adm |-> at[r].adm, left |-> Restore]]
    /\ at' = [at EXCEPT ![r] = IdleReq]
    /\ UNCHANGED <<cnt, limit, lost, fails, unstored>>

(* setLoginEnv reached updateUserLoginOK. *)
LoginOK(r) ==
    /\ at[r].pc = "right"
    /\ ClearCount(at[r].adm)
    /\ at' = [at EXCEPT ![r] = IdleReq]
    /\ UNCHANGED <<limit, rel>>

(* USER_LOCK, NOTUSED_USER, PW_EXPIRED, ALREADY_LOGIN, or a second factor   *)
(* that is never completed: the request leaves the count alone.             *)
RefuseOther(r) ==
    /\ at[r].pc = "right"
    /\ at' = [at EXCEPT ![r] = IdleReq]
    /\ UNCHANGED <<cnt, limit, rel, lost, fails, unstored>>

(* Faulty: the thread ends without storing the cleared count. *)
WakeUnsaved(t) ==
    /\ rel[t].adm \in Account
    /\ rel[t].left = 0
    /\ rel' = [rel EXCEPT ![t] = NoRel]
    /\ UNCHANGED <<cnt, limit, at, lost, fails, unstored>>

(* LockRelease.run after Thread.sleep: the count is cleared. *)
Wake(t) ==
    /\ rel[t].adm \in Account
    /\ rel[t].left = 0
    /\ ClearCount(rel[t].adm)
    /\ rel' = [rel EXCEPT ![t] = NoRel]
    /\ UNCHANGED <<limit, at>>

(* The UPDATE of LockRelease.run throws: the catch prints, the thread ends. *)
WakeFails(t) ==
    /\ "dbError" \in Faults
    /\ rel[t].adm \in Account
    /\ rel[t].left = 0
    /\ lost' = lost \cup {rel[t].adm}
    /\ rel' = [rel EXCEPT ![t] = NoRel]
    /\ UNCHANGED <<cnt, limit, at, fails, unstored>>

(* One tick of the clock: sleeping threads advance. *)
LockTick ==
    /\ \E t \in Releaser : rel[t].left > 0
    /\ rel' = [t \in Releaser |->
                 [rel[t] EXCEPT !.left = IF @ > 0 THEN @ - 1 ELSE @]]
    /\ UNCHANGED <<cnt, limit, at, lost, fails, unstored>>

(* updateAdmin.xcn: another operator saves the account. *)
EditAdmin(a) ==
    /\ ClearCount(a)
    /\ UNCHANGED <<limit, at, rel>>

(* updateAdminInfo.xcn: the row gets a new ADMIN_ID. Threads and requests   *)
(* that carry the old one update no row from here on.                       *)
Rename(a) ==
    /\ "rename" \in Faults
    /\ lost' = IF ReleasePending(a) THEN lost \cup {a} ELSE lost
    /\ at' = [r \in Worker |-> IF at[r].adm = a THEN IdleReq ELSE at[r]]
    /\ rel' = [t \in Releaser |-> IF rel[t].adm = a THEN NoRel ELSE rel[t]]
    /\ fails' = [fails EXCEPT ![a] = 0]
    /\ unstored' = [unstored EXCEPT ![a] = 0]
    /\ UNCHANGED <<cnt, limit>>

(* The configuration page saved password.fail.count; Config now returns it. *)
Reload(l) ==
    /\ l # limit
    /\ limit' = l
    /\ UNCHANGED <<cnt, at, rel, lost, fails, unstored>>

(* The server stops and starts: threads and requests are gone, and the      *)
(* @PostConstruct of LockRelease clears every row.                          *)
Restart ==
    /\ "restart" \in Faults
    /\ cnt' = [a \in Account |-> 0]
    /\ at' = [r \in Worker |-> IdleReq]
    /\ rel' = [t \in Releaser |-> NoRel]
    /\ lost' = {}
    /\ fails' = [a \in Account |-> 0]
    /\ unstored' = [a \in Account |-> 0]
    /\ UNCHANGED limit

RequestStep(r) ==
    \/ \E a \in Account : ReadRow(r, a)
    \/ RefuseBlocked(r)
    \/ JudgeWrong(r)
    \/ JudgeRight(r)
    \/ WriteCount(r)
    \/ WriteFails(r)
    \/ StartRelease(r)
    \/ LoginOK(r)
    \/ RefuseOther(r)

LockNext ==
    \/ \E r \in Worker : RequestStep(r)
    \/ \E t \in Releaser : Wake(t) \/ WakeFails(t)
    \/ \E a \in Account : EditAdmin(a) \/ Rename(a)
    \/ \E l \in Limits : Reload(l)
    \/ LockTick
    \/ Restart

LockSpec == LockInit /\ [][LockNext]_lockVars

(* Time passes, a started thread runs when its sleep is over, and a request *)
(* that wrote the count goes on to start its thread. Nothing obliges users. *)
Fairness ==
    /\ WF_lockVars(LockTick)
    /\ \A t \in Releaser : WF_lockVars(Wake(t))
    /\ \A r \in Worker : WF_lockVars(StartRelease(r))

FairSpec == LockSpec /\ Fairness

-----------------------------------------------------------------------------
(* Every variable keeps its type, and a request past its SELECT and a thread *)
(* that sleeps know their account, whatever the interleaving.                *)
LockTypeOK ==
    /\ cnt \in [Account -> Nat]
    /\ limit \in Limits
    /\ at \in [Worker -> [pc : {"idle", "read", "wrong", "right", "lock"},
                            adm : Account \cup {Nobody}, seen : Nat, lim : Nat]]
    /\ \A r \in Worker : at[r].pc # "idle" => at[r].adm \in Account
    /\ rel \in [Releaser -> [adm : Account \cup {Nobody}, left : 0..Restore]]
    /\ \A t \in Releaser : rel[t] # NoRel => rel[t].adm \in Account
    /\ lost \subseteq Account
    /\ fails \in [Account -> 0..FailCap]
    /\ unstored \in [Account -> 0..ErrCap]

(* An account at or above every limit in use has a thread that will clear   *)
(* it, unless a fault destroyed that thread's effect: no interleaving of    *)
(* the unlocked read, write and start of loginProcess strands an account.   *)
LockHasReleaser ==
    \A a \in Account :
        (\A l \in Limits : cnt[a] >= l) => ReleasePending(a) \/ a \in lost

(* A request past the comparison holds a limit the configuration had.        *)
LimitHeld ==
    \A r \in Worker : at[r].pc \in {"wrong", "right", "lock"} => at[r].lim \in Limits

(* The inductive invariant behind LockHasReleaser. *)
LockInv == LockTypeOK /\ LimitHeld /\ LockHasReleaser

(* Every count a thread can still store for a is at least k: lost updates    *)
(* among overlapping requests cannot take the column below it.              *)
WriteFloor(a, k) ==
    /\ cnt[a] >= k
    /\ \A r \in Worker :
         at[r].adm = a /\ at[r].pc \in {"read", "wrong"} => at[r].seen + 1 >= k

(* An overlapping request may hide the failures of others once, but no      *)
(* sequence of them hides failures for ever: short of a reset, the least    *)
(* count that can still be stored never falls.                              *)
FloorNeverFalls ==
    [][\A a \in Account : \A k \in 1..cnt[a] :
         WriteFloor(a, k) /\ cnt'[a] # 0 => WriteFloor(a, k)']_lockVars

(* Lost updates let more wrong passwords through than the limit, but not    *)
(* without bound: two overlapping requests of loginProcess get at most 2, 5 *)
(* or 9 of them judged under a highest limit of 1, 2 or 3 before the count  *)
(* is reset, so l * (l + 3) / 2 and not the l that the page promises, and   *)
(* one more for each failure that the database did not store.               *)
FailuresBounded ==
    \A a \in Account : \E l \in Limits :
        2 * fails[a] <= l * (l + 3) + 2 * unstored[a]

(* login.block.failcount: "Access is temporarily blocked": an account that  *)
(* is blocked under every limit in use is open again some day, unless a     *)
(* fault destroyed its release.                                             *)
BlockIsTemporary ==
    \A a \in Account :
        (\A l \in Limits : cnt[a] >= l) ~> ((\E l \in Limits : cnt[a] < l) \/ a \in lost)
=============================================================================
