--------------------------- MODULE SessionRegistry ---------------------------
(***************************************************************************)
(* The registry of logged-in sessions: the static, unsynchronised          *)
(* ArrayList "sessions" of SessionManagement.  Tomcat threads running      *)
(* LoginController.setLoginEnv scan it, throw out earlier sessions of the  *)
(* same operator and append to it; a task scheduled every three seconds    *)
(* walks it by index and drops what is no longer in use.                   *)
(*                                                                         *)
(* Nothing orders these threads.  An iterator of the list fails when the   *)
(* list changed under it; an index read from it may name another entry     *)
(* when it is used; an append that overlaps another one stores under a     *)
(* size that is out of date.                                               *)
(***************************************************************************)
EXTENDS Integers, Sequences, FiniteSets, SequencesExt, Functions

CONSTANTS
    Session,    \* HttpSession objects; an unreferenced one stands for a new one
    Admin,      \* operator ids
    Login,      \* Tomcat threads inside setLoginEnv
    Nobody,     \* no credential
    Null,       \* an empty slot of the list
    Policies,   \* values of session.duplication.type while the server runs:
                \* "A" new first, "B" old first, "N" both
    Observe,    \* TRUE: Blind marks are kept (only OneUnlessBlind reads them)
    MaxLen,     \* bound: appends wait while the list is this long
    Events      \* subset of EventKinds that may happen in this instance

(* What users, the container, the database and the message broker may do.  *)
EventKinds == {"idle", "logout", "expire", "audit", "send", "code", "codeEnds"}

ASSUME RegistryConstants ==
    /\ Nobody \notin Admin /\ Null \notin Session
    /\ \A s \in Session : <<s, "blind">> \notin Session
    /\ Policies \subseteq {"A", "B", "N"}
    /\ Observe \in BOOLEAN /\ MaxLen \in Nat
    /\ Events \subseteq EventKinds

VARIABLES
    list,     \* the ArrayList: a sequence of sessions and empty slots
    cred,     \* cred[s]: operator in the SESSION_CREDENTIAL attribute of s
    valid,    \* sessions the container has not invalidated
    idle,     \* logged-in sessions not used for session.timeoutSecond
    stale,    \* threads whose iterator is older than the last change of list
    thr,      \* thr[p]: where login thread p is, and its locals
    sweep,    \* where the periodic pass is, and its locals
    blame     \* sessions hit by one of the known accidents, and <<s, "blind">>
              \* for one entered although isExistId was cut short or never
              \* asked (observation)

vars == <<list, cred, valid, idle, stale, thr, sweep, blame>>

-----------------------------------------------------------------------------
Entries == ToSet(list)

(* The mark of a session whose login did not finish its look at the list.   *)
Blind(s) == <<s, "blind">>

LoggedIn(s) == s \in valid /\ cred[s] # Nobody

IdleThr   == [pc |-> "idle", ses |-> Null, adm |-> Nobody,
              i |-> 0, e |-> Null, todo |-> {}]
IdleSweep == [pc |-> "idle", i |-> 0, e |-> Null]

(* s stands for an HttpSession that no list slot and no thread refers to:   *)
(* the container may hand it out as a new one.                              *)
Fresh(s, P) == /\ s \notin valid \cup Entries /\ sweep.e # s
               /\ \A p \in P : s \notin {thr[p].ses, thr[p].e}

Init ==
    /\ list = <<>>
    /\ cred = [s \in Session |-> Nobody]
    /\ valid = {} /\ idle = {} /\ stale = {} /\ blame = {}
    /\ thr = [p \in Login |-> IdleThr]
    /\ sweep = IdleSweep

Finish(p)   == thr' = [thr EXCEPT ![p] = IdleThr]
Goto(p, l)  == thr' = [thr EXCEPT ![p].pc = l]
SetAt(p, k) == thr' = [thr EXCEPT ![p].i = k]

(* ArrayList.add whose size was read as n: the slot n is written and the    *)
(* size becomes n + 1, whatever other threads did to the list since then.   *)
StoreAt(n, s) ==
    [k \in 1..(n + 1) |-> IF k = n + 1 THEN s
                          ELSE IF k <= Len(list) THEN list[k] ELSE Null]

(* HttpSession.invalidate on a set of sessions. *)
Invalidate(S) ==
    /\ valid' = valid \ S
    /\ idle' = idle \ S
    /\ cred' = [s \in Session |-> IF s \in S THEN Nobody ELSE cred[s]]

(* sessions.remove(k), meant for the entry e: another entry may be there.  *)
Removing(k, e) ==
    /\ list' = RemoveAt(list, k)
    /\ stale' = Login
    /\ blame' = IF list[k] # e THEN blame \cup ({list[k]} \ {Null}) ELSE blame

Same == UNCHANGED <<list, stale, blame>>

-----------------------------------------------------------------------------
(* Browsers and the container. *)

Touch(s) ==
    /\ s \in idle
    /\ idle' = idle \ {s}
    /\ UNCHANGED <<list, cred, valid, stale, thr, sweep, blame>>

GoIdle(s) ==
    /\ "idle" \in Events /\ LoggedIn(s) /\ s \notin idle
    /\ idle' = idle \cup {s}
    /\ UNCHANGED <<list, cred, valid, stale, thr, sweep, blame>>

(* HomeController.logout drops the credential and leaves the list alone. *)
Logout(s) ==
    /\ "logout" \in Events /\ LoggedIn(s)
    /\ cred' = [cred EXCEPT ![s] = Nobody]
    /\ idle' = idle \ {s}
    /\ UNCHANGED <<list, valid, stale, thr, sweep, blame>>

(* updateStatus.xcn, the page for the code that was sent by mail ("code"),   *)
(* and deleteSession.xcn, its time-out, which names no operator ("codeEnds"): *)
(* before anything is compared the session gets the operator's row as its    *)
(* credential, with no look at the list, no policy and no entry.             *)
StoreCredential(s, a) ==
    /\ (IF a = Nobody THEN "codeEnds" ELSE "code") \in Events
    /\ s \in valid \/ Fresh(s, Login)
    /\ valid' = valid \cup {s}
    /\ cred' = [cred EXCEPT ![s] = a]
    /\ idle' = idle \ {s}
    /\ blame' = (IF s \in valid THEN blame ELSE blame \ {s, Blind(s)})
                   \cup (IF a # Nobody /\ s \notin Entries THEN {s} ELSE {})
                   \cup (IF a # Nobody /\ Observe THEN {Blind(s)} ELSE {})
    /\ thr' = [p \in Login |-> [thr[p] EXCEPT !.todo = IF a # Nobody THEN @ \ {s} ELSE @]]
    /\ UNCHANGED <<list, stale, sweep>>

(* The container's own limit, ten minutes above the one of the sweep. *)
Expire(s) ==
    /\ "expire" \in Events /\ s \in valid /\ (s \in idle \/ cred[s] = Nobody)
    /\ \A p \in Login : thr[p].ses # s
    /\ Invalidate({s})
    /\ UNCHANGED <<list, stale, thr, sweep, blame>>

-----------------------------------------------------------------------------
(* A login: setLoginEnv of thread p, for operator thr[p].adm, on a session *)
(* the browser has or one the container creates for it.                    *)

Start(p, s, a) ==
    /\ thr[p].pc = "idle" /\ (s \in valid \/ Fresh(s, Login))
    /\ thr' = [thr EXCEPT ![p] = [IdleThr EXCEPT !.pc = "scan", !.ses = s, !.adm = a]]
    /\ stale' = stale \ {p}
    /\ valid' = valid \cup {s}
    /\ blame' = IF s \in valid THEN blame ELSE blame \ {s}
    /\ UNCHANGED <<list, cred, idle, sweep>>

(* The for-each loops of isExistId and isExistSession at cursor i. *)
AtEnd(p)    == thr[p].i = Len(list)
Readable(p) == /\ p \notin stale /\ thr[p].i < Len(list)
               /\ list[thr[p].i + 1] # Null
Current(p)  == list[thr[p].i + 1]
SameAdmin(p) == LoggedIn(Current(p)) /\ cred[Current(p)] = thr[p].adm

(* isExistId; setLoginEnv prints an exception and goes on as if none exists. *)
(* A removal that leaves the size at the cursor ends the loop with none.    *)
ScanStep(p) ==
    /\ thr[p].pc = "scan"
    /\ \/ AtEnd(p) /\ ~(Observe /\ p \in stale) /\ Goto(p, "create")
       \/ /\ Observe /\ ~Readable(p) /\ (AtEnd(p) => p \in stale)
          /\ thr' = [thr EXCEPT ![p].pc = "create", ![p].e = thr[p].ses]
       \/ ~Observe /\ ~AtEnd(p) /\ ~Readable(p) /\ Goto(p, "create")
       \/ /\ Readable(p)
          /\ IF SameAdmin(p) THEN Goto(p, "exists") ELSE SetAt(p, thr[p].i + 1)
    /\ UNCHANGED <<list, cred, valid, idle, sweep>> /\ Same

(* Faulty: the kick begins one below the end of the list. *)
ResolveOffByOne(p) ==
    /\ thr[p].pc = "exists" /\ "A" \in Policies /\ list # <<>>
    /\ thr' = [thr EXCEPT ![p].pc = "kick", ![p].i = Len(list) - 1, ![p].todo =
                 {s \in Entries \ {Null} : LoggedIn(s) /\ cred[s] = thr[p].adm}]
    /\ UNCHANGED <<list, cred, valid, idle, sweep>> /\ Same

(* Faulty: "B" is taken for "N". *)
ResolveOldIsBoth(p) ==
    /\ thr[p].pc = "exists"
    /\ "B" \in Policies /\ Goto(p, "create")
    /\ UNCHANGED <<list, cred, valid, idle, sweep>> /\ Same

(* What session.duplication.type makes of an existing session. *)
Resolve(p) ==
    /\ thr[p].pc = "exists"
    /\ \/ /\ "A" \in Policies
          /\ thr' = [thr EXCEPT ![p].pc = "kick", ![p].i = Len(list), ![p].todo =
                       {s \in Entries \ {Null} : LoggedIn(s) /\ cred[s] = thr[p].adm}]
       \/ "B" \in Policies /\ Finish(p)
       \/ "N" \in Policies /\ Goto(p, "create")
    /\ UNCHANGED <<list, cred, valid, idle, sweep>> /\ Same

(* Faulty: the loop runs once more below index 0. *)
KickStepPastZero(p) ==
    LET k == thr[p].i
    IN  /\ thr[p].pc = "kick"
        /\ IF k < 0 THEN Goto(p, "create") ELSE SetAt(p, k - 1)
        /\ UNCHANGED <<list, cred, valid, idle, sweep>> /\ Same

(* logoutAdminId, the loop head: get(i) and getAttribute throw on a short   *)
(* list, an empty slot and an invalidated session; the login fails then.    *)
KickStep(p) ==
    LET k == thr[p].i
    IN  /\ thr[p].pc = "kick"
        /\ \/ k = 0 /\ Goto(p, "create")
           \/ k > Len(list) /\ Finish(p)
           \/ /\ k \in 1..Len(list) /\ list[k] \notin valid
              /\ Finish(p)
           \/ /\ k \in 1..Len(list) /\ list[k] \in valid
              /\ cred[list[k]] # thr[p].adm
              /\ SetAt(p, k - 1)
           \/ /\ k \in 1..Len(list) /\ list[k] \in valid
              /\ cred[list[k]] = thr[p].adm
              /\ thr' = [thr EXCEPT ![p].pc = "kickOut", ![p].e = list[k]]
        /\ UNCHANGED <<list, cred, valid, idle, sweep>> /\ Same

(* The audit row or the message to the browser fails: the login fails. *)
KickFails(p) ==
    /\ thr[p].pc = "kickOut" /\ {"audit", "send"} \cap Events # {}
    /\ Finish(p)
    /\ UNCHANGED <<list, cred, valid, idle, sweep>> /\ Same

(* Faulty: the entry goes, removeSession is forgotten. *)
KickOutKeepsSession(p) ==
    LET k == thr[p].i
    IN  /\ thr[p].pc = "kickOut" /\ k <= Len(list)
        /\ Removing(k, thr[p].e)
        /\ thr' = [thr EXCEPT ![p].pc = "kick", ![p].i = k - 1, ![p].e = Null]
        /\ UNCHANGED <<valid, cred, idle, sweep>>

(* removeSession and sessions.remove(i), after the audit and the message. *)
KickOut(p) ==
    LET k == thr[p].i
        e == thr[p].e
    IN  /\ thr[p].pc = "kickOut"
        /\ IF e \notin valid
           THEN Finish(p) /\ Same /\ UNCHANGED <<valid, cred, idle>>
           ELSE /\ Invalidate({e})
                /\ IF k > Len(list)
                   THEN Finish(p) /\ Same
                   ELSE /\ Removing(k, e)
                        /\ thr' = [thr EXCEPT ![p].pc = "kick", ![p].i = k - 1,
                                              ![p].e = Null]
        /\ UNCHANGED sweep

(* createSession up to the list: the credential comes first.  getSession    *)
(* gives a new session when the one of the request is gone by now.          *)
Create(p) ==
    /\ thr[p].pc = "create"
    /\ \E s \in Session :
         /\ IF thr[p].ses \in valid THEN s = thr[p].ses
            ELSE Fresh(s, Login \ {p})
         /\ cred' = [cred EXCEPT ![s] = thr[p].adm]
         /\ valid' = valid \cup {s}
         /\ idle' = idle \ {s}
         /\ blame' = (blame \ {s, Blind(s)})
                       \cup IF thr[p].e # Null THEN {Blind(s)} ELSE {}
         /\ thr' = [q \in Login |->
                      IF q = p THEN [thr[p] EXCEPT !.pc = "check", !.ses = s, !.i = 0,
                                                   !.e = Null, !.todo = {}]
                      ELSE [thr[q] EXCEPT !.todo = @ \ {s}]]
    /\ stale' = stale \ {p}
    /\ UNCHANGED <<list, sweep>>

(* isExistSession; nothing catches its exception and the request fails,     *)
(* with the session logged in and not in the list.                          *)
CheckStep(p) ==
    /\ thr[p].pc = "check"
    /\ \/ AtEnd(p) /\ Goto(p, "add") /\ UNCHANGED blame
       \/ ~AtEnd(p) /\ ~Readable(p) /\ Finish(p) /\ blame' = blame \cup {thr[p].ses}
       \/ /\ Readable(p)
          /\ IF Current(p) = thr[p].ses THEN Finish(p) ELSE SetAt(p, thr[p].i + 1)
          /\ UNCHANGED blame
    /\ UNCHANGED <<list, cred, valid, idle, stale, sweep>>

(* sessions.add reads the size ... *)
AddRead(p) ==
    /\ thr[p].pc = "add" /\ Len(list) < MaxLen
    /\ thr' = [thr EXCEPT ![p].pc = "store", ![p].i = Len(list)]
    /\ UNCHANGED <<list, cred, valid, idle, sweep>> /\ Same

(* ... and stores under it.  What lay above that slot is lost. *)
AddStore(p) ==
    LET n == thr[p].i
    IN  /\ thr[p].pc = "store"
        /\ list' = StoreAt(n, thr[p].ses)
        /\ stale' = Login
        /\ blame' = blame \cup ({list[k] : k \in (n + 1)..Len(list)} \ {Null})
        /\ Finish(p)
        /\ UNCHANGED <<cred, valid, idle, sweep>>

-----------------------------------------------------------------------------
(* The pass of broadcastTimePeriodically, from the end of the list down. *)

NextEntry(k) == sweep' = IF k > 1 THEN [pc |-> "get", i |-> k - 1, e |-> Null]
                                  ELSE IdleSweep

SweepStart ==
    /\ sweep.pc = "idle" /\ list # <<>>
    /\ sweep' = [pc |-> "get", i |-> Len(list), e |-> Null]
    /\ UNCHANGED <<list, cred, valid, idle, thr, stale, blame>>

(* Faulty: an invalidated session is passed over instead of removed. *)
SweepGetSkips ==
    LET k == sweep.i
        e == list[k]
        See(l) == sweep' = [pc |-> l, i |-> k, e |-> e]
    IN  /\ sweep.pc = "get"
        /\ \/ k > Len(list) /\ sweep' = IdleSweep
           \/ /\ k <= Len(list)
              /\ \/ e \notin valid /\ NextEntry(k)
                 \/ e \in valid /\ cred[e] = Nobody /\ See("dropTell")
                 \/ e \in valid /\ e \in idle /\ See("out")
                 \/ e \in valid /\ cred[e] # Nobody /\ e \notin idle /\ NextEntry(k)
        /\ UNCHANGED <<list, cred, valid, idle, thr>> /\ Same

(* get(i) is outside the try block; an empty slot or an invalidated session *)
(* throws inside it.                                                        *)
SweepGet ==
    LET k == sweep.i
        e == list[k]
        See(l) == sweep' = [pc |-> l, i |-> k, e |-> e]
    IN  /\ sweep.pc = "get"
        /\ \/ k > Len(list) /\ sweep' = IdleSweep
           \/ /\ k <= Len(list)
              /\ \/ e \notin valid /\ See("drop")
                 \/ e \in valid /\ cred[e] = Nobody /\ See("dropTell")
                 \/ e \in valid /\ e \in idle /\ See("out")
                 \/ e \in valid /\ cred[e] # Nobody /\ e \notin idle /\ NextEntry(k)
        /\ UNCHANGED <<list, cred, valid, idle, thr>> /\ Same

(* sessions.remove(i); an index out of range ends the pass.  Without a      *)
(* credential the browser is told next, and a failure of that removes again. *)
SweepDrop ==
    LET k == sweep.i
        e == sweep.e
    IN  /\ sweep.pc \in {"drop", "dropTell"}
        /\ IF k > Len(list)
           THEN sweep' = IdleSweep /\ Same
           ELSE /\ list' = RemoveAt(list, k)
                /\ stale' = Login
                /\ blame' = IF list[k] # e \/ LoggedIn(e)
                            THEN blame \cup ({list[k]} \ {Null}) ELSE blame
                /\ \/ NextEntry(k)
                   \/ /\ sweep.pc = "dropTell" /\ "send" \in Events
                      /\ sweep' = [sweep EXCEPT !.pc = "drop"]
        /\ UNCHANGED <<cred, valid, idle, thr>>

(* The session was idle: audit row, message, removeSession, remove(i).  If  *)
(* one of them throws, the handler still removes the entry, and only that.  *)
SweepOut ==
    LET k == sweep.i
        e == sweep.e
    IN  /\ sweep.pc = "out"
        /\ \/ /\ IF e \in valid THEN "audit" \in Events /\ blame' = blame \cup {e}
                                ELSE UNCHANGED blame
              /\ sweep' = [sweep EXCEPT !.pc = "drop"]
              /\ UNCHANGED <<list, stale, cred, valid, idle>>
           \/ /\ e \in valid
              /\ Invalidate({e})
              /\ IF k > Len(list) THEN sweep' = IdleSweep /\ Same
                                  ELSE Removing(k, e) /\ NextEntry(k)
        /\ UNCHANGED thr

-----------------------------------------------------------------------------
User   == \E s \in Session :
              \/ Touch(s) \/ GoIdle(s) \/ Logout(s) \/ Expire(s)
              \/ \E a \in Admin \cup {Nobody} : StoreCredential(s, a)
Begin  == \E p \in Login, s \in Session, a \in Admin : Start(p, s, a)
Step(p) == \/ ScanStep(p) \/ Resolve(p) \/ KickStep(p) \/ KickOut(p) \/ Create(p)
           \/ CheckStep(p) \/ AddRead(p) \/ AddStore(p)
Sweep  == SweepStart \/ SweepGet \/ SweepDrop \/ SweepOut

Next == User \/ Begin \/ (\E p \in Login : Step(p) \/ KickFails(p)) \/ Sweep

Spec == Init /\ [][Next]_vars

(* Requests run to their end, and the scheduler starts every pass. *)
Fairness == (\A p \in Login : WF_vars(Step(p))) /\ WF_vars(Sweep)

FairSpec == Spec /\ Fairness

-----------------------------------------------------------------------------
TypeOK ==
    /\ list \in Seq(Session \cup {Null})
    /\ cred \in [Session -> Admin \cup {Nobody}]
    /\ valid \subseteq Session /\ idle \subseteq valid
    /\ stale \subseteq Login
    /\ blame \subseteq Session \cup {Blind(s) : s \in Session}
    /\ thr \in [Login ->
         [pc : {"idle", "scan", "exists", "kick", "kickOut", "create", "check",
                "add", "store"},
          ses : Session \cup {Null}, adm : Admin \cup {Nobody}, i : Nat,
          e : Session \cup {Null}, todo : SUBSET Session]]
    /\ sweep \in [pc : {"idle", "get", "drop", "dropTell", "out"}, i : Nat,
                  e : Session \cup {Null}]

(* The session is being entered by a login that has stored its credential. *)
Entering(s) == \E p \in Login : /\ thr[p].ses = s
                                /\ thr[p].pc \in {"check", "add", "store"}

(* A logged-in session is in the list, where isExistId, the kick and the    *)
(* idle logout can see it, unless one of the accidents named in this module *)
(* hit it: a credential stored by the page of the mail code, a failed       *)
(* isExistSession, an overlapping append, a removal by an index that moved, *)
(* a login between the look and the removal of the sweep, a failed audit    *)
(* row.  (createSession, statusUpdate, the two remove(i) loops.)            *)
RegisteredOrBlamed ==
    \A s \in Session : LoggedIn(s) /\ ~Entering(s) => s \in Entries \cup blame

(* session.duplication.type "A" and "B": an operator has one session.       *)
OnePerAdmin ==
    \A s, t \in Session : LoggedIn(s) /\ LoggedIn(t) /\ cred[s] = cred[t] => s = t

(* While logins come one at a time, the policies "A" and "B" leave an        *)
(* operator with a single session however the periodic pass interferes,     *)
(* unless isExistId was cut short by a removal or the page of the mail code *)
(* stored the credential, or an accident took an entry off the list.        *)
OneUnlessBlind ==
    \A s, t \in Session :
        LoggedIn(s) /\ LoggedIn(t) /\ cred[s] = cred[t] /\ s # t =>
            blame \cap {s, t, Blind(s), Blind(t)} # {}

(* logoutAdminId reaches every session of the operator that was in the list *)
(* when it began: those still logged in lie below its index, whoever else   *)
(* shortens the list meanwhile, unless an accident took them off the list.  *)
KickReachesAll ==
    \A p \in Login : \A s \in thr[p].todo :
        LoggedIn(s) /\ cred[s] = thr[p].adm =>
            \/ s \in blame
            \/ /\ thr[p].pc \in {"kick", "kickOut"}
               /\ \E k \in 1..Len(list) : k <= thr[p].i /\ list[k] = s

(* A kick shortens the list and so can end a pass before its last entry.    *)
Kicking == \E p \in Login : thr[p].pc = "kickOut"

(* An entry that is logged out or invalid leaves the list, or is logged in  *)
(* again: the three-second pass does not get stuck before it, save through  *)
(* logins that go on kicking.                                               *)
StaleEntryGoes ==
    \A s \in Session : (s \in Entries /\ ~LoggedIn(s)) ~>
                         (s \notin Entries \/ LoggedIn(s) \/ Kicking)

(* A registered session left unused is taken off the list or used again, or *)
(* logins go on kicking.                                                    *)
IdleEntryGoes ==
    \A s \in Session : (s \in Entries /\ s \in idle) ~>
                         (s \notin Entries \/ s \notin idle \/ Kicking)

(* What the periodic pass is for: no dead and no unused session stays on    *)
(* the list.  (checkSession goes down the list every three seconds.)        *)
EntriesGo == StaleEntryGoes /\ IdleEntryGoes
=============================================================================
