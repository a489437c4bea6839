----------------------------- MODULE MfaRequest -----------------------------
(* The second factor of a login.  Once the password is right, the session    *)
(* remembers the operator; loginMfaProcess deletes the operator's rows of    *)
(* UI_ADMIN_MFA, inserts one for a new request and sends the browser to the  *)
(* service.  The service's answer comes back in that browser, late, never or *)
(* again and again (a page of a form can be reloaded); loginMfaResult takes  *)
(* it if there is a row that is not out of date, deletes that row and logs   *)
(* the operator in.  An hourly job deletes the rows that are out of date.    *)
EXTENDS Integers, FiniteSets

CONSTANTS
    Admin,
    Session,      \* browsers
    MaxRequests,  \* bound: requests of loginMfaProcess
    MaxCalls,     \* bound: requests of loginMfaResult with a valid token
    Validity,     \* units of time for which a request can be answered
    NoAdmin

ASSUME MfaConstants ==
    /\ MaxRequests \in Nat /\ MaxCalls \in Nat /\ Validity \in Nat \ {0}
    /\ NoAdmin \notin Admin

VARIABLES
    pending,      \* the session attribute _MFA_PENDING_ADMIN_ID_
    rows,         \* UI_ADMIN_MFA: requests
    req,          \* the requests made: of whom, in which session
    left,         \* time until VALID_END_TIME; -1 is past it
    start,        \* loginMfaProcess, one for a session
    answer,       \* what the service said
    call,         \* loginMfaResult, one for a delivery of an answer
    superseded,   \* requests whose row a later start deleted (observation)
    consumed,     \* requests whose row an answer deleted (observation)
    overlapped,   \* requests two calls of which saw the row (observation)
    raced         \* operators two starts of whom overlapped (observation)

seen == <<superseded, consumed, overlapped, raced>>
vars == <<pending, rows, req, left, start, answer, call, seen>>

-----------------------------------------------------------------------------
Request  == 1..MaxRequests
Calls    == 1..MaxCalls
Made     == DOMAIN req
NoStart  == [pc |-> "idle", req |-> 0]
RowsOf(a) == {r \in rows : req[r].admin = a}

Init ==
    /\ pending = [s \in Session |-> NoAdmin]
    /\ rows = {} /\ req = <<>> /\ answer = <<>>
    /\ left = [r \in Request |-> Validity]
    /\ start = [s \in Session |-> NoStart]
    /\ call = [c \in Calls |-> [pc |-> "free", req |-> 0]]
    /\ superseded = {} /\ consumed = {} /\ overlapped = {} /\ raced = {}

(* loginProcess: the password was right. *)
Password(s, a) ==
    /\ pending[s] # a
    /\ pending' = [pending EXCEPT ![s] = a]
    /\ UNCHANGED <<rows, req, left, start, answer, call, seen>>

-----------------------------------------------------------------------------
(* loginMfaProcess. *)

(* The page sends the name that was typed with the password; another one is  *)
(* turned away.                                                              *)
Passed(s) == pending[s] # NoAdmin

(* The time runs from here on. *)
Begin(s) ==
    LET r == Cardinality(Made) + 1
    IN /\ Passed(s) /\ start[s].pc = "idle" /\ r <= MaxRequests
       /\ req' = [n \in Made \cup {r} |->
                    IF n = r THEN [admin |-> pending[s], in |-> s] ELSE req[n]]
       /\ start' = [start EXCEPT ![s] = [pc |-> "delete", req |-> r]]
       /\ UNCHANGED <<pending, rows, left, answer, call, seen>>

Inserting(a) == {s \in Session : start[s].pc = "insert" /\ req[start[s].req].admin = a}

(* Faulty: only rows that are out of date. *)
ReplacedStale(a) == {r \in RowsOf(a) : left[r] < 0}

Replaced(a) == RowsOf(a)

DeleteAdminMfa(s) ==
    /\ start[s].pc = "delete"
    /\ LET a == req[start[s].req].admin
       IN /\ rows' = rows \ Replaced(a)
          /\ superseded' = superseded \cup RowsOf(a)
          /\ raced' = raced \cup {b \in {a} : Inserting(b) # {}}
    /\ start' = [start EXCEPT ![s].pc = "insert"]
    /\ UNCHANGED <<pending, req, left, answer, call, consumed, overlapped>>

(* The browser then goes to the service. *)
InsertAdminMfa(s) ==
    /\ start[s].pc = "insert"
    /\ rows' = rows \cup {start[s].req}
    /\ start' = [start EXCEPT ![s] = NoStart]
    /\ UNCHANGED <<pending, req, left, answer, call, seen>>

(* The service, once for a request. *)
Answer(r, ok) ==
    /\ r \in Made \ DOMAIN answer
    /\ \A s \in Session : start[s].req # r
    /\ answer' = [n \in DOMAIN answer \cup {r} |-> IF n = r THEN ok ELSE answer[n]]
    /\ UNCHANGED <<pending, rows, req, left, start, call, seen>>

-----------------------------------------------------------------------------
(* loginMfaResult. *)

(* The answer arrives in the browser that was sent to the service, for the   *)
(* first time or again.                                                      *)
Deliver(c, r) ==
    /\ call[c].pc = "free" /\ \A d \in 1..(c - 1) : call[d].pc # "free"
    /\ r \in DOMAIN answer
    /\ pending' = [pending EXCEPT ![req[r].in] = NoAdmin]
    /\ call' = [call EXCEPT ![c] = [pc |-> IF answer[r] THEN "get" ELSE "remove", req |-> r]]
    /\ UNCHANGED <<rows, req, left, start, answer, seen>>

Valid(r) == r \in rows /\ left[r] > 0

GetAdminMfa(c) ==
    LET r == call[c].req
    IN /\ call[c].pc = "get"
       /\ call' = [call EXCEPT ![c].pc =
                     IF Valid(r) THEN "delete" ELSE IF left[r] > 0 THEN "refused" ELSE "late"]
       /\ overlapped' = overlapped \cup
             {q \in {r} : Valid(q) /\ \E d \in Calls : call[d] = [pc |-> "delete", req |-> q]}
       /\ UNCHANGED <<pending, rows, req, left, start, answer, superseded, consumed, raced>>

(* Faulty: the row is left to the hourly job. *)
OfNothing(r) == {} \cap {r}

(* Faulty: every row of the operator, as at the start. *)
OfAdmin(r) == RowsOf(req[r].admin)

OfRequest(r) == rows \cap {r}

DeleteAdminMfaByReqId(c) ==
    LET r == call[c].req
    IN /\ call[c].pc \in {"delete", "remove"}
       /\ rows' = rows \ OfRequest(r)
       /\ consumed' = consumed \cup {r}
       /\ call' = [call EXCEPT ![c].pc = IF @ = "delete" THEN "login" ELSE "failed"]
       /\ UNCHANGED <<pending, req, left, start, answer, superseded, overlapped, raced>>

-----------------------------------------------------------------------------
Tick ==
    /\ \E r \in Made : left[r] >= 0
    /\ left' = [r \in Request |-> IF r \in Made /\ left[r] >= 0 THEN left[r] - 1 ELSE left[r]]
    /\ UNCHANGED <<pending, rows, req, start, answer, call, seen>>

(* Faulty: rows that are still in time. *)
InTime == {r \in rows : left[r] > 0}

(* Faulty: nothing is ever so old. *)
VeryOld == {r \in rows : left[r] < -1}

OutOfDate == {r \in rows : left[r] < 0}

(* AdminMfaScheduler, every hour. *)
ClearAdminMfa ==
    /\ OutOfDate # {}
    /\ rows' = rows \ OutOfDate
    /\ UNCHANGED <<pending, req, left, start, answer, call, seen>>

Starting == \E s \in Session : Begin(s) \/ DeleteAdminMfa(s) \/ InsertAdminMfa(s)

Calling(c) == GetAdminMfa(c) \/ DeleteAdminMfaByReqId(c)

Next ==
    \/ \E s \in Session, a \in Admin : Password(s, a)
    \/ Starting
    \/ \E r \in Request, ok \in BOOLEAN : Answer(r, ok)
    \/ \E c \in Calls, r \in Request : Deliver(c, r)
    \/ \E c \in Calls : Calling(c)
    \/ Tick
    \/ ClearAdminMfa

Spec == Init /\ [][Next]_vars /\ WF_vars(Tick) /\ WF_vars(ClearAdminMfa)

-----------------------------------------------------------------------------
TypeOK ==
    /\ Made = 1..Cardinality(Made) /\ Made \subseteq Request
    /\ \A r \in Made : req[r] \in [admin : Admin, in : Session]
    /\ rows \subseteq Made /\ DOMAIN answer \subseteq Made
    /\ pending \in [Session -> Admin \cup {NoAdmin}]
    /\ left \in [Request -> -1..Validity]
    /\ start \in [Session -> [pc : {"idle", "delete", "insert"}, req : Request \cup {0}]]
    /\ call \in [Calls -> [pc : {"free", "get", "delete", "remove", "login", "refused",
                                 "late", "failed"}, req : Request \cup {0}]]
    /\ superseded \subseteq Made /\ consumed \subseteq Made /\ overlapped \subseteq Made
    /\ raced \subseteq Admin

(* Two requests of one operator are open at once only after two starts of    *)
(* theirs overlapped; a new one otherwise replaces the one before.           *)
OneRequestPerAdmin ==
    TypeOK /\ \A a \in Admin : Cardinality(RowsOf(a)) > 1 => a \in raced

(* An answer that comes in time is accepted, unless its request was answered *)
(* before or replaced by a later one of the same operator.                   *)
InTimeIsAccepted ==
    \A c \in Calls : call[c].pc = "refused" => call[c].req \in consumed \cup superseded

(* A request logs in once, however often its answer arrives; twice only when *)
(* the second call looked for the row before the first had deleted it.       *)
UsedOnce ==
    \A c, d \in Calls :
        c # d /\ call[c].pc = "login" /\ call[d] = call[c] => call[c].req \in overlapped

(* "Removes the consumed request only, so as not to affect other pending      *)
(* requests of the same administrator": a request that was sent to the       *)
(* service and is in time keeps its row, however starts, calls and the job   *)
(* interleave, until an answer to it is taken or another start of the same   *)
(* operator deletes the operator's rows; then its answer is still accepted.  *)
KeptForItsAnswer ==
    \A r \in Made :
        (\A s \in Session : start[s].req # r) /\ left[r] >= 0 /\ r \notin rows =>
            \/ \E c \in Calls : call[c].req = r /\ call[c].pc \in {"login", "failed"}
            \/ r \in superseded /\ \E q \in Made \ {r} : req[q].admin = req[r].admin

(* No row stays for ever. *)
RowsGo == \A r \in Request : r \in rows ~> r \notin rows
=============================================================================
