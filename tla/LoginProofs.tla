----------------------------- MODULE LoginProofs -----------------------------
(* Proofs about the login, for any value of the constants: the block after    *)
(* wrong passwords (AdminLock), and the second factor (MfaRequest).  The two  *)
(* share no variable: the blocks of UI_ADMIN do not touch UI_ADMIN_MFA.       *)
EXTENDS AdminLock, MfaRequest, FiniteSetTheorems, TLAPS

-----------------------------------------------------------------------------
(* The second factor. *)

Busy(s) == start[s].pc # "idle"

(* A start in progress holds a request of its own, which has no row yet and  *)
(* which nobody has answered.                                                *)
StartsAreNew ==
    /\ \A s \in Session :
          /\ Busy(s) => /\ start[s].req \in Made
                        /\ start[s].req \notin rows \cup superseded \cup consumed \cup DOMAIN answer
          /\ ~Busy(s) => start[s].req = 0
    /\ \A s, t \in Session : s # t /\ Busy(s) => start[s].req # start[t].req

(* Calls bring answers. *)
CallsAreAnswers ==
    \A c \in Calls : call[c].pc # "free" => call[c].req \in DOMAIN answer

(* A request that was started to the end has its row, or lost it for one of  *)
(* three reasons.                                                            *)
Accounted ==
    \A r \in Made :
        (\A s \in Session : start[s].req # r) =>
            r \in rows \cup superseded \cup consumed \/ left[r] < 0

(* What an answer deleted does not come back. *)
ConsumedIsGone == consumed \cap rows = {}

LoginsConsumed == \A c \in Calls : call[c].pc = "login" => call[c].req \in consumed

(* Two calls that have both seen the row of their request overlapped. *)
SawRow(c) == call[c].pc \in {"delete", "login"}

SeenByTwo ==
    \A c, d \in Calls :
        c # d /\ SawRow(c) /\ SawRow(d) /\ call[c].req = call[d].req => call[c].req \in overlapped

Refusals ==
    \A c \in Calls : call[c].pc = "refused" => call[c].req \in consumed \cup superseded

(* Rows and starts of one operator that exist side by side come from a race. *)
RowsRaced ==
    /\ \A r, q \in rows : r # q /\ req[r].admin = req[q].admin => req[r].admin \in raced
    /\ \A s \in Session : start[s].pc = "insert" =>
          \A q \in rows : req[q].admin = req[start[s].req].admin => req[q].admin \in raced
    /\ \A s, t \in Session :
          s # t /\ start[s].pc = "insert" /\ start[t].pc = "insert"
          /\ req[start[s].req].admin = req[start[t].req].admin
          => req[start[s].req].admin \in raced

IInv ==
    /\ TypeOK /\ StartsAreNew /\ CallsAreAnswers /\ Accounted
    /\ ConsumedIsGone /\ LoginsConsumed /\ SeenByTwo /\ Refusals /\ RowsRaced

-----------------------------------------------------------------------------
(* Requests are numbered in the order of their starts. *)
LEMMA Numbers ==
    ASSUME TypeOK
    PROVE  /\ Cardinality(Made) \in Nat
           /\ Cardinality(Made) + 1 \notin Made
           /\ Made \cup {Cardinality(Made) + 1} = 1..(Cardinality(Made) + 1)
           /\ Cardinality(1..(Cardinality(Made) + 1)) = Cardinality(Made) + 1
<1>1. IsFiniteSet(Request)
  BY FS_Interval, MfaConstants DEF Request
<1>2. Cardinality(Made) \in Nat
  BY <1>1, FS_Subset, FS_CardinalityType DEF TypeOK
<1>3. Made = 1..Cardinality(Made)
  BY DEF TypeOK
<1>4. Cardinality(1..(Cardinality(Made) + 1)) = Cardinality(Made) + 1
  BY <1>2, FS_Interval
<1> QED BY <1>2, <1>3, <1>4

LEMMA InitIInv == ASSUME Init PROVE IInv
<1>1. Made = {} /\ DOMAIN answer = {}
  BY DEF Init, Made
<1>2. Cardinality(Made) = 0
  BY <1>1, FS_EmptySet
<1>3. TypeOK
  BY <1>1, <1>2, MfaConstants DEF Init, TypeOK, NoStart, Request, Calls
<1> QED BY <1>1, <1>3 DEF Init, IInv, StartsAreNew, CallsAreAnswers, Accounted, ConsumedIsGone,
        LoginsConsumed, SeenByTwo, SawRow, Refusals, RowsRaced, Busy, NoStart

-----------------------------------------------------------------------------
(* One lemma for each action. *)

LEMMA PasswordKeeps ==
    ASSUME IInv, NEW s \in Session, NEW a \in Admin, Password(s, a)
    PROVE  IInv'
BY DEF IInv, TypeOK, StartsAreNew, CallsAreAnswers, Accounted, ConsumedIsGone, LoginsConsumed,
       SeenByTwo, SawRow, Refusals, RowsRaced, Busy, Password, Made, seen

LEMMA BeginKeeps ==
    ASSUME IInv, NEW s \in Session, Begin(s)
    PROVE  IInv'
<1> DEFINE r == Cardinality(Made) + 1
<1>1. /\ Made' = Made \cup {r} /\ r \notin Made /\ r \in Request /\ r # 0
      /\ Made' = 1..Cardinality(Made')
  <2>1. TypeOK
    BY DEF IInv
  <2>2. /\ Cardinality(Made) \in Nat /\ r \notin Made
        /\ Made \cup {r} = 1..r /\ Cardinality(1..r) = r
    BY <2>1, Numbers
  <2>3. Made' = Made \cup {r} /\ r <= MaxRequests
    BY DEF Begin, Made
  <2>4. r \in Request /\ r # 0
    BY <2>2, <2>3, MfaConstants DEF Request
  <2>5. Made' = 1..r
    BY <2>2, <2>3
  <2>6. Cardinality(Made') = r
    BY <2>2, <2>5
  <2> HIDE DEF r
  <2> QED BY <2>2, <2>3, <2>4, <2>5, <2>6
<1>2. /\ req'[r] = [admin |-> pending[s], in |-> s]
      /\ \A q \in Made : req'[q] = req[q]
  BY <1>1 DEF Begin, Made
<1>3. /\ start'[s] = [pc |-> "delete", req |-> r]
      /\ \A t \in Session \ {s} : start'[t] = start[t]
      /\ start' \in [Session -> [pc : {"idle", "delete", "insert"}, req : Request \cup {0}]]
  BY <1>1 DEF IInv, TypeOK, Begin
<1>4. pending[s] \in Admin
  BY DEF IInv, TypeOK, Begin, Passed
<1>5. TypeOK'
  <2>1. \A q \in Made' : req'[q] \in [admin : Admin, in : Session]
    BY <1>1, <1>2, <1>4 DEF IInv, TypeOK
  <2>2. /\ start' \in [Session -> [pc : {"idle", "delete", "insert"}, req : Request \cup {0}]]
        /\ Made' = 1..Cardinality(Made') /\ Made' \subseteq Request /\ Made \subseteq Made'
    BY <1>1, <1>3 DEF IInv, TypeOK
  <2> QED BY <2>1, <2>2 DEF IInv, TypeOK, Begin, seen
<1>6. StartsAreNew'
  BY <1>1, <1>3 DEF IInv, TypeOK, StartsAreNew, Busy, Begin, seen
<1>7. CallsAreAnswers'
  BY DEF IInv, CallsAreAnswers, Begin
<1>8. Accounted'
  BY <1>1, <1>3 DEF IInv, StartsAreNew, Busy, Accounted, Begin, seen
<1>9. RowsRaced'
  BY <1>1, <1>2, <1>3 DEF IInv, TypeOK, StartsAreNew, Busy, RowsRaced, Begin, seen
<1> QED BY <1>5, <1>6, <1>7, <1>8, <1>9
     DEF IInv, ConsumedIsGone, LoginsConsumed, SeenByTwo, SawRow, Refusals, Begin, seen

LEMMA DeleteAdminMfaKeeps ==
    ASSUME IInv, NEW s \in Session, DeleteAdminMfa(s)
    PROVE  IInv'
<1> DEFINE r == start[s].req
           a == req[r].admin
<1>1. /\ start[s].pc = "delete" /\ Busy(s) /\ r \in Made /\ a \in Admin
      /\ RowsOf(a) \subseteq rows /\ rows \subseteq Made
  BY DEF IInv, TypeOK, StartsAreNew, Busy, DeleteAdminMfa, RowsOf
<1>2. /\ rows' = rows \ RowsOf(a) /\ superseded' = superseded \cup RowsOf(a)
      /\ UNCHANGED <<pending, req, left, answer, call, consumed, overlapped>>
  BY DEF DeleteAdminMfa, Replaced
<1>3. /\ start'[s] = [pc |-> "insert", req |-> r]
      /\ \A t \in Session \ {s} : start'[t] = start[t]
      /\ start' \in [Session -> [pc : {"idle", "delete", "insert"}, req : Request \cup {0}]]
  BY <1>1 DEF IInv, TypeOK, DeleteAdminMfa
<1>4. raced \subseteq raced' /\ raced' \subseteq Admin
  BY <1>1 DEF IInv, TypeOK, DeleteAdminMfa
<1>5. \A t \in Session \ {s} :
         start[t].pc = "insert" /\ req[start[t].req].admin = a => a \in raced'
  <2>1. raced' = raced \cup {b \in {a} : Inserting(b) # {}}
    BY DEF DeleteAdminMfa
  <2>2. SUFFICES ASSUME NEW t \in Session \ {s},
                        start[t].pc = "insert", req[start[t].req].admin = a
                 PROVE  Inserting(a) # {}
    BY <2>1
  <2> QED BY <2>2 DEF Inserting
<1>6. TypeOK'
  BY <1>1, <1>2, <1>3, <1>4 DEF IInv, TypeOK, Made
<1>7. StartsAreNew'
  <2>1. \A t \in Session : (Busy(t))' = Busy(t) /\ start'[t].req = start[t].req
    BY <1>1, <1>3 DEF Busy
  <2>2. rows' \cup superseded' \subseteq rows \cup superseded /\ Made' = Made
    BY <1>1, <1>2 DEF Made
  <2>3. DOMAIN answer' = DOMAIN answer /\ consumed' = consumed
    BY <1>2
  <2>4. ASSUME NEW t \in Session
        PROVE  /\ (Busy(t))' => /\ start'[t].req \in Made'
                                /\ start'[t].req \notin rows' \cup superseded' \cup consumed'
                                                         \cup DOMAIN answer'
               /\ ~(Busy(t))' => start'[t].req = 0
    BY <2>1, <2>2, <2>3 DEF IInv, StartsAreNew
  <2>5. \A t, u \in Session : t # u /\ (Busy(t))' => start'[t].req # start'[u].req
    BY <2>1 DEF IInv, StartsAreNew
  <2> QED BY <2>4, <2>5 DEF StartsAreNew
<1>8. Accounted' /\ Refusals' /\ ConsumedIsGone'
  BY <1>1, <1>2, <1>3 DEF IInv, Accounted, Refusals, ConsumedIsGone, Made
<1>9. RowsRaced'
  <2>1. \A q \in rows' : q \in rows /\ req[q].admin # a
    BY <1>2 DEF RowsOf
  <2> QED BY <1>1, <1>2, <1>3, <1>4, <1>5, <2>1 DEF IInv, RowsRaced
<1> QED BY <1>2, <1>6, <1>7, <1>8, <1>9 DEF IInv, CallsAreAnswers, LoginsConsumed, SeenByTwo, SawRow

LEMMA InsertAdminMfaKeeps ==
    ASSUME IInv, NEW s \in Session, InsertAdminMfa(s)
    PROVE  IInv'
<1> DEFINE r == start[s].req
<1>1. /\ start[s].pc = "insert" /\ Busy(s) /\ r \in Made
      /\ r \notin rows \cup superseded \cup consumed \cup DOMAIN answer /\ r # 0
  BY DEF IInv, TypeOK, StartsAreNew, Busy, InsertAdminMfa, Request
<1>2. /\ rows' = rows \cup {r}
      /\ UNCHANGED <<pending, req, left, answer, call, superseded, consumed, overlapped, raced>>
  BY DEF InsertAdminMfa, seen
<1>3. /\ start'[s] = [pc |-> "idle", req |-> 0]
      /\ \A t \in Session \ {s} : start'[t] = start[t]
      /\ start' \in [Session -> [pc : {"idle", "delete", "insert"}, req : Request \cup {0}]]
  BY DEF IInv, TypeOK, InsertAdminMfa, NoStart
<1>4. TypeOK'
  BY <1>1, <1>2, <1>3 DEF IInv, TypeOK, Made
<1>5. StartsAreNew'
  <2>1. 0 \notin Made /\ Made' = Made
    BY <1>2 DEF IInv, TypeOK, Request, Made
  <2>2. \A t \in Session \ {s} : Busy(t) => start[t].req # r /\ start[t].req # 0
    BY <1>1, <2>1 DEF IInv, StartsAreNew
  <2>3. ASSUME NEW t \in Session
        PROVE  /\ Busy(t)' => /\ start'[t].req \in Made'
                              /\ start'[t].req \notin rows' \cup superseded' \cup consumed'
                                                       \cup DOMAIN answer'
               /\ ~Busy(t)' => start'[t].req = 0
    BY <1>2, <1>3, <2>1, <2>2 DEF IInv, StartsAreNew, Busy
  <2>4. \A t, u \in Session : t # u /\ Busy(t)' => start'[t].req # start'[u].req
    BY <1>3, <2>2 DEF IInv, StartsAreNew, Busy
  <2> QED BY <2>3, <2>4 DEF StartsAreNew
<1>6. Accounted' /\ ConsumedIsGone'
  BY <1>1, <1>2, <1>3 DEF IInv, Accounted, ConsumedIsGone, Made
<1>7. RowsRaced'
  BY <1>1, <1>2, <1>3 DEF IInv, RowsRaced
<1> QED BY <1>2, <1>4, <1>5, <1>6, <1>7
     DEF IInv, CallsAreAnswers, LoginsConsumed, SeenByTwo, SawRow, Refusals

LEMMA AnswerKeeps ==
    ASSUME IInv, NEW r \in Request, NEW ok \in BOOLEAN, Answer(r, ok)
    PROVE  IInv'
<1>1. /\ DOMAIN answer' = DOMAIN answer \cup {r} /\ r \in Made
      /\ \A s \in Session : start[s].req # r
      /\ UNCHANGED <<pending, rows, req, left, start, call,
                     superseded, consumed, overlapped, raced>>
  BY DEF Answer, seen
<1>2. TypeOK'
  BY <1>1 DEF IInv, TypeOK, Made
<1>3. StartsAreNew' /\ CallsAreAnswers'
  BY <1>1 DEF IInv, StartsAreNew, CallsAreAnswers, Busy, Made
<1> QED BY <1>1, <1>2, <1>3 DEF IInv, Accounted, ConsumedIsGone, LoginsConsumed, SeenByTwo,
                               SawRow, Refusals, RowsRaced, Made

LEMMA DeliverKeeps ==
    ASSUME IInv, NEW c \in Calls, NEW r \in Request, Deliver(c, r)
    PROVE  IInv'
<1>1. /\ r \in DOMAIN answer
      /\ UNCHANGED <<rows, req, left, start, answer, superseded, consumed, overlapped, raced>>
  BY DEF Deliver, seen
<1>2. /\ call'[c].pc \in {"get", "remove"} /\ call'[c].req = r
      /\ \A d \in Calls \ {c} : call'[d] = call[d]
  BY DEF IInv, TypeOK, Deliver
<1>3. TypeOK'
  <2>1. pending' \in [Session -> Admin \cup {NoAdmin}]
    BY DEF IInv, TypeOK, Deliver
  <2>2. call' \in [Calls -> [pc : {"free", "get", "delete", "remove", "login", "refused",
                                   "late", "failed"}, req : Request \cup {0}]]
    BY DEF IInv, TypeOK, Deliver
  <2> QED BY <1>1, <2>1, <2>2 DEF IInv, TypeOK, Made
<1>4. CallsAreAnswers' /\ LoginsConsumed' /\ SeenByTwo' /\ Refusals'
  BY <1>1, <1>2 DEF IInv, CallsAreAnswers, LoginsConsumed, SeenByTwo, SawRow, Refusals
<1> QED BY <1>1, <1>3, <1>4 DEF IInv, StartsAreNew, Busy, Accounted, ConsumedIsGone, RowsRaced, Made

LEMMA GetAdminMfaKeeps ==
    ASSUME IInv, NEW c \in Calls, GetAdminMfa(c)
    PROVE  IInv'
<1> DEFINE r == call[c].req
<1>1. /\ call[c].pc = "get" /\ r \in DOMAIN answer
      /\ UNCHANGED <<pending, rows, req, left, start, answer, superseded, consumed, raced>>
  BY DEF IInv, CallsAreAnswers, GetAdminMfa
<1>2. /\ call'[c].req = r
      /\ call'[c].pc = IF Valid(r) THEN "delete" ELSE IF left[r] > 0 THEN "refused" ELSE "late"
      /\ \A d \in Calls \ {c} : call'[d] = call[d]
      /\ call' \in [Calls -> [pc : {"free", "get", "delete", "remove", "login", "refused",
                                    "late", "failed"}, req : Request \cup {0}]]
  BY DEF IInv, TypeOK, GetAdminMfa
<1>3. r \in Made /\ overlapped \subseteq overlapped' /\ overlapped' \subseteq Made
  BY <1>1 DEF IInv, TypeOK, GetAdminMfa
<1>4. TypeOK'
  BY <1>1, <1>2, <1>3 DEF IInv, TypeOK, Made
<1>5. CallsAreAnswers' /\ LoginsConsumed'
  BY <1>1, <1>2 DEF IInv, CallsAreAnswers, LoginsConsumed
<1>6. SeenByTwo'
  <2>1. \A d \in Calls \ {c} : Valid(r) /\ SawRow(d) /\ call[d].req = r => r \in overlapped'
    <3> SUFFICES ASSUME NEW d \in Calls \ {c}, Valid(r), SawRow(d), call[d].req = r
                 PROVE  r \in overlapped'
      OBVIOUS
    <3>1. call[d].pc # "login"
      BY DEF IInv, ConsumedIsGone, LoginsConsumed, Valid
    <3>2. call[d].pc = "delete"
      BY <3>1 DEF SawRow
    <3>3. call[d] = [pc |-> "delete", req |-> r]
      BY <3>2 DEF IInv, TypeOK
    <3> QED BY <3>3 DEF GetAdminMfa
  <2>2. SawRow(c)' => Valid(r)
    BY <1>2 DEF SawRow
  <2>3. \A d \in Calls \ {c} : SawRow(d)' = SawRow(d) /\ call'[d].req = call[d].req
    BY <1>2 DEF SawRow
  <2> QED BY <1>2, <1>3, <2>1, <2>2, <2>3 DEF IInv, SeenByTwo
<1>7. Refusals'
  <2>1. call'[c].pc = "refused" => r \in superseded \cup consumed
    <3> SUFFICES ASSUME call'[c].pc = "refused"
                 PROVE  r \in superseded \cup consumed
      OBVIOUS
    <3>1. ~Valid(r) /\ left[r] > 0
      BY <1>2
    <3>2. \A s \in Session : start[s].req # r
      BY <1>1, <1>3 DEF IInv, TypeOK, StartsAreNew, Busy, Request
    <3>3. left[r] \in -1..Validity
      BY <1>3 DEF IInv, TypeOK
    <3> QED BY <1>3, <3>1, <3>2, <3>3, MfaConstants DEF IInv, Accounted, Valid
  <2> QED BY <1>1, <1>2, <2>1 DEF IInv, Refusals
<1> QED BY <1>1, <1>4, <1>5, <1>6, <1>7
     DEF IInv, StartsAreNew, Busy, Accounted, ConsumedIsGone, RowsRaced, Made

LEMMA DeleteAdminMfaByReqIdKeeps ==
    ASSUME IInv, NEW c \in Calls, DeleteAdminMfaByReqId(c)
    PROVE  IInv'
<1> DEFINE r == call[c].req
<1>1. /\ call[c].pc \in {"delete", "remove"} /\ r \in DOMAIN answer /\ r \in Made
      /\ rows' = rows \ {r} /\ consumed' = consumed \cup {r}
      /\ UNCHANGED <<pending, req, left, start, answer, superseded, overlapped, raced>>
  BY DEF IInv, TypeOK, CallsAreAnswers, DeleteAdminMfaByReqId, OfRequest
<1>2. /\ call'[c].req = r
      /\ call'[c].pc = IF call[c].pc = "delete" THEN "login" ELSE "failed"
      /\ \A d \in Calls \ {c} : call'[d] = call[d]
      /\ call' \in [Calls -> [pc : {"free", "get", "delete", "remove", "login", "refused",
                                    "late", "failed"}, req : Request \cup {0}]]
  BY DEF IInv, TypeOK, DeleteAdminMfaByReqId
<1>3. TypeOK'
  BY <1>1, <1>2 DEF IInv, TypeOK, Made
<1>4. StartsAreNew'
  BY <1>1 DEF IInv, StartsAreNew, Busy, Made
<1>5. Accounted' /\ ConsumedIsGone' /\ RowsRaced'
  BY <1>1 DEF IInv, Accounted, ConsumedIsGone, RowsRaced, Made
<1>6. CallsAreAnswers' /\ LoginsConsumed' /\ Refusals'
  BY <1>1, <1>2 DEF IInv, CallsAreAnswers, LoginsConsumed, Refusals
<1>7. SeenByTwo'
  <2>1. \A d \in Calls : /\ call'[d].req = call[d].req
                         /\ SawRow(d)' => SawRow(d)
    BY <1>2 DEF SawRow
  <2> QED BY <1>1, <2>1 DEF IInv, SeenByTwo
<1> QED BY <1>3, <1>4, <1>5, <1>6, <1>7 DEF IInv

LEMMA TickKeeps ==
    ASSUME IInv, Tick
    PROVE  IInv'
<1>1. UNCHANGED <<pending, rows, req, start, answer, call,
                  superseded, consumed, overlapped, raced>>
  BY DEF Tick, seen
<1>2. left' = [r \in Request |-> IF r \in Made /\ left[r] >= 0 THEN left[r] - 1 ELSE left[r]]
  BY DEF Tick
<1>3. /\ left' \in [Request -> -1..Validity]
      /\ \A r \in Request : left[r] < 0 => left'[r] < 0
  BY <1>2, MfaConstants DEF IInv, TypeOK
<1>4. TypeOK'
  BY <1>1, <1>3 DEF IInv, TypeOK, Made
<1>5. Accounted'
  BY <1>1, <1>3 DEF IInv, TypeOK, Accounted, Made
<1> QED BY <1>1, <1>4, <1>5 DEF IInv, StartsAreNew, CallsAreAnswers, Busy, ConsumedIsGone,
        LoginsConsumed, SeenByTwo, SawRow, Refusals, RowsRaced, Made

LEMMA ClearAdminMfaKeeps ==
    ASSUME IInv, ClearAdminMfa
    PROVE  IInv'
<1>1. /\ rows' = rows \ OutOfDate
      /\ UNCHANGED <<pending, req, left, start, answer, call,
                     superseded, consumed, overlapped, raced>>
  BY DEF ClearAdminMfa, seen
<1>2. TypeOK'
  BY <1>1 DEF IInv, TypeOK, Made
<1>3. StartsAreNew'
  BY <1>1 DEF IInv, StartsAreNew, Busy, Made
<1>4. Accounted'
  BY <1>1 DEF IInv, Accounted, OutOfDate, Made
<1> QED BY <1>1, <1>2, <1>3, <1>4 DEF IInv, CallsAreAnswers, ConsumedIsGone, LoginsConsumed,
        SeenByTwo, SawRow, Refusals, RowsRaced

LEMMA StutterKeeps == ASSUME IInv, UNCHANGED vars PROVE IInv'
BY DEF IInv, TypeOK, StartsAreNew, CallsAreAnswers, Busy, Accounted, ConsumedIsGone,
       LoginsConsumed, SeenByTwo, SawRow, Refusals, RowsRaced, Made, vars, seen

-----------------------------------------------------------------------------
LEMMA StepIInv == ASSUME IInv, [Next]_vars PROVE IInv'
<1>1. CASE \E s \in Session, a \in Admin : Password(s, a)
  BY <1>1, PasswordKeeps
<1>2. CASE Starting
  BY <1>2, BeginKeeps, DeleteAdminMfaKeeps, InsertAdminMfaKeeps DEF Starting
<1>3. CASE \E r \in Request, ok \in BOOLEAN : Answer(r, ok)
  BY <1>3, AnswerKeeps
<1>4. CASE \E c \in Calls, r \in Request : Deliver(c, r)
  BY <1>4, DeliverKeeps
<1>5. CASE \E c \in Calls : Calling(c)
  BY <1>5, GetAdminMfaKeeps, DeleteAdminMfaByReqIdKeeps DEF Calling
<1>6. CASE Tick
  BY <1>6, TickKeeps
<1>7. CASE ClearAdminMfa
  BY <1>7, ClearAdminMfaKeeps
<1>8. CASE UNCHANGED vars
  BY <1>8, StutterKeeps
<1> QED BY <1>1, <1>2, <1>3, <1>4, <1>5, <1>6, <1>7, <1>8 DEF Next

(* The inductive invariant holds. *)
THEOREM Inductive == Spec => []IInv
<1>1. Init => IInv
  BY InitIInv
<1>2. IInv /\ [Next]_vars => IInv'
  BY StepIInv
<1> QED BY <1>1, <1>2, PTL DEF Spec

(* Whatever overlaps, an answer in time is refused only if its request was   *)
(* answered before or replaced by a later start (getAdminMfa finds no row).  *)
THEOREM AnswersInTimeAreAccepted == Spec => []InTimeIsAccepted
<1>1. IInv => InTimeIsAccepted
  BY DEF IInv, Refusals, InTimeIsAccepted
<1> QED BY <1>1, Inductive, PTL

(* Without overlapping deliveries a request logs in once, for any number of  *)
(* deliveries (getAdminMfa, then deleteAdminMfaByReqId).                     *)
THEOREM RequestsAreUsedOnce == Spec => []UsedOnce
<1>1. IInv => UsedOnce
  BY DEF IInv, SeenByTwo, SawRow, UsedOnce
<1> QED BY <1>1, Inductive, PTL

(* The types; and without overlapping starts an operator has one open request *)
(* at most (deleteAdminMfa, then insertAdminMfa).                             *)
THEOREM RequestsAreReplaced == Spec => []OneRequestPerAdmin
<1>1. IInv => OneRequestPerAdmin
  <2> SUFFICES ASSUME IInv, NEW a \in Admin, Cardinality(RowsOf(a)) > 1, a \notin raced
               PROVE  FALSE
    BY DEF IInv, OneRequestPerAdmin
  <2>1. \A r, q \in RowsOf(a) : r = q
    BY DEF IInv, RowsRaced, RowsOf
  <2>2. CASE RowsOf(a) = {}
    BY <2>2, FS_EmptySet
  <2>3. CASE RowsOf(a) # {}
    <3>1. PICK r \in RowsOf(a) : TRUE
      BY <2>3
    <3>2. RowsOf(a) = {r}
      BY <2>1, <3>1
    <3>3. Cardinality({r}) = 1
      BY FS_Singleton
    <3> QED BY <3>2, <3>3
  <2> QED BY <2>2, <2>3
<1> QED BY <1>1, Inductive, PTL

(* What was consumed was consumed by a call for it, and what was superseded,   *)
(* by another request of the operator.                                       *)
ConsumedByCalls ==
    \A r \in consumed : \E c \in Calls : call[c].req = r /\ call[c].pc \in {"login", "failed"}

SupersededByOthers ==
    \A r \in superseded : r \in Made /\ \E q \in Made \ {r} : req[q].admin = req[r].admin

KInv == ConsumedByCalls /\ SupersededByOthers

LEMMA NextKInv ==
    ASSUME IInv, KInv, [Next]_vars
    PROVE  KInv'
<1>1. \A c \in Calls :
         call[c].pc \in {"login", "failed"} => call'[c] = call[c]
  <2>1. CASE \E c \in Calls : Calling(c)
    BY <2>1 DEF IInv, TypeOK, Calling, GetAdminMfa, DeleteAdminMfaByReqId
  <2>2. CASE \E c \in Calls, r \in Request : Deliver(c, r)
    BY <2>2 DEF IInv, TypeOK, Deliver
  <2> QED BY <2>1, <2>2 DEF Next, vars, Password, Starting, Begin, DeleteAdminMfa, InsertAdminMfa,
                             Answer, Tick, ClearAdminMfa
<1>2. ConsumedByCalls'
  <2>1. CASE UNCHANGED consumed
    BY <1>1, <2>1 DEF KInv, ConsumedByCalls
  <2>2. CASE \E c \in Calls : DeleteAdminMfaByReqId(c)
    <3>1. PICK c \in Calls : DeleteAdminMfaByReqId(c)
      BY <2>2
    <3>2. call'[c].req = call[c].req /\ call'[c].pc \in {"login", "failed"}
      BY <3>1 DEF IInv, TypeOK, DeleteAdminMfaByReqId
    <3>3. consumed' = consumed \cup {call[c].req}
      BY <3>1 DEF DeleteAdminMfaByReqId
    <3> QED BY <1>1, <3>2, <3>3 DEF KInv, ConsumedByCalls
  <2> QED BY <2>1, <2>2 DEF Next, vars, seen, Password, Starting, Begin, DeleteAdminMfa,
               InsertAdminMfa, Answer, Deliver, Calling, GetAdminMfa, Tick, ClearAdminMfa
<1>3. Made \subseteq Made' /\ \A r \in Made : req'[r] = req[r]
  <2>1. CASE \E s \in Session : Begin(s)
    <3>1. Cardinality(Made) + 1 \notin Made
      BY Numbers DEF IInv
    <3> QED BY <2>1, <3>1 DEF Begin, Made
  <2> QED BY <2>1 DEF Next, vars, Password, Starting, DeleteAdminMfa,
               InsertAdminMfa, Answer, Deliver, Calling, GetAdminMfa, DeleteAdminMfaByReqId,
               Tick, ClearAdminMfa, Made
<1>4. SupersededByOthers'
  <2>1. CASE superseded' = superseded
    BY <1>3, <2>1 DEF KInv, SupersededByOthers
  <2>2. CASE \E s \in Session : DeleteAdminMfa(s)
    <3>1. PICK s \in Session : DeleteAdminMfa(s)
      BY <2>2
    <3> DEFINE q == start[s].req
    <3>2. q \in Made /\ q \notin rows
      BY <3>1 DEF IInv, StartsAreNew, Busy, DeleteAdminMfa
    <3>3. superseded' = superseded \cup RowsOf(req[q].admin)
      BY <3>1 DEF DeleteAdminMfa
    <3>4. \A r \in RowsOf(req[q].admin) :
             r \in Made /\ q \in Made \ {r} /\ req[q].admin = req[r].admin
      BY <3>2 DEF IInv, TypeOK, RowsOf
    <3> QED BY <1>3, <3>3, <3>4 DEF KInv, SupersededByOthers
  <2> QED BY <2>1, <2>2 DEF Next, vars, seen, Password, Starting, Begin,
               InsertAdminMfa, Answer, Deliver, Calling, GetAdminMfa, DeleteAdminMfaByReqId,
               Tick, ClearAdminMfa
<1> QED BY <1>2, <1>4 DEF KInv

(* A request that is in time loses its row to its own answer or to another    *)
(* start of the same operator only (deleteAdminMfaByReqId, deleteAdminMfa).   *)
THEOREM RequestsAreKept == Spec => []KeptForItsAnswer
<1>1. Init => KInv
  BY DEF Init, KInv, ConsumedByCalls, SupersededByOthers
<1>2. IInv /\ KInv /\ [Next]_vars => KInv'
  BY NextKInv
<1>3. IInv /\ KInv => KeptForItsAnswer
  BY DEF IInv, TypeOK, Accounted, KInv, ConsumedByCalls, SupersededByOthers, KeptForItsAnswer
<1> QED BY <1>1, <1>2, <1>3, Inductive, PTL DEF Spec

-----------------------------------------------------------------------------
(* The block after wrong passwords. *)

LEMMA LockInitTypeOK == LockInit => LockTypeOK
  BY ConstantsOK DEF LockInit, LockTypeOK, IdleReq, NoRel

(* Types are preserved by every step. *)
LEMMA LockNextTypeOK == LockTypeOK /\ [LockNext]_lockVars => LockTypeOK'
<1> SUFFICES ASSUME LockTypeOK, [LockNext]_lockVars PROVE LockTypeOK'
  OBVIOUS
<1> USE ConstantsOK DEF LockTypeOK
<1>1. ASSUME NEW r \in Worker, NEW a \in Account, ReadRow(r, a) PROVE LockTypeOK'
  BY <1>1 DEF ReadRow
<1>2. ASSUME NEW r \in Worker, RefuseBlocked(r) \/ RefuseOther(r) PROVE LockTypeOK'
  <2>1. at' = [at EXCEPT ![r] = IdleReq]
        /\ UNCHANGED <<cnt, limit, rel, lost, fails, unstored>>
    BY <1>2 DEF RefuseBlocked, RefuseOther
  <2> QED
    BY <2>1 DEF IdleReq
<1>3. ASSUME NEW r \in Worker, JudgeWrong(r) PROVE LockTypeOK'
  <2>1. fails' \in [Account -> 0..FailCap]
    BY <1>3 DEF JudgeWrong
  <2> QED
    BY <1>3, <2>1 DEF JudgeWrong, Judged
<1>4. ASSUME NEW r \in Worker, JudgeRight(r) PROVE LockTypeOK'
  BY <1>4 DEF JudgeRight, Judged
<1>5. ASSUME NEW r \in Worker, WriteCount(r) PROVE LockTypeOK'
  BY <1>5 DEF WriteCount, Blocked, IdleReq
<1>14. ASSUME NEW r \in Worker, WriteFails(r) PROVE LockTypeOK'
  <2>1. unstored' \in [Account -> 0..ErrCap]
    BY <1>14 DEF WriteFails
  <2> QED
    BY <1>14, <2>1 DEF WriteFails, IdleReq
<1>6. ASSUME NEW r \in Worker, StartRelease(r) PROVE LockTypeOK'
  BY <1>6 DEF StartRelease, NoRel, IdleReq
<1>7. ASSUME NEW r \in Worker, LoginOK(r) PROVE LockTypeOK'
  BY <1>7 DEF LoginOK, ClearCount, IdleReq
<1>8. ASSUME NEW t \in Releaser, Wake(t) \/ WakeFails(t) PROVE LockTypeOK'
  BY <1>8 DEF Wake, WakeFails, ClearCount, NoRel
<1>9. ASSUME NEW a \in Account, EditAdmin(a) \/ Rename(a) PROVE LockTypeOK'
  <2>1. CASE EditAdmin(a)
    BY <2>1 DEF EditAdmin, ClearCount
  <2>2. CASE Rename(a)
    <3>1. /\ rel' \in [Releaser -> [adm : Account \cup {Nobody}, left : 0..Restore]]
          /\ \A t \in Releaser : rel'[t] # NoRel => rel'[t].adm \in Account
      BY <2>2 DEF Rename, NoRel
    <3>2. /\ at' \in [Worker -> [pc : {"idle", "read", "wrong", "right", "lock"},
                                adm : Account \cup {Nobody}, seen : Nat, lim : Nat]]
          /\ \A r \in Worker : at'[r].pc # "idle" => at'[r].adm \in Account
      BY <2>2 DEF Rename, IdleReq
    <3> QED BY <2>2, <3>1, <3>2 DEF Rename
  <2> QED BY <1>9, <2>1, <2>2
<1>10. ASSUME NEW l \in Limits, Reload(l) PROVE LockTypeOK'
  BY <1>10 DEF Reload, Blocked
<1>11. CASE LockTick
  <2>1. \A t \in Releaser :
          [rel[t] EXCEPT !.left = IF @ > 0 THEN @ - 1 ELSE @]
            \in [adm : Account \cup {Nobody}, left : 0..Restore]
    OBVIOUS
  <2>2. \A t \in Releaser :
          rel'[t] = [rel[t] EXCEPT !.left = IF @ > 0 THEN @ - 1 ELSE @]
    BY <1>11 DEF LockTick
  <2>3. ASSUME NEW t \in Releaser, rel[t] = NoRel PROVE rel'[t] = NoRel
    <3>1. [NoRel EXCEPT !.left = IF @ > 0 THEN @ - 1 ELSE @] = NoRel
      BY DEF NoRel
    <3> QED BY <2>2, <2>3, <3>1
  <2>4. \A t \in Releaser : rel'[t].adm = rel[t].adm
    BY <2>2
  <2>5. \A t \in Releaser : rel'[t] # NoRel => rel'[t].adm \in Account
    BY <2>3, <2>4
  <2>6. rel' \in [Releaser -> [adm : Account \cup {Nobody}, left : 0..Restore]]
    BY <1>11, <2>1 DEF LockTick
  <2> QED
    BY <1>11, <2>5, <2>6 DEF LockTick
<1>12. CASE Restart
  BY <1>12 DEF Restart, IdleReq, NoRel
<1>13. CASE UNCHANGED lockVars
  BY <1>13 DEF lockVars
<1> QED
  BY <1>1, <1>2, <1>3, <1>4, <1>5, <1>6, <1>7, <1>8, <1>9, <1>10, <1>11,
     <1>12, <1>13, <1>14 DEF LockNext, RequestStep

(* Every variable of the account block keeps its type. *)
THEOREM LockTypeCorrect == LockSpec => []LockTypeOK
  BY LockInitTypeOK, LockNextTypeOK, PTL DEF LockSpec

-----------------------------------------------------------------------------
(* A limit is at least one, so a cleared count is below all of them.        *)
LEMMA ClearedIsOpen == ~ \A l \in Limits : 0 >= l
<1>1. PICK l \in Limits : TRUE
  BY ConstantsOK
<1>2. l \in Nat \ {0}
  BY ConstantsOK
<1>3. ~(0 >= l)
  BY <1>2
<1> QED
  BY <1>1, <1>3

LEMMA NextLimitHeld == LockTypeOK /\ LimitHeld /\ [LockNext]_lockVars => LimitHeld'
<1> SUFFICES ASSUME LockTypeOK, LimitHeld, [LockNext]_lockVars PROVE LimitHeld'
  OBVIOUS
<1> USE DEF LockTypeOK, LimitHeld, IdleReq
<1>1. ASSUME NEW r \in Worker, RequestStep(r) PROVE LimitHeld'
  <2>1. \A q \in Worker \ {r} : at'[q] = at[q]
    BY <1>1 DEF RequestStep, ReadRow, RefuseBlocked, JudgeWrong, JudgeRight, Judged,
                WriteCount, WriteFails, StartRelease, LoginOK, RefuseOther
  <2>2. at'[r].pc \in {"wrong", "right", "lock"} => at'[r].lim \in Limits
    BY <1>1 DEF RequestStep, ReadRow, RefuseBlocked, JudgeWrong, JudgeRight, Judged,
                WriteCount, WriteFails, StartRelease, LoginOK, RefuseOther
  <2> QED
    BY <2>1, <2>2
<1>2. CASE UNCHANGED at
  BY <1>2
<1>3. ASSUME NEW a \in Account, Rename(a) PROVE LimitHeld'
  BY <1>3 DEF Rename
<1>4. CASE Restart
  BY <1>4 DEF Restart
<1> QED
  BY <1>1, <1>2, <1>3, <1>4
     DEF LockNext, lockVars, Wake, WakeFails, LockTick, EditAdmin, Reload

(* The step case of the inductive invariant, one action at a time. *)
LEMMA NextReleaser == LockInv /\ [LockNext]_lockVars => LockHasReleaser'
<1> SUFFICES ASSUME LockInv, [LockNext]_lockVars PROVE LockHasReleaser'
  OBVIOUS
<1> USE ClearedIsOpen
    DEF LockInv, LockTypeOK, LockHasReleaser, ReleasePending, Sleeping, Locking
<1>1. ASSUME NEW r \in Worker, NEW a \in Account, ReadRow(r, a)
      PROVE  LockHasReleaser'
  BY <1>1 DEF ReadRow
<1>2. ASSUME NEW r \in Worker,
             RefuseBlocked(r) \/ RefuseOther(r) \/ JudgeWrong(r) \/ JudgeRight(r)
             \/ WriteFails(r)
      PROVE  LockHasReleaser'
  BY <1>2 DEF RefuseBlocked, RefuseOther, JudgeWrong, JudgeRight, Judged,
              WriteFails, IdleReq
<1>3. ASSUME NEW r \in Worker, WriteCount(r) PROVE LockHasReleaser'
  <2> DEFINE a == at[r].adm  n == at[r].seen + 1
  <2>1. CASE n >= at[r].lim
    BY <1>3, <2>1 DEF WriteCount
  <2>2. CASE ~(n >= at[r].lim)
    <3>1. at[r].lim \in Limits /\ cnt'[a] = n
      BY <1>3 DEF WriteCount, LimitHeld
    <3>2. ~ \A l \in Limits : cnt'[a] >= l
      BY <2>2, <3>1
    <3> QED
      BY <1>3, <2>2, <3>2 DEF WriteCount
  <2> QED
    BY <2>1, <2>2
<1>4. ASSUME NEW r \in Worker, StartRelease(r) PROVE LockHasReleaser'
  <2>1. PICK t \in Releaser :
          /\ rel[t] = NoRel
          /\ rel' = [rel EXCEPT ![t] = [adm |-> at[r].adm, left |-> Restore]]
    BY <1>4 DEF StartRelease
  <2>2. rel'[t].adm = at[r].adm
    BY <2>1
  <2>3. \A u \in Releaser : rel[u].adm \in Account => rel'[u].adm = rel[u].adm
    BY <2>1, ConstantsOK DEF NoRel
  <2> QED
    BY <1>4, <2>2, <2>3 DEF StartRelease
<1>5. ASSUME NEW r \in Worker, LoginOK(r) PROVE LockHasReleaser'
  BY <1>5 DEF LoginOK, ClearCount
<1>6. ASSUME NEW t \in Releaser, Wake(t) \/ WakeFails(t) PROVE LockHasReleaser'
  <2> DEFINE a == rel[t].adm
  <2>1. \A b \in Account \ {a} : cnt'[b] = cnt[b] /\ (b \in lost => b \in lost')
    BY <1>6 DEF Wake, WakeFails, ClearCount
  <2>2. \A u \in Releaser \ {t} : rel'[u] = rel[u]
    BY <1>6 DEF Wake, WakeFails
  <2>3. at' = at
    BY <1>6 DEF Wake, WakeFails
  <2>4. \A b \in Account \ {a} : ReleasePending(b) => ReleasePending(b)'
    BY <2>2, <2>3
  <2>5. a \in lost' \/ cnt'[a] = 0
    BY <1>6 DEF Wake, WakeFails, ClearCount
  <2> HIDE DEF a
  <2> QED
    BY <2>1, <2>4, <2>5 DEF LockHasReleaser
<1>7. ASSUME NEW a \in Account, EditAdmin(a) \/ Rename(a) PROVE LockHasReleaser'
  BY <1>7 DEF EditAdmin, Rename, ClearCount
<1>8. ASSUME NEW l \in Limits, Reload(l) PROVE LockHasReleaser'
  BY <1>8 DEF Reload
<1>9. CASE LockTick
  BY <1>9 DEF LockTick
<1>10. CASE Restart
  BY <1>10 DEF Restart
<1>11. CASE UNCHANGED lockVars
  BY <1>11 DEF lockVars
<1> QED
  BY <1>1, <1>2, <1>3, <1>4, <1>5, <1>6, <1>7, <1>8, <1>9, <1>10, <1>11
     DEF LockNext, RequestStep

(* No interleaving of requests, threads and configuration reloads leaves a  *)
(* blocked account without a thread that will clear it.                     *)
THEOREM BlockedIsReleased == LockSpec => []LockHasReleaser
<1>1. LockInit => LockInv
  BY LockInitTypeOK, ClearedIsOpen
     DEF LockInit, LockInv, LimitHeld, LockHasReleaser, IdleReq
<1>2. LockInv /\ [LockNext]_lockVars => LockInv'
  BY LockNextTypeOK, NextLimitHeld, NextReleaser DEF LockInv
<1>3. LockInv => LockHasReleaser
  BY DEF LockInv
<1> QED
  BY <1>1, <1>2, <1>3, PTL DEF LockSpec

-----------------------------------------------------------------------------
(* One step cannot lower what the requests in progress can still store.     *)
LEMMA StepKeepsFloor ==
    ASSUME LockTypeOK, [LockNext]_lockVars, NEW a \in Account, NEW k \in 1..cnt[a],
           WriteFloor(a, k), cnt'[a] # 0
    PROVE  WriteFloor(a, k)'
<1> USE DEF LockTypeOK, WriteFloor
<1>1. ASSUME NEW r \in Worker, NEW b \in Account, ReadRow(r, b)
      PROVE  WriteFloor(a, k)'
  BY <1>1 DEF ReadRow
<1>2. ASSUME NEW r \in Worker,
             RefuseBlocked(r) \/ RefuseOther(r) \/ StartRelease(r) \/ LoginOK(r)
             \/ WriteFails(r)
      PROVE  WriteFloor(a, k)'
  <2>1. at' = [at EXCEPT ![r] = IdleReq]
    BY <1>2 DEF RefuseBlocked, RefuseOther, StartRelease, LoginOK, WriteFails
  <2>2. cnt'[a] = cnt[a]
    BY <1>2 DEF RefuseBlocked, RefuseOther, StartRelease, LoginOK, WriteFails, ClearCount
  <2>3. \A q \in Worker : at'[q].pc # "idle" => at'[q] = at[q]
    BY <2>1 DEF IdleReq
  <2> QED
    BY <2>2, <2>3
<1>3. ASSUME NEW r \in Worker, JudgeWrong(r) \/ JudgeRight(r)
      PROVE  WriteFloor(a, k)'
  BY <1>3 DEF JudgeWrong, JudgeRight, Judged
<1>4. ASSUME NEW r \in Worker, WriteCount(r) PROVE WriteFloor(a, k)'
  <2>1. cnt'[a] >= k
    BY <1>4 DEF WriteCount
  <2>2. \A q \in Worker :
          at'[q].pc \in {"read", "wrong"} => at'[q] = at[q]
    BY <1>4 DEF WriteCount, IdleReq
  <2> QED
    BY <2>1, <2>2
<1>5. ASSUME NEW t \in Releaser, Wake(t) \/ WakeFails(t) PROVE WriteFloor(a, k)'
  BY <1>5 DEF Wake, WakeFails, ClearCount
<1>6. ASSUME NEW b \in Account, EditAdmin(b) \/ Rename(b) PROVE WriteFloor(a, k)'
  BY <1>6, ConstantsOK DEF EditAdmin, Rename, ClearCount, IdleReq
<1>7. CASE UNCHANGED <<cnt, at>>
  BY <1>7
<1> QED
  BY <1>1, <1>2, <1>3, <1>4, <1>5, <1>6, <1>7
     DEF LockNext, RequestStep, lockVars, Reload, LockTick, Restart

(* The lost updates of loginProcess are bounded by the overlap of requests: *)
(* the least count they can store never falls, except by a reset.           *)
THEOREM LostUpdatesAreBounded == LockSpec => FloorNeverFalls
<1>1. LockTypeOK /\ [LockNext]_lockVars =>
        [\A a \in Account : \A k \in 1..cnt[a] :
           WriteFloor(a, k) /\ cnt'[a] # 0 => WriteFloor(a, k)']_lockVars
  BY StepKeepsFloor
<1> QED
  BY <1>1, LockTypeCorrect, PTL DEF LockSpec, FloorNeverFalls
-----------------------------------------------------------------------------
(* How many wrong passwords two overlapping requests can get judged.  With    *)
(* room for m more failures on the count, m * (m + 3) / 2 of them can be      *)
(* judged: everything below is doubled to stay with integers.                 *)
Twice(m) == m * (m + 3)

(* What a request of the account adds to the failures to come: one that read  *)
(* less than the count c can set it back to s + 1, and one that has judged    *)
(* its password was counted already.                                          *)
Weight(L, c, p, s) ==
    IF p \notin {"read", "wrong"} THEN 0
    ELSE (IF s < c THEN Twice(L - (s + 1)) + 2 * (L - c) - Twice(L - c) + 2 ELSE 0)
         - (IF p = "wrong" THEN 2 ELSE 0)

(* Where request r stands for account a. *)
Place(a, r) == IF at[r].adm = a THEN at[r].pc ELSE "idle"

Share(L, a, r) == Weight(L, cnt[a], Place(a, r), at[r].seen)

ToCome(L, a, u, v) == Twice(L - cnt[a]) + Share(L, a, u) + Share(L, a, v)

CountsBelow(L) ==
    /\ \A a \in Account : cnt[a] <= L
    /\ \A r \in Worker : at[r].pc = "wrong" => at[r].seen < L

(* The failures judged and those to come stay within the bound. *)
FailInv(L, u, v) ==
    /\ LockTypeOK
    /\ CountsBelow(L)
    /\ \A a \in Account : 2 * fails[a] + ToCome(L, a, u, v) <= Twice(L) + 2 * unstored[a]

LEMMA TwiceFacts ==
    /\ Twice(0) = 0
    /\ \A x \in Nat : Twice(x) \in Nat
    /\ \A x, y \in Nat : x < y => Twice(x) + 2 * x + 4 <= Twice(y)
    /\ \A x, y \in Nat : x <= y => Twice(x) <= Twice(y)
    /\ \A x, y \in Nat : x <= y => Twice(x) - 4 * x <= Twice(y) - 2 * y
<1>1. ASSUME NEW x \in Nat PROVE Twice(x) \in Nat /\ Twice(x) = x * x + 3 * x
  BY DEF Twice
<1>2. ASSUME NEW x \in Nat, NEW y \in Nat, x <= y
      PROVE  Twice(y) = Twice(x) + (y - x) * (y - x) + 2 * (x * (y - x)) + 3 * (y - x)
  <2> DEFINE d == y - x
  <2>1. d \in Nat /\ y = x + d
    BY <1>2
  <2> HIDE DEF d
  <2>2. (x + d) * ((x + d) + 3) = x * (x + 3) + d * d + 2 * (x * d) + 3 * d
    BY <2>1
  <2>3. Twice(y) = Twice(x) + d * d + 2 * (x * d) + 3 * d
    BY <2>1, <2>2 DEF Twice
  <2> QED BY <2>3 DEF d
<1>3. ASSUME NEW x \in Nat, NEW d \in Nat
      PROVE  /\ x * d \in Nat /\ d * d \in Nat /\ d <= d * d
             /\ (d > 0 => x <= x * d)
  <2>1. x * d \in Nat /\ d * d \in Nat
    OBVIOUS
  <2>2. CASE d = 0
    BY <2>1, <2>2
  <2>3. CASE d > 0
    <3>1. PICK e \in Nat : d = e + 1
      BY <2>3
    <3>2. x * (e + 1) = x * e + x /\ x * e \in Nat
      BY <3>1
    <3>3. (e + 1) * (e + 1) = e * e + 2 * e + 1 /\ e * e \in Nat
      BY <3>1
    <3> QED BY <2>1, <3>1, <3>2, <3>3
  <2> QED BY <2>2, <2>3
<1>4. Twice(0) = 0
  BY DEF Twice
<1>5. ASSUME NEW x \in Nat, NEW y \in Nat, x <= y
      PROVE  /\ x < y => Twice(x) + 2 * x + 4 <= Twice(y)
             /\ Twice(x) <= Twice(y)
             /\ Twice(x) - 4 * x <= Twice(y) - 2 * y
  <2> DEFINE d == y - x
             k == x * d
             q == d * d
  <2>1. d \in Nat /\ y = x + d
    BY <1>5
  <2> HIDE DEF d
  <2>2. k \in Nat /\ q \in Nat /\ d <= q /\ (d > 0 => x <= k)
    BY <1>3, <2>1
  <2>3. Twice(y) = Twice(x) + q + 2 * k + 3 * d
    BY <1>2, <1>5 DEF d
  <2>4. Twice(x) \in Nat /\ Twice(y) \in Nat
    BY <1>1
  <2> HIDE DEF k, q
  <2> QED BY <2>1, <2>2, <2>3, <2>4
<1>6. \A x \in Nat : Twice(x) \in Nat
  BY <1>1
<1>7. \A x, y \in Nat : x < y => x <= y
  OBVIOUS
<1>8. \A x, y \in Nat : x < y => Twice(x) + 2 * x + 4 <= Twice(y)
  BY <1>5, <1>7
<1>9. \A x, y \in Nat : x <= y => Twice(x) <= Twice(y)
  BY <1>5
<1>10. \A x, y \in Nat : x <= y => Twice(x) - 4 * x <= Twice(y) - 2 * y
  BY <1>5
<1> QED BY <1>4, <1>6, <1>8, <1>9, <1>10

LEMMA WeightType ==
    ASSUME NEW L \in Nat, NEW c \in Nat, c <= L, NEW p, NEW s \in Nat
    PROVE  Weight(L, c, p, s) \in Int
<1>1. s < c => Twice(L - (s + 1)) \in Nat
  <2> SUFFICES ASSUME s < c PROVE Twice(L - (s + 1)) \in Nat
    OBVIOUS
  <2>1. L - (s + 1) \in Nat
    OBVIOUS
  <2> QED BY <2>1, TwiceFacts
<1>2. Twice(L - c) \in Nat
  <2>1. L - c \in Nat
    OBVIOUS
  <2> QED BY <2>1, TwiceFacts
<1> QED BY <1>1, <1>2 DEF Weight

(* The failures to come are never a negative number. *)
LEMMA NeverNegative ==
    ASSUME NEW L \in Nat, NEW c \in Nat, c <= L,
           NEW p, NEW s \in Nat, p = "wrong" => s < L,
           NEW q, NEW t \in Nat, q = "wrong" => t < L
    PROVE  Twice(L - c) + Weight(L, c, p, s) + Weight(L, c, q, t) >= 0
<1> DEFINE y == L - c
           x == L - (s + 1)
           z == L - (t + 1)
<1>1. y \in Nat /\ Twice(y) \in Nat
  <2>1. y \in Nat
    OBVIOUS
  <2> QED BY <2>1, TwiceFacts
<1>2. s < c => Twice(x) \in Nat /\ Twice(y) <= Twice(x)
  <2> SUFFICES ASSUME s < c PROVE Twice(x) \in Nat /\ Twice(y) <= Twice(x)
    OBVIOUS
  <2>1. x \in Nat /\ y <= x
    OBVIOUS
  <2> HIDE DEF x, y
  <2> QED BY <1>1, <2>1, TwiceFacts
<1>3. t < c => Twice(z) \in Nat /\ Twice(y) <= Twice(z)
  <2> SUFFICES ASSUME t < c PROVE Twice(z) \in Nat /\ Twice(y) <= Twice(z)
    OBVIOUS
  <2>1. z \in Nat /\ y <= z
    OBVIOUS
  <2> HIDE DEF z, y
  <2> QED BY <1>1, <2>1, TwiceFacts
<1>4. c < L => y >= 1 /\ Twice(y) >= 4
  <2> SUFFICES ASSUME c < L PROVE y >= 1 /\ Twice(y) >= 4
    OBVIOUS
  <2>1. y \in Nat /\ 0 < y /\ y >= 1
    OBVIOUS
  <2> HIDE DEF y
  <2> QED BY <1>1, <2>1, TwiceFacts
<1>5. Weight(L, c, p, s) >= -2 /\ (s < c => Weight(L, c, p, s) >= 0)
      /\ (Weight(L, c, p, s) < 0 => c < L)
  BY <1>1, <1>2 DEF Weight
<1>6. Weight(L, c, q, t) >= -2 /\ (t < c => Weight(L, c, q, t) >= 0)
      /\ (Weight(L, c, q, t) < 0 => c < L)
  BY <1>1, <1>3 DEF Weight
<1>7. Weight(L, c, p, s) \in Int /\ Weight(L, c, q, t) \in Int
  BY WeightType
<1> HIDE DEF x, y, z
<1> DEFINE w1 == Weight(L, c, p, s)
           w2 == Weight(L, c, q, t)
<1>8. Twice(y) + w1 + w2 >= 0
  <2> HIDE DEF w1, w2
  <2> SUFFICES ASSUME Twice(y) + w1 + w2 < 0 PROVE FALSE
    BY <1>1, <1>7 DEF w1, w2
  <2>1. w1 < 0 \/ w2 < 0
    BY <1>1, <1>7 DEF w1, w2
  <2>2. c < L
    BY <1>5, <1>6, <2>1 DEF w1, w2
  <2> QED BY <1>1, <1>4, <1>5, <1>6, <1>7, <2>2 DEF w1, w2
<1> QED BY <1>8 DEF y

(* Storing s + 1 over the count c does not add to the failures to come.       *)
LEMMA StoreAddsNothing ==
    ASSUME NEW L \in Nat, NEW c \in Nat, c <= L, NEW s \in Nat, s < L,
           NEW q, NEW t \in Nat, q = "wrong" => t < L
    PROVE  Twice(L - (s + 1)) + Weight(L, s + 1, q, t)
             <= Twice(L - c) + Weight(L, c, "wrong", s) + Weight(L, c, q, t)
<1> DEFINE x == L - (s + 1)
           y == L - c
           z == L - (t + 1)
           late == s + 1
           Base(k) == IF t < k THEN Twice(z) + 2 * (L - k) - Twice(L - k) + 2 ELSE 0
<1>1. x \in Nat /\ y \in Nat /\ Twice(x) \in Nat /\ Twice(y) \in Nat
  <2>1. x \in Nat /\ y \in Nat
    OBVIOUS
  <2> HIDE DEF x, y
  <2> QED BY <2>1, TwiceFacts
<1>2. t < c \/ t < s + 1 => z \in Nat /\ Twice(z) \in Nat
  <2> SUFFICES ASSUME t < c \/ t < s + 1 PROVE z \in Nat /\ Twice(z) \in Nat
    OBVIOUS
  <2>1. z \in Nat
    OBVIOUS
  <2> HIDE DEF z
  <2> QED BY <2>1, TwiceFacts
<1>3. Base(c) \in Int /\ Base(late) \in Int
  <2>1. CASE t < c
    BY <1>1, <1>2, <2>1
  <2>2. CASE ~(t < c)
    BY <1>1, <1>2, <2>2
  <2> QED BY <2>1, <2>2
<1>4. CASE s >= c
  <2>1. Weight(L, c, "wrong", s) = -2
    BY <1>4 DEF Weight
  <2>2. Twice(x) + 2 * x + 4 <= Twice(y)
    <3>1. x < y
      BY <1>4
    <3> HIDE DEF x, y
    <3> QED BY <1>1, <3>1, TwiceFacts
  <2>3. Twice(x) + Base(late) <= Twice(y) - 2 + Base(c)
    <3>1. CASE t < c
      <4>1. Base(late) = Twice(z) + 2 * x - Twice(x) + 2
        BY <1>4, <3>1
      <4>2. Base(c) = Twice(z) + 2 * y - Twice(y) + 2
        BY <3>1
      <4>3. x + 1 <= y
        BY <1>4
      <4>4. Twice(z) \in Nat
        BY <1>2, <3>1
      <4> HIDE DEF x, y, z, Base
      <4> QED BY <1>1, <4>1, <4>2, <4>3, <4>4
    <3>2. CASE ~(t < c) /\ t < s + 1
      <4>1. Base(late) = Twice(z) + 2 * x - Twice(x) + 2
        BY <3>2
      <4>2. Base(c) = 0
        BY <3>2
      <4>3. z \in Nat /\ x <= z /\ z < y
        BY <3>2
      <4>4. Twice(z) + 2 * z + 4 <= Twice(y) /\ Twice(z) \in Nat
        <5> HIDE DEF z, y
        <5> QED BY <1>1, <4>3, TwiceFacts
      <4> HIDE DEF x, y, z, Base
      <4> QED BY <1>1, <4>1, <4>2, <4>3, <4>4
    <3>3. CASE ~(t < c) /\ ~(t < s + 1)
      <4>1. Base(late) = 0 /\ Base(c) = 0
        BY <3>3
      <4> HIDE DEF x, y, z, Base
      <4> QED BY <1>1, <2>2, <4>1
    <3> QED BY <3>1, <3>2, <3>3
  <2>4. CASE q \notin {"read", "wrong"}
    <3>1. Weight(L, s + 1, q, t) = 0 /\ Weight(L, c, q, t) = 0
      BY <2>4 DEF Weight
    <3> HIDE DEF x, y
    <3>2. Twice(x) <= Twice(y) - 2
      BY <1>1, <2>2
    <3> QED BY <1>1, <2>1, <3>1, <3>2 DEF x, y
  <2>5. CASE q \in {"read", "wrong"}
    <3> DEFINE m == IF q = "wrong" THEN 2 ELSE 0
    <3>1. Weight(L, s + 1, q, t) = Base(late) - m /\ Weight(L, c, q, t) = Base(c) - m
      BY <2>5 DEF Weight
    <3>2. m \in Nat
      OBVIOUS
    <3> HIDE DEF x, y, z, Base, m
    <3>3. Twice(x) + (Base(late) - m) <= Twice(y) + (-2) + (Base(c) - m)
      BY <1>1, <1>3, <2>3, <3>2
    <3> QED BY <2>1, <3>1, <3>3 DEF x, y
  <2> QED BY <2>4, <2>5
<1>5. CASE s < c
  <2>1. Weight(L, c, "wrong", s) = Twice(x) + 2 * y - Twice(y)
    BY <1>1, <1>5 DEF Weight
  <2>2. y <= x
    BY <1>5
  <2>3. Twice(y) - 4 * y <= Twice(x) - 2 * x /\ Twice(y) <= Twice(x)
    <3> HIDE DEF x, y
    <3> QED BY <1>1, <2>2, TwiceFacts
  <2>4. Base(late) <= 2 * y + Base(c)
    <3>1. CASE t < s + 1
      <4>1. Base(late) = Twice(z) + 2 * x - Twice(x) + 2
        BY <3>1
      <4>2. Base(c) = Twice(z) + 2 * y - Twice(y) + 2
        BY <1>5, <3>1
      <4>3. Twice(z) \in Nat
        BY <1>2, <3>1
      <4> HIDE DEF x, y, z, Base
      <4> QED BY <1>1, <2>3, <4>1, <4>2, <4>3
    <3>2. CASE ~(t < s + 1) /\ t < c
      <4>1. Base(late) = 0
        BY <3>2
      <4>2. Base(c) = Twice(z) + 2 * y - Twice(y) + 2
        BY <3>2
      <4>3. z \in Nat /\ y <= z
        BY <3>2
      <4>4. Twice(y) <= Twice(z) /\ Twice(z) \in Nat
        <5> HIDE DEF z, y
        <5> QED BY <1>1, <4>3, TwiceFacts
      <4> HIDE DEF x, y, z, Base
      <4> QED BY <1>1, <4>1, <4>2, <4>4
    <3>3. CASE ~(t < s + 1) /\ ~(t < c)
      <4>1. Base(late) = 0 /\ Base(c) = 0
        BY <3>3
      <4> HIDE DEF x, y, z, Base
      <4> QED BY <1>1, <4>1
    <3> QED BY <3>1, <3>2, <3>3
  <2>5. CASE q \notin {"read", "wrong"}
    <3>1. Weight(L, s + 1, q, t) = 0 /\ Weight(L, c, q, t) = 0
      BY <2>5 DEF Weight
    <3> HIDE DEF x, y
    <3>2. Twice(x) + 0 <= Twice(y) + (Twice(x) + 2 * y - Twice(y)) + 0
      BY <1>1
    <3> QED BY <2>1, <3>1, <3>2 DEF x, y
  <2>6. CASE q \in {"read", "wrong"}
    <3> DEFINE m == IF q = "wrong" THEN 2 ELSE 0
    <3>1. Weight(L, s + 1, q, t) = Base(late) - m /\ Weight(L, c, q, t) = Base(c) - m
      BY <2>6 DEF Weight
    <3>2. m \in Nat
      OBVIOUS
    <3> HIDE DEF x, y, z, Base, m
    <3>3. Twice(x) + (Base(late) - m)
            <= Twice(y) + (Twice(x) + 2 * y - Twice(y)) + (Base(c) - m)
      BY <1>1, <1>3, <2>4, <3>2
    <3> QED BY <2>1, <3>1, <3>3 DEF x, y
  <2> QED BY <2>5, <2>6
<1> QED BY <1>4, <1>5

LEMMA NoShare ==
    ASSUME NEW L, NEW c, NEW p, NEW s, p \notin {"read", "wrong"}
    PROVE  Weight(L, c, p, s) = 0
BY DEF Weight

(* A request that has not judged its password adds to the failures to come.   *)
LEMMA ReadAdds ==
    ASSUME NEW L \in Nat, NEW c \in Nat, c <= L, NEW p, NEW s \in Nat, p # "wrong"
    PROVE  Weight(L, c, p, s) >= 0
<1>1. s < c => Twice(L - c) <= Twice(L - (s + 1))
               /\ Twice(L - c) \in Nat /\ Twice(L - (s + 1)) \in Nat
  <2> SUFFICES ASSUME s < c
               PROVE  Twice(L - c) <= Twice(L - (s + 1))
                      /\ Twice(L - c) \in Nat /\ Twice(L - (s + 1)) \in Nat
    OBVIOUS
  <2>1. L - c \in Nat /\ L - (s + 1) \in Nat /\ L - c <= L - (s + 1)
    OBVIOUS
  <2> QED BY <2>1, TwiceFacts
<1> QED BY <1>1 DEF Weight

(* After a reset nothing that a request read lies below the count.            *)
LEMMA ClearedAdds ==
    ASSUME NEW L \in Nat, NEW p, NEW s \in Nat
    PROVE  Weight(L, 0, p, s) \in Int /\ Weight(L, 0, p, s) <= 0
BY DEF Weight

LEMMA JudgedAdds ==
    ASSUME NEW L \in Nat, NEW c \in Nat, c <= L, NEW s \in Nat
    PROVE  Weight(L, c, "wrong", s) = Weight(L, c, "read", s) - 2
<1>1. Weight(L, c, "read", s) \in Int
  BY WeightType
<1> DEFINE b == IF s < c THEN Twice(L - (s + 1)) + 2 * (L - c) - Twice(L - c) + 2 ELSE 0
<1>2. Weight(L, c, "read", s) = b - 0 /\ Weight(L, c, "wrong", s) = b - 2
  BY DEF Weight
<1>3. b \in Int
  <2>1. CASE s < c
    <3>1. L - c \in Nat /\ L - (s + 1) \in Nat
      BY <2>1
    <3> QED BY <3>1, TwiceFacts
  <2> QED BY <2>1
<1> HIDE DEF b
<1> QED BY <1>2, <1>3

-----------------------------------------------------------------------------
(* The counts stay at or below the highest limit.                             *)
LEMMA NextCounts ==
    ASSUME NEW L \in Nat, \A l \in Limits : l <= L,
           LockTypeOK, CountsBelow(L), [LockNext]_lockVars
    PROVE  CountsBelow(L)'
<1> USE DEF LockTypeOK, CountsBelow
<1>1. ASSUME NEW r \in Worker, RequestStep(r) PROVE CountsBelow(L)'
  <2>1. \A q \in Worker \ {r} : at'[q] = at[q]
    BY <1>1 DEF RequestStep, ReadRow, RefuseBlocked, JudgeWrong, JudgeRight, Judged,
                WriteCount, WriteFails, StartRelease, LoginOK, RefuseOther
  <2>2. \A a \in Account : cnt'[a] = cnt[a] \/ cnt'[a] = 0
                           \/ (at[r].pc = "wrong" /\ cnt'[a] = at[r].seen + 1)
    BY <1>1 DEF RequestStep, ReadRow, RefuseBlocked, JudgeWrong, JudgeRight,
                WriteCount, WriteFails, StartRelease, LoginOK, RefuseOther, ClearCount
  <2>3. ASSUME at'[r].pc = "wrong" PROVE at'[r].seen < L
    <3>1. JudgeWrong(r)
      BY <1>1, <2>3 DEF RequestStep, ReadRow, RefuseBlocked, JudgeRight, Judged,
                WriteCount, WriteFails, StartRelease, LoginOK, RefuseOther, IdleReq
    <3>2. at'[r].seen = at[r].seen /\ at[r].seen < limit
      BY <3>1 DEF JudgeWrong, Judged
    <3>3. limit \in Nat /\ limit <= L /\ at[r].seen \in Nat
      BY ConstantsOK
    <3> QED BY <3>2, <3>3
  <2>4. \A a \in Account : cnt'[a] <= L
    <3> SUFFICES ASSUME NEW a \in Account PROVE cnt'[a] <= L
      OBVIOUS
    <3>1. cnt[a] \in Nat /\ cnt[a] <= L /\ at[r].seen \in Nat
      OBVIOUS
    <3>2. at[r].pc = "wrong" => at[r].seen < L
      OBVIOUS
    <3> QED BY <2>2, <3>1, <3>2
  <2> QED BY <2>1, <2>3, <2>4
<1>2. CASE UNCHANGED <<cnt, at>>
  BY <1>2
<1>3. ASSUME NEW a \in Account, ClearCount(a), UNCHANGED at PROVE CountsBelow(L)'
  <2>1. \A b \in Account : cnt'[b] = cnt[b] \/ cnt'[b] = 0
    BY <1>3 DEF ClearCount
  <2>2. \A b \in Account : cnt'[b] <= L
    BY <2>1
  <2> QED BY <1>3, <2>2
<1>4. ASSUME NEW a \in Account, Rename(a) PROVE CountsBelow(L)'
  <2>1. \A r \in Worker : at'[r].pc = "wrong" => at'[r] = at[r]
    BY <1>4 DEF Rename, IdleReq
  <2> QED BY <1>4, <2>1 DEF Rename
<1>5. CASE Restart
  BY <1>5 DEF Restart, IdleReq
<1> QED
  BY <1>1, <1>2, <1>3, <1>4, <1>5
     DEF LockNext, lockVars, Wake, WakeFails, LockTick, EditAdmin, Reload

LEMMA ToComeType ==
    ASSUME NEW L \in Nat, NEW u \in Worker, NEW v \in Worker, NEW a \in Account,
           LockTypeOK, CountsBelow(L)
    PROVE  /\ Twice(L) \in Nat /\ Twice(L - cnt[a]) \in Nat
           /\ Share(L, a, u) \in Int /\ Share(L, a, v) \in Int
<1>1. cnt[a] \in Nat /\ cnt[a] <= L /\ at[u].seen \in Nat /\ at[v].seen \in Nat
  BY DEF LockTypeOK, CountsBelow
<1>2. L - cnt[a] \in Nat
  BY <1>1
<1> QED BY <1>1, <1>2, WeightType, TwiceFacts DEF Share

(* A step of one of two requests.                                             *)
LEMMA RequestBound ==
    ASSUME NEW L \in Nat, \A l \in Limits : l <= L,
           NEW u, NEW v, Worker = {u, v}, u # v,
           FailInv(L, u, v), RequestStep(u), NEW a \in Account
    PROVE  2 * fails'[a] + Twice(L - cnt'[a]) + (Share(L, a, u))' + (Share(L, a, v))'
             <= Twice(L) + 2 * unstored'[a]
<1> USE DEF LockTypeOK
<1> DEFINE c == cnt[a]
<1>1. /\ LockTypeOK /\ CountsBelow(L)
      /\ 2 * fails[a] + Twice(L - c) + Share(L, a, u) + Share(L, a, v)
           <= Twice(L) + 2 * unstored[a]
  <2>1. Twice(L - c) \in Int /\ Share(L, a, u) \in Int /\ Share(L, a, v) \in Int
    <3>1. LockTypeOK /\ CountsBelow(L) /\ u \in Worker /\ v \in Worker
      BY DEF FailInv
    <3> QED BY <3>1, ToComeType
  <2>2. 2 * fails[a] + ToCome(L, a, u, v) <= Twice(L) + 2 * unstored[a]
        /\ fails[a] \in Nat /\ unstored[a] \in Nat
    BY DEF FailInv
  <2>3. Twice(L) \in Int
    BY TwiceFacts
  <2> HIDE DEF c
  <2>4. ToCome(L, a, u, v) = Twice(L - c) + Share(L, a, u) + Share(L, a, v)
    BY DEF ToCome, c
  <2> QED BY <2>1, <2>2, <2>3, <2>4 DEF FailInv
<1>2. /\ c \in Nat /\ c <= L /\ fails[a] \in Nat /\ unstored[a] \in Nat /\ u \in Worker /\ v \in Worker
      /\ at[u].seen \in Nat /\ at[v].seen \in Nat
      /\ at[u].pc = "wrong" => at[u].seen < L
      /\ at[v].pc = "wrong" => at[v].seen < L
  BY <1>1 DEF CountsBelow
<1>3. /\ Twice(L - c) \in Nat /\ Twice(L) \in Nat
      /\ Share(L, a, u) \in Int /\ Share(L, a, v) \in Int
  BY <1>1, <1>2, ToComeType
<1>4. at'[v] = at[v] /\ (Place(a, v))' = Place(a, v)
  <2>1. at'[v] = at[v]
    BY <1>1, <1>2 DEF RequestStep, ReadRow, RefuseBlocked, JudgeWrong, JudgeRight, Judged,
                WriteCount, WriteFails, StartRelease, LoginOK, RefuseOther
  <2> QED BY <2>1 DEF Place
<1>5. cnt'[a] = c => (Share(L, a, v))' = Share(L, a, v)
  BY <1>4 DEF Share
<1>6. ASSUME cnt'[a] = c, fails'[a] = fails[a], unstored'[a] = unstored[a], (Share(L, a, u))' = 0, Share(L, a, u) >= 0
      PROVE  2 * fails'[a] + Twice(L - cnt'[a]) + (Share(L, a, u))' + (Share(L, a, v))'
               <= Twice(L) + 2 * unstored'[a]
  <2> HIDE DEF c
  <2> QED BY <1>1, <1>2, <1>3, <1>5, <1>6
<1>7. at[u].pc # "wrong" \/ at[u].adm # a => Share(L, a, u) >= 0
  <2>1. at[u].pc # "wrong" \/ at[u].adm # a => Place(a, u) # "wrong"
    BY DEF Place
  <2> QED BY <1>2, <2>1, ReadAdds DEF Share
<1>8. (Place(a, u))' \notin {"read", "wrong"} => (Share(L, a, u))' = 0
  BY NoShare DEF Share
<1>9. ASSUME NEW b \in Account, ReadRow(u, b)
      PROVE  2 * fails'[a] + Twice(L - cnt'[a]) + (Share(L, a, u))' + (Share(L, a, v))'
               <= Twice(L) + 2 * unstored'[a]
  <2>1. /\ cnt'[a] = c /\ fails'[a] = fails[a] /\ unstored'[a] = unstored[a] /\ at[u].pc # "wrong"
        /\ at'[u].pc = "read" /\ at'[u].adm = b /\ at'[u].seen = cnt[b]
    BY <1>1, <1>2, <1>9 DEF ReadRow
  <2>2. (Share(L, a, u))' = 0
    <3>1. CASE a = b
      <4>1. (Share(L, a, u))' = Weight(L, c, "read", c)
        BY <2>1, <3>1 DEF Share, Place
      <4>2. Weight(L, c, "read", c) = 0
        BY <1>2 DEF Weight
      <4> QED BY <4>1, <4>2
    <3>2. CASE a # b
      BY <1>8, <2>1, <3>2 DEF Place
    <3> QED BY <3>1, <3>2
  <2> QED BY <1>6, <1>7, <2>1, <2>2
<1>10. ASSUME RefuseBlocked(u) \/ RefuseOther(u) \/ StartRelease(u) \/ JudgeRight(u)
       PROVE  2 * fails'[a] + Twice(L - cnt'[a]) + (Share(L, a, u))' + (Share(L, a, v))'
                <= Twice(L) + 2 * unstored'[a]
  <2>1. /\ cnt'[a] = c /\ fails'[a] = fails[a] /\ unstored'[a] = unstored[a] /\ at[u].pc # "wrong"
        /\ at'[u].pc \in {"idle", "right"}
    BY <1>1, <1>2, <1>10 DEF RefuseBlocked, RefuseOther, StartRelease, JudgeRight, Judged, IdleReq
  <2>2. (Share(L, a, u))' = 0
    BY <1>8, <2>1 DEF Place
  <2> QED BY <1>6, <1>7, <2>1, <2>2
<1>11. ASSUME LoginOK(u)
       PROVE  2 * fails'[a] + Twice(L - cnt'[a]) + (Share(L, a, u))' + (Share(L, a, v))'
                <= Twice(L) + 2 * unstored'[a]
  <2>1. at[u].pc = "right" /\ at'[u].pc = "idle"
    BY <1>1, <1>2, <1>11 DEF LoginOK, IdleReq
  <2>2. (Share(L, a, u))' = 0
    BY <1>8, <2>1 DEF Place
  <2>3. CASE at[u].adm # a
    <3>1. cnt'[a] = c /\ fails'[a] = fails[a] /\ unstored'[a] = unstored[a]
      BY <1>1, <1>2, <1>11, <2>3 DEF LoginOK, ClearCount
    <3> QED BY <1>6, <1>7, <2>1, <2>2, <3>1
  <2>4. CASE at[u].adm = a
    <3>1. cnt'[a] = 0 /\ fails'[a] = 0 /\ unstored'[a] = 0
      BY <1>1, <1>11, <2>4 DEF LoginOK, ClearCount
    <3>2. (Share(L, a, v))' = Weight(L, 0, Place(a, v), at[v].seen)
      BY <1>4, <3>1 DEF Share
    <3>3. (Share(L, a, v))' \in Int /\ (Share(L, a, v))' <= 0
      BY <1>2, <3>2, ClearedAdds
    <3>4. L - cnt'[a] = L
      BY <3>1
    <3> QED BY <1>3, <2>2, <3>1, <3>3, <3>4
  <2> QED BY <2>3, <2>4
<1>12. ASSUME JudgeWrong(u)
       PROVE  2 * fails'[a] + Twice(L - cnt'[a]) + (Share(L, a, u))' + (Share(L, a, v))'
                <= Twice(L) + 2 * unstored'[a]
  <2>1. /\ cnt'[a] = c /\ at[u].pc = "read" /\ at'[u].pc = "wrong"
        /\ at'[u].adm = at[u].adm /\ at'[u].seen = at[u].seen
    BY <1>1, <1>2, <1>12 DEF JudgeWrong, Judged
  <2>2. CASE at[u].adm # a
    <3>1. fails'[a] = fails[a] /\ unstored'[a] = unstored[a]
      BY <1>1, <1>2, <1>12, <2>2 DEF JudgeWrong
    <3>2. (Share(L, a, u))' = 0
      BY <1>8, <2>1, <2>2 DEF Place
    <3> QED BY <1>6, <1>7, <2>1, <2>2, <3>1, <3>2
  <2>3. CASE at[u].adm = a
    <3>1. fails'[a] \in Int /\ fails'[a] <= fails[a] + 1 /\ unstored'[a] = unstored[a]
      BY <1>1, <1>2, <1>12, <2>3, ConstantsOK DEF JudgeWrong
    <3>2. /\ Share(L, a, u) = Weight(L, c, "read", at[u].seen)
          /\ (Share(L, a, u))' = Weight(L, c, "wrong", at[u].seen)
      BY <2>1, <2>3 DEF Share, Place
    <3>3. (Share(L, a, u))' = Share(L, a, u) - 2
      BY <1>2, <3>2, JudgedAdds
    <3> HIDE DEF c
    <3> QED BY <1>1, <1>2, <1>3, <1>5, <2>1, <3>1, <3>3
  <2> QED BY <2>2, <2>3
<1>13. ASSUME WriteCount(u)
       PROVE  2 * fails'[a] + Twice(L - cnt'[a]) + (Share(L, a, u))' + (Share(L, a, v))'
                <= Twice(L) + 2 * unstored'[a]
  <2>1. at[u].pc = "wrong" /\ at'[u].pc \in {"idle", "lock"} /\ fails' = fails /\ unstored' = unstored
    BY <1>1, <1>2, <1>13 DEF WriteCount, IdleReq
  <2>2. (Share(L, a, u))' = 0
    BY <1>8, <2>1 DEF Place
  <2>3. CASE at[u].adm # a
    <3>1. cnt'[a] = c
      BY <1>1, <1>13, <2>3 DEF WriteCount
    <3> QED BY <1>6, <1>7, <2>1, <2>2, <2>3, <3>1
  <2>4. CASE at[u].adm = a
    <3> DEFINE s == at[u].seen
               w == (Share(L, a, v))'
               x == Twice(L - (s + 1))
    <3>1. cnt'[a] = s + 1 /\ s + 1 \in Nat /\ s + 1 <= L /\ s < L
      BY <1>1, <1>2, <1>13, <2>1, <2>4 DEF WriteCount
    <3>2. Share(L, a, u) = Weight(L, c, "wrong", s)
      BY <2>1, <2>4 DEF Share, Place
    <3>3. w = Weight(L, s + 1, Place(a, v), at[v].seen)
      BY <1>4, <3>1 DEF Share
    <3>4. Place(a, v) = "wrong" => at[v].seen < L
      BY <1>2 DEF Place
    <3>5. x + w <= Twice(L - c) + Share(L, a, u) + Share(L, a, v)
      <4>1. Share(L, a, v) = Weight(L, c, Place(a, v), at[v].seen)
        BY DEF Share
      <4> QED BY <1>2, <3>1, <3>2, <3>3, <3>4, <4>1, StoreAddsNothing
    <3>6. w \in Int /\ x \in Int
      <4>1. L - (s + 1) \in Nat
        BY <3>1
      <4>2. w \in Int
        BY <1>2, <3>1, <3>3, WeightType
      <4> QED BY <4>1, <4>2, TwiceFacts
    <3>7. Twice(L - cnt'[a]) = x
      BY <3>1
    <3> HIDE DEF c, w, x
    <3>8. 2 * fails'[a] + Twice(L - cnt'[a]) + 0 + w <= Twice(L) + 2 * unstored'[a]
      BY <1>1, <1>2, <1>3, <2>1, <3>5, <3>6, <3>7
    <3> QED BY <2>2, <3>8 DEF w
  <2> QED BY <2>3, <2>4
<1>14. ASSUME WriteFails(u)
       PROVE  2 * fails'[a] + Twice(L - cnt'[a]) + (Share(L, a, u))' + (Share(L, a, v))'
                <= Twice(L) + 2 * unstored'[a]
  <2>1. at[u].pc = "wrong" /\ at'[u].pc = "idle" /\ cnt'[a] = c /\ fails'[a] = fails[a]
    BY <1>1, <1>2, <1>14 DEF WriteFails, IdleReq
  <2>2. (Share(L, a, u))' = 0
    BY <1>8, <2>1 DEF Place
  <2>3. CASE at[u].adm # a
    <3>1. unstored'[a] = unstored[a]
      BY <1>1, <1>2, <1>14, <2>3 DEF WriteFails
    <3> QED BY <1>6, <1>7, <2>1, <2>2, <2>3, <3>1
  <2>4. CASE at[u].adm = a
    <3>1. unstored'[a] = unstored[a] + 1
      BY <1>1, <1>2, <1>14, <2>4 DEF WriteFails
    <3>2. Share(L, a, u) = Weight(L, c, "wrong", at[u].seen)
      BY <2>1, <2>4 DEF Share, Place
    <3>3. Share(L, a, u) >= -2
      <4>1. Weight(L, c, "read", at[u].seen) \in Int /\ Weight(L, c, "read", at[u].seen) >= 0
        BY <1>2, WeightType, ReadAdds
      <4> QED BY <1>2, <3>2, <4>1, JudgedAdds
    <3> HIDE DEF c
    <3> QED BY <1>1, <1>2, <1>3, <1>5, <2>1, <2>2, <3>1, <3>3
  <2> QED BY <2>3, <2>4
<1> QED
  BY <1>9, <1>10, <1>11, <1>12, <1>13, <1>14 DEF RequestStep

(* The two requests are interchangeable.                                      *)
LEMMA Swap ==
    ASSUME NEW L \in Nat, NEW u \in Worker, NEW v \in Worker, FailInv(L, u, v)
    PROVE  FailInv(L, v, u)
<1> SUFFICES ASSUME NEW a \in Account PROVE ToCome(L, a, v, u) = ToCome(L, a, u, v)
  BY DEF FailInv
<1> QED BY ToComeType DEF FailInv, ToCome

LEMMA NextFailInv ==
    ASSUME NEW L \in Nat, \A l \in Limits : l <= L,
           NEW u, NEW v, Worker = {u, v}, u # v,
           FailInv(L, u, v), [LockNext]_lockVars
    PROVE  FailInv(L, u, v)'
<1>1. LockTypeOK /\ CountsBelow(L) /\ LockTypeOK' /\ CountsBelow(L)'
  BY LockNextTypeOK, NextCounts DEF FailInv
<1>2. u \in Worker /\ v \in Worker
  OBVIOUS
<1> SUFFICES ASSUME NEW a \in Account
             PROVE  2 * fails'[a] + (ToCome(L, a, u, v))' <= Twice(L) + 2 * unstored'[a]
  BY <1>1 DEF FailInv
<1> DEFINE Bound == 2 * fails'[a] + (ToCome(L, a, u, v))' <= Twice(L) + 2 * unstored'[a]
<1>3. 2 * fails[a] + ToCome(L, a, u, v) <= Twice(L) + 2 * unstored[a]
  BY DEF FailInv
<1>4. /\ cnt'[a] \in Nat /\ cnt'[a] <= L /\ fails'[a] \in Nat /\ unstored'[a] \in Nat
      /\ at'[u].seen \in Nat /\ at'[v].seen \in Nat
      /\ Twice(L) \in Nat /\ Twice(L - cnt'[a]) \in Nat /\ Twice(L - cnt'[a]) <= Twice(L)
      /\ (Share(L, a, u))' \in Int /\ (Share(L, a, v))' \in Int
  <2>1. /\ cnt'[a] \in Nat /\ cnt'[a] <= L /\ fails'[a] \in Nat /\ unstored'[a] \in Nat
        /\ at'[u].seen \in Nat /\ at'[v].seen \in Nat
    BY <1>1, <1>2 DEF LockTypeOK, CountsBelow
  <2>2. L - cnt'[a] \in Nat /\ L - cnt'[a] <= L
    BY <2>1
  <2>3. Twice(L - cnt'[a]) \in Nat /\ Twice(L - cnt'[a]) <= Twice(L) /\ Twice(L) \in Nat
    BY <2>2, TwiceFacts
  <2> QED BY <2>1, <2>3, WeightType DEF Share
<1>5. ASSUME RequestStep(u) PROVE Bound
  <2>1. 2 * fails'[a] + Twice(L - cnt'[a]) + (Share(L, a, u))' + (Share(L, a, v))'
        <= Twice(L) + 2 * unstored'[a]
    BY <1>5, RequestBound
  <2> QED BY <1>4, <2>1 DEF ToCome
<1>6. ASSUME RequestStep(v) PROVE Bound
  <2>1. FailInv(L, v, u) /\ Worker = {v, u}
    BY <1>2, Swap
  <2>2. 2 * fails'[a] + Twice(L - cnt'[a]) + (Share(L, a, v))' + (Share(L, a, u))'
        <= Twice(L) + 2 * unstored'[a]
    BY <1>6, <2>1, RequestBound
  <2> QED BY <1>4, <2>2 DEF ToCome
<1>7. ASSUME UNCHANGED <<cnt, at, fails, unstored>> PROVE Bound
  <2>1. (ToCome(L, a, u, v))' = ToCome(L, a, u, v) /\ fails'[a] = fails[a] /\ unstored'[a] = unstored[a]
    BY <1>7 DEF ToCome, Share, Place
  <2> QED BY <1>3, <2>1
<1>8. ASSUME cnt'[a] = 0, fails'[a] = 0, unstored'[a] = 0 PROVE Bound
  <2>1. (Share(L, a, u))' <= 0 /\ (Share(L, a, v))' <= 0
    BY <1>4, <1>8, ClearedAdds DEF Share
  <2> QED BY <1>4, <1>8, <2>1 DEF ToCome
<1>9. ASSUME NEW b \in Account, ClearCount(b), UNCHANGED at PROVE Bound
  <2>1. CASE a = b
    BY <1>1, <1>8, <1>9, <2>1 DEF ClearCount, LockTypeOK
  <2>2. CASE a # b
    <3>1. cnt'[a] = cnt[a] /\ fails'[a] = fails[a] /\ unstored'[a] = unstored[a]
      BY <1>1, <1>9, <2>2 DEF ClearCount, LockTypeOK
    <3>2. (ToCome(L, a, u, v))' = ToCome(L, a, u, v)
      BY <1>9, <3>1 DEF ToCome, Share, Place
    <3> QED BY <1>3, <3>1, <3>2
  <2> QED BY <2>1, <2>2
<1>10. ASSUME NEW b \in Account, Rename(b) PROVE Bound
  <2>1. \A r \in Worker : at'[r] = IF at[r].adm = b THEN IdleReq ELSE at[r]
    BY <1>10 DEF Rename
  <2>2. CASE a = b
    <3>1. fails'[a] = 0 /\ unstored'[a] = 0
      BY <1>1, <1>10, <2>2 DEF Rename, LockTypeOK
    <3>2. (Place(a, u))' = "idle" /\ (Place(a, v))' = "idle"
      BY <1>2, <2>1, <2>2 DEF Place, IdleReq
    <3>3. (Share(L, a, u))' = 0 /\ (Share(L, a, v))' = 0
      BY <3>2, NoShare DEF Share
    <3> QED BY <1>4, <3>1, <3>3 DEF ToCome
  <2>3. CASE a # b
    <3>1. cnt'[a] = cnt[a] /\ fails'[a] = fails[a] /\ unstored'[a] = unstored[a]
      BY <1>1, <1>10, <2>3 DEF Rename, LockTypeOK
    <3>2. ASSUME NEW r \in Worker PROVE (Share(L, a, r))' = Share(L, a, r)
      <4>1. CASE at[r].adm = b
        <5>1. (Place(a, r))' = "idle" /\ Place(a, r) = "idle"
          BY <2>1, <2>3, <4>1 DEF Place, IdleReq
        <5> QED BY <5>1, NoShare DEF Share
      <4>2. CASE at[r].adm # b
        BY <2>1, <3>1, <4>2 DEF Share, Place
      <4> QED BY <4>1, <4>2
    <3>3. (ToCome(L, a, u, v))' = ToCome(L, a, u, v)
      BY <1>2, <3>1, <3>2 DEF ToCome
    <3> QED BY <1>3, <3>1, <3>3
  <2> QED BY <2>2, <2>3
<1>11. CASE Restart
  BY <1>8, <1>11 DEF Restart
<1>12. ASSUME NEW r \in Worker, RequestStep(r) PROVE Bound
  BY <1>5, <1>6, <1>12
<1>13. ASSUME NEW t \in Releaser, Wake(t) PROVE Bound
  BY <1>9, <1>13 DEF Wake
<1>14. ASSUME NEW b \in Account, EditAdmin(b) PROVE Bound
  BY <1>9, <1>14 DEF EditAdmin
<1>15. ASSUME NEW t \in Releaser, WakeFails(t) PROVE Bound
  BY <1>7, <1>15 DEF WakeFails
<1>16. ASSUME NEW l \in Limits, Reload(l) PROVE Bound
  BY <1>7, <1>16 DEF Reload
<1>17. CASE LockTick
  BY <1>7, <1>17 DEF LockTick
<1>18. CASE UNCHANGED lockVars
  BY <1>7, <1>18 DEF lockVars
<1>19. CASE LockNext
  BY <1>10, <1>11, <1>12, <1>13, <1>14, <1>15, <1>16, <1>17, <1>19 DEF LockNext
<1> QED BY <1>18, <1>19

(* Two overlapping requests of loginProcess, whatever they lose of each       *)
(* other's counts, get at most L * (L + 3) / 2 wrong passwords judged before  *)
(* the count is reset, where L is the highest password.fail.count in use, and *)
(* one more for each whose UPDATE threw.                                      *)
THEOREM OverlapIsBounded ==
    ASSUME NEW L \in Limits, \A l \in Limits : l <= L,
           NEW u, NEW v, Worker = {u, v}, u # v
    PROVE  LockSpec => []FailuresBounded
<1>0. L \in Nat
  BY ConstantsOK
<1>1. LockInit => FailInv(L, u, v)
  <2> SUFFICES ASSUME LockInit PROVE FailInv(L, u, v)
    OBVIOUS
  <2>1. LockTypeOK
    BY LockInitTypeOK
  <2>2. CountsBelow(L)
    BY <1>0 DEF LockInit, CountsBelow, IdleReq
  <2>3. ASSUME NEW a \in Account PROVE 2 * fails[a] + ToCome(L, a, u, v) <= Twice(L) + 2 * unstored[a]
    <3>1. cnt[a] = 0 /\ fails[a] = 0 /\ unstored[a] = 0 /\ Place(a, u) = "idle" /\ Place(a, v) = "idle"
      BY <2>3 DEF LockInit, Place, IdleReq
    <3>2. Share(L, a, u) = 0 /\ Share(L, a, v) = 0
      BY <3>1, NoShare DEF Share
    <3>3. L - cnt[a] = L /\ Twice(L) \in Nat
      BY <1>0, <3>1, TwiceFacts
    <3> QED BY <3>1, <3>2, <3>3 DEF ToCome
  <2> QED BY <2>1, <2>2, <2>3 DEF FailInv
<1>2. FailInv(L, u, v) /\ [LockNext]_lockVars => FailInv(L, u, v)'
  BY <1>0, NextFailInv
<1>3. FailInv(L, u, v) => FailuresBounded
  <2> SUFFICES ASSUME FailInv(L, u, v), NEW a \in Account
               PROVE  2 * fails[a] <= L * (L + 3) + 2 * unstored[a]
    BY DEF FailuresBounded
  <2>1. LockTypeOK /\ CountsBelow(L) /\ u \in Worker /\ v \in Worker
    BY DEF FailInv
  <2>2. /\ cnt[a] \in Nat /\ cnt[a] <= L /\ fails[a] \in Nat /\ unstored[a] \in Nat
        /\ at[u].seen \in Nat /\ at[v].seen \in Nat
        /\ Place(a, u) = "wrong" => at[u].seen < L
        /\ Place(a, v) = "wrong" => at[v].seen < L
    BY <2>1 DEF LockTypeOK, CountsBelow, Place
  <2>3. ToCome(L, a, u, v) >= 0
    BY <1>0, <2>2, NeverNegative DEF ToCome, Share
  <2>4. ToCome(L, a, u, v) \in Int /\ Twice(L) \in Nat
    BY <1>0, <2>1, ToComeType DEF ToCome
  <2>5. 2 * fails[a] + ToCome(L, a, u, v) <= Twice(L) + 2 * unstored[a]
    BY DEF FailInv
  <2>6. 2 * fails[a] <= Twice(L) + 2 * unstored[a]
    BY <2>2, <2>3, <2>4, <2>5
  <2> QED BY <2>6 DEF Twice
<1> QED
  BY <1>1, <1>2, <1>3, PTL DEF LockSpec
==============================================================================
