---------------------------- MODULE RefundProofs ----------------------------
(***************************************************************************)
(* Proofs about RefundService: its type invariant, that no provider refund *)
(* is dropped, that the payment's refunded total is never overstated and is*)
(* lost only to a stale read, and that refund requests implement           *)
(* IdempotentCall, for any number of sessions, keys, payments and refunds. *)
(***************************************************************************)
EXTENDS RefundService, SumProofs

----------------------------------------------------------------------------
(* The inductive invariant                                                 *)

\* A refund request on its way, and one whose row is inserted and uncommitted.
Works(ss) == ss.op = "execute" /\ ss.pc \in {"checked", "calling", "replied"}

Holding(ss) == ss.op = "execute" /\ ss.pc \in {"calling", "replied"}

\* It is about a payment that has the amount left, whose provider id no commit
\* changes, and its own row has no provider id yet.
RequestOK(ss) ==
    Works(ss) =>
        /\ ss.refund \in RefundKeys
        /\ ss.new.key \in Keys
        /\ ss.new.gw = NoOperation
        /\ ss.new.status \in {"pending", "processing", "succeeded"}
        /\ ss.new.status = "succeeded" => ss.ok
        /\ ss.pc # "replied" => ss.new.status = "pending"
        /\ ss.copy.gw = row[ss.new.key].gw
        /\ ss.copy.status \in Refundable
        /\ ss.copy.refunded + ss.new.amount <= ss.copy.captured

\* The provider refund an answer gave a session is of the session's key.
AnswerOK(ss) ==
    ss.operation # NoOperation =>
        /\ Holding(ss) /\ ss.pc = "replied" /\ ss.ok
        /\ Known(ss.operation)
        /\ operation[ss.operation].refund = ss.refund

\* A task works on a committed refund, which has not succeeded.
TaskOK(ss) ==
    ss.pc = "read" =>
        /\ ss.refund \in RefundKeys
        /\ Recorded(ss.refund)
        /\ refund[ss.refund].status # "succeeded"

SessionOK(ss) ==
    /\ RequestOK(ss) /\ AnswerOK(ss) /\ TaskOK(ss)
    /\ Holding(ss) => ~Recorded(ss.refund)

\* Two uncommitted inserts are never of one key.
Exclusive ==
    \A s, t \in Sessions : Holds(s) /\ Holds(t) /\ sess[s].refund = sess[t].refund => s = t

RefundOK(q) == ~Recorded(q) => refund[q].gw = NoOperation

\* A provider refund is of some key and of a recorded payment.
OperationOK(o) ==
    IF operation[o].state = "unused"
      THEN o \notin orphan
      ELSE /\ operation[o].refund \in RefundKeys
           /\ \E k \in Keys : operation[o].intent = row[k].gw

\* What the provider has accepted to give back of payment i.
AcceptedOf(i) ==
    {o \in Operations : operation[o].state \in {"pending", "succeeded"} /\ operation[o].intent = i}

Accounted(k) ==
    /\ row[k].gw \in Intents
    /\ intent[row[k].gw].refunded = AmountOf(AcceptedOf(row[k].gw))

KeyInv ==
    /\ \A s \in Sessions : SessionOK(sess[s])
    /\ Exclusive
    /\ \A q \in RefundKeys : RefundOK(q)
    /\ \A o \in Operations : OperationOK(o)
    /\ RefundsAreRecorded

IInv == TypeOK /\ KeyInv /\ \A k \in Keys : Accounted(k)

\* A request's copy of the total, and with its own refund once the provider
\* has given it back, is no more than the provider has given back.
LedgerOK(ss) ==
    Works(ss) =>
        /\ ss.copy.refunded <= GivenBack(ss.new.key)
        /\ ss.pc = "replied" /\ ss.new.status = "succeeded"
             => ss.copy.refunded + ss.new.amount <= GivenBack(ss.new.key)

LedgerInv == RefundedIsNeverOverstated /\ \A s \in Sessions : LedgerOK(sess[s])

----------------------------------------------------------------------------
(* Types and sums                                                          *)

USE StoreAssumption, RefundAssumption DEF StoreAssumption, RefundAssumption

Amounts == [o \in Operations |-> operation[o].amount]

LEMMA IdleType == Idle \in Session
BY DEF Idle, Session, NoRefund, Refund, NoRow, Row, RefundStatus

LEMMA IdleOK == SessionOK(Idle) /\ LedgerOK(Idle) /\ ~Holding(Idle) /\ Idle.operation = NoOperation
BY DEF Idle, SessionOK, LedgerOK, RequestOK, AnswerOK, TaskOK, Works, Holding

LEMMA StatusTypes ==
    /\ \A refunded : StatusAfterRefund(refunded, Total) \in TransactionStatus
    /\ \A op : TaskStatus(op) \in RefundStatus \ {"succeeded"}
    /\ \A state : Accepted(state) \in {"processing", "succeeded"}
    /\ \A state : Accepted(state) = "succeeded" => state = "succeeded"
BY DEF StatusAfterRefund, TransactionStatus, TaskStatus, RefundStatus, Accepted, RefundWord

LEMMA AmountsType ==
    ASSUME TypeOK
    PROVE  /\ \A o \in Operations : Amounts[o] \in 0..Total /\ Amounts[o] = operation[o].amount
           /\ \A S \in SUBSET Operations :
                /\ IsFiniteSet(S)
                /\ AmountOf(S) = SumFunctionOnSet(Amounts, S)
                /\ AmountOf(S) \in Nat
<1>1. \A o \in Operations : Amounts[o] \in 0..Total /\ Amounts[o] = operation[o].amount
  BY DEF TypeOK, Operation, Amounts
<1>2. ASSUME NEW S \in SUBSET Operations
      PROVE  IsFiniteSet(S) /\ AmountOf(S) = SumFunctionOnSet(Amounts, S) /\ AmountOf(S) \in Nat
  <2>1. IsFiniteSet(S)
    BY FS_Subset
  <2>2. AmountOf(S) = SumFunctionOnSet(Amounts, S)
    BY DEF AmountOf, Amounts
  <2>3. SumFunctionOnSet(Amounts, S) \in Nat
    <3>1. \A o \in S : Amounts[o] \in Nat
      BY <1>1
    <3>2. QED
      BY <2>1, <3>1, SumType
  <2>4. QED
    BY <2>1, <2>2, <2>3
<1>3. QED
  BY <1>1, <1>2

\* The initial state satisfies the invariant: the payments are captured and
\* nothing has been refunded.
LEMMA InitIInv == Init => IInv /\ LedgerInv
<1> SUFFICES ASSUME Init PROVE IInv /\ LedgerInv
  OBVIOUS
<1>1. TypeOK
  BY IdleType DEF Init, TypeOK, UnusedOperation, Operation, NoRefund, Refund, RefundStatus
<1>2. \A s \in Sessions : SessionOK(sess[s]) /\ LedgerOK(sess[s]) /\ ~Holds(s)
  BY IdleOK DEF Init, Holds, Holding
<1>3. \A o \in Operations : operation[o].state = "unused"
  BY DEF Init, UnusedOperation
<1>4. Exclusive /\ RefundsAreRecorded /\ \A o \in Operations : OperationOK(o)
  BY <1>2, <1>3 DEF Init, Exclusive, RefundsAreRecorded, Known, OperationOK
<1>5. \A q \in RefundKeys : RefundOK(q)
  BY DEF Init, RefundOK, NoRefund
<1>6. ASSUME NEW k \in Keys
      PROVE  Accounted(k) /\ row[k].refunded = 0 /\ row[k].status = "succeeded"
  <2>1. row[k].gw \in Intents /\ row[k].refunded = 0 /\ row[k].status = "succeeded"
    BY DEF Init, Captured, StoreTypeOK, Row
  <2>2. intent[row[k].gw].refunded = 0
    <3>1. intent[row[k].gw] = [state |-> "succeeded", key |-> k, provider |-> row[k].provider,
                               captured |-> row[k].captured, refunded |-> 0]
      BY DEF Init, Captured
    <3>2. QED
      BY <3>1
  <2>3. AcceptedOf(row[k].gw) = {}
    BY <1>3 DEF AcceptedOf
  <2>4. AmountOf({}) = 0
    BY SumOfNone DEF AmountOf
  <2>5. QED
    BY <2>1, <2>2, <2>3, <2>4 DEF Accounted
<1>7. \A k \in Keys : GivenBack(k) = 0
  <2>1. AmountOf({}) = 0
    BY SumOfNone DEF AmountOf
  <2>2. \A k \in Keys : {o \in Operations : operation[o].state = "succeeded"
                                            /\ operation[o].intent = row[k].gw} = {}
    BY <1>3
  <2>3. QED
    BY <2>1, <2>2 DEF GivenBack
<1>8. RefundedIsNeverOverstated
  BY <1>6, <1>7 DEF RefundedIsNeverOverstated
<1>9. QED
  BY <1>1, <1>2, <1>4, <1>5, <1>6, <1>8 DEF IInv, KeyInv, LedgerInv

----------------------------------------------------------------------------
(* A step that only moves one session                                      *)

\* Session s becomes ss, which knows of no provider refund: what s knew of is
\* lost.
Moves(s, ss) ==
    /\ sess' = [sess EXCEPT ![s] = ss]
    /\ orphan' = orphan \cup ({sess[s].operation} \ {NoOperation})
    /\ UNCHANGED <<row, intent, refund, operation>>

LEMMA MoveKeepsIInv ==
    ASSUME IInv, NEW s \in Sessions, NEW ss \in Session, Moves(s, ss),
           SessionOK(ss), ss.operation = NoOperation,
           Holding(ss) => \A t \in Sessions \ {s} : ~(Holds(t) /\ sess[t].refund = ss.refund)
    PROVE  IInv'
<1>0. TypeOK /\ KeyInv /\ sess \in [Sessions -> Session]
  BY DEF IInv, TypeOK
<1>1. \A t \in Sessions : sess'[t] = IF t = s THEN ss ELSE sess[t]
  BY <1>0 DEF Moves
<1>2. UNCHANGED <<row, intent, refund, operation>>
  BY DEF Moves
<1>3. sess[s].operation \in Operations \cup {NoOperation}
  BY <1>0 DEF Session
<1>4. TypeOK'
  <2>1. sess' \in [Sessions -> Session]
    BY <1>0 DEF Moves
  <2>2. orphan' \in SUBSET Operations
    BY <1>0, <1>3 DEF Moves, TypeOK
  <2>3. QED
    BY <1>0, <1>2, <2>1, <2>2 DEF TypeOK, StoreTypeOK
<1>5. \A o \in Operations : Known(o)' <=> Known(o) /\ o # sess[s].operation
  BY <1>2, <1>3 DEF Known, Moves
<1>6. \A t \in Sessions \ {s} : sess[t].operation # NoOperation => sess[t].operation # sess[s].operation
  <2> SUFFICES ASSUME NEW t \in Sessions \ {s}, sess[t].operation # NoOperation,
                      sess[t].operation = sess[s].operation
               PROVE  FALSE
    OBVIOUS
  <2>1. AnswerOK(sess[s]) /\ AnswerOK(sess[t])
    BY <1>0 DEF KeyInv, SessionOK
  <2>2. Holds(s) /\ Holds(t) /\ sess[s].refund = sess[t].refund
    BY <2>1 DEF AnswerOK, Holding, Holds
  <2>3. QED
    BY <1>0, <2>2 DEF KeyInv, Exclusive
<1>7. \A t \in Sessions : SessionOK(sess[t])'
  <2> SUFFICES ASSUME NEW t \in Sessions PROVE SessionOK(sess[t])'
    OBVIOUS
  <2>1. CASE t = s
    <3>1. sess'[t] = ss
      BY <1>1, <2>1
    <3>2. QED
      BY <1>2, <3>1 DEF SessionOK, RequestOK, AnswerOK, TaskOK, Works, Holding, Recorded
  <2>2. CASE t # s
    <3>1. sess'[t] = sess[t] /\ SessionOK(sess[t])
      BY <1>0, <1>1, <2>2 DEF KeyInv
    <3>2. sess[t].operation \in Operations \cup {NoOperation}
      BY <1>0 DEF Session
    <3>3. AnswerOK(sess[t])'
      BY <1>2, <1>5, <1>6, <2>2, <3>1, <3>2 DEF SessionOK, AnswerOK, Holding
    <3>4. RequestOK(sess[t])' /\ TaskOK(sess[t])' /\ (Holding(sess[t]) => ~Recorded(sess[t].refund))'
      BY <1>2, <3>1 DEF SessionOK, RequestOK, TaskOK, Works, Holding, Recorded
    <3>5. QED
      BY <3>3, <3>4 DEF SessionOK
  <2>3. QED
    BY <2>1, <2>2
<1>8. Exclusive'
  <2>1. \A t \in Sessions \ {s} : Holds(t)' <=> Holds(t)
    BY <1>1 DEF Holds
  <2>2. Holds(s)' <=> Holding(ss)
    BY <1>1 DEF Holds, Holding
  <2>3. QED
    BY <1>0, <1>1, <2>1, <2>2 DEF KeyInv, Exclusive
<1>9. \A q \in RefundKeys : RefundOK(q)'
  BY <1>0, <1>2 DEF KeyInv, RefundOK, Recorded
<1>10. \A o \in Operations : OperationOK(o)'
  <2> SUFFICES ASSUME NEW o \in Operations PROVE OperationOK(o)'
    OBVIOUS
  <2>1. OperationOK(o)
    BY <1>0 DEF KeyInv
  <2>2. o = sess[s].operation => operation[o].state # "unused"
    BY <1>0 DEF KeyInv, SessionOK, AnswerOK, Known
  <2>3. o \in orphan' => o \in orphan \/ o = sess[s].operation
    BY DEF Moves
  <2>4. QED
    BY <1>2, <2>1, <2>2, <2>3 DEF OperationOK
<1>11. RefundsAreRecorded'
  <2> SUFFICES ASSUME NEW o \in Operations, Known(o)'
               PROVE  \/ refund[operation[o].refund].gw = o
                      \/ \E t \in Sessions : /\ Holds(t)'
                                            /\ sess'[t].refund = operation[o].refund
                                            /\ sess'[t].operation = o
    BY <1>2 DEF RefundsAreRecorded
  <2>1. Known(o) /\ o # sess[s].operation
    BY <1>5
  <2>2. CASE refund[operation[o].refund].gw = o
    BY <2>2
  <2>3. CASE \E t \in Sessions : /\ Holds(t)
                                 /\ sess[t].refund = operation[o].refund
                                 /\ sess[t].operation = o
    <3>1. PICK t \in Sessions : /\ Holds(t)
                                /\ sess[t].refund = operation[o].refund
                                /\ sess[t].operation = o
      BY <2>3
    <3>2. t # s
      BY <2>1, <3>1
    <3>3. QED
      BY <1>1, <3>1, <3>2 DEF Holds
  <2>4. QED
    BY <1>0, <2>1, <2>2, <2>3 DEF KeyInv, RefundsAreRecorded
<1>12. \A k \in Keys : Accounted(k)'
  BY <1>2 DEF IInv, Accounted, AmountOf, AcceptedOf
<1>13. QED
  BY <1>4, <1>7, <1>8, <1>9, <1>10, <1>11, <1>12 DEF IInv, KeyInv

\* A session comes to hold a key by its insert, and goes on to hold it when the
\* provider is asked in vain.
Goes(old, ss) ==
    Holding(ss) => IF Holding(old)
                     THEN old.pc = "calling" /\ ss.pc = "replied" /\ ss.refund = old.refund
                     ELSE ss.pc = "calling"

\* A step that only moves a session, to a state the invariants allow.
Quiet(s) ==
    \E ss \in Session :
        /\ Moves(s, ss) /\ Goes(sess[s], ss)
        /\ SessionOK(ss) /\ LedgerOK(ss)
        /\ ss.operation = NoOperation
        /\ Holding(ss) => \A t \in Sessions \ {s} : ~(Holds(t) /\ sess[t].refund = ss.refund)

LEMMA EndIsQuiet ==
    ASSUME IInv, NEW s \in Sessions, End(s),
           orphan' = orphan \cup ({sess[s].operation} \ {NoOperation}),
           UNCHANGED <<row, intent, refund, operation>>
    PROVE  Quiet(s)
<1>1. Moves(s, Idle)
  BY DEF End, Moves
<1>2. QED
  BY <1>1, IdleType, IdleOK DEF Quiet, Goes

\* A session that is not answered for knows of no provider refund to lose.
LEMMA NothingToLose ==
    ASSUME IInv, NEW s \in Sessions, ~(Holding(sess[s]) /\ sess[s].pc = "replied")
    PROVE  orphan = orphan \cup ({sess[s].operation} \ {NoOperation})
<1>1. sess[s].operation = NoOperation
  BY DEF IInv, KeyInv, SessionOK, AnswerOK
<1>2. QED
  BY <1>1

LEMMA ReturnedOK ==
    ASSUME NEW op \in Requests, NEW status \in RefundStatus \cup {"absent"}
    PROVE  LET ss == [Idle EXCEPT !.pc = "returned", !.op = op, !.new.status = status]
           IN  ss \in Session /\ SessionOK(ss) /\ LedgerOK(ss) /\ ss.operation = NoOperation
                 /\ ~Holding(ss)
<1> DEFINE ss == [Idle EXCEPT !.pc = "returned", !.op = op, !.new.status = status]
<1>1. ss \in Session
  BY IdleType DEF Idle, Session, Refund
<1>2. ss.pc = "returned" /\ ss.operation = NoOperation
  BY DEF Idle
<1> HIDE DEF ss
<1>3. SessionOK(ss) /\ LedgerOK(ss) /\ ~Holding(ss)
  BY <1>2 DEF SessionOK, LedgerOK, RequestOK, AnswerOK, TaskOK, Works, Holding
<1>4. QED
  BY <1>1, <1>2, <1>3 DEF ss

LEMMA BeginKnownIsQuiet ==
    ASSUME IInv, NEW s \in Sessions, NEW op \in Requests, NEW q \in RefundKeys, BeginKnown(s, op, q)
    PROVE  Quiet(s)
<1> DEFINE ss == [Idle EXCEPT !.pc = "returned", !.op = op, !.new.status = refund[q].status]
<1>1. refund[q].status \in RefundStatus \cup {"absent"}
  BY DEF IInv, TypeOK, Refund
<1>2. ss \in Session /\ SessionOK(ss) /\ LedgerOK(ss) /\ ss.operation = NoOperation /\ ~Holding(ss)
  BY <1>1, ReturnedOK
<1>3. orphan = orphan \cup ({sess[s].operation} \ {NoOperation})
  BY NothingToLose DEF BeginKnown, Holding
<1>4. sess' = [sess EXCEPT ![s] = ss] /\ UNCHANGED <<row, intent, refund, operation, orphan>>
  BY DEF BeginKnown, Return
<1> HIDE DEF ss
<1>5. Moves(s, ss)
  BY <1>3, <1>4 DEF Moves
<1>6. QED
  BY <1>2, <1>5 DEF Quiet, Goes

LEMMA BeginRefundIsQuiet ==
    ASSUME IInv, LedgerInv, NEW s \in Sessions, NEW q \in RefundKeys,
           NEW k \in Keys, NEW amount \in 1..Total, BeginRefund(s, q, k, amount)
    PROVE  Quiet(s)
<1> DEFINE new == [status |-> "pending", key |-> k, amount |-> amount, gw |-> NoOperation]
           ss == [Idle EXCEPT !.pc = "checked", !.op = "execute", !.refund = q, !.copy = row[k],
                              !.new = new]
<1>1. row[k] \in Row
  BY DEF IInv, TypeOK, StoreTypeOK
<1>2. new \in Refund
  BY DEF Refund, RefundStatus
<1>3. ss \in Session
  BY <1>1, <1>2, IdleType DEF Session, Idle, Requests
<1>4. /\ ss.pc = "checked" /\ ss.op = "execute" /\ ss.refund = q /\ ss.copy = row[k]
      /\ ss.new.key = k /\ ss.new.gw = NoOperation /\ ss.new.status = "pending"
      /\ ss.new.amount = amount /\ ss.operation = NoOperation
  BY DEF Idle
<1>5. sess' = [sess EXCEPT ![s] = ss] /\ UNCHANGED <<row, intent, refund, operation, orphan>>
  BY DEF BeginRefund
<1> HIDE DEF ss, new
<1>6. orphan = orphan \cup ({sess[s].operation} \ {NoOperation})
  BY NothingToLose DEF BeginRefund, Holding
<1>7. Moves(s, ss)
  BY <1>5, <1>6 DEF Moves
<1>8. row[k].status \in Refundable /\ row[k].refunded + amount <= row[k].captured
  BY <1>1 DEF BeginRefund, RefundAllowed, Row
<1>9. SessionOK(ss)
  BY <1>4, <1>8 DEF SessionOK, RequestOK, AnswerOK, TaskOK, Works, Holding
<1>10. LedgerOK(ss)
  BY <1>4 DEF LedgerOK, Works, LedgerInv, RefundedIsNeverOverstated
<1>11. ~Holding(ss)
  BY <1>4 DEF Holding
<1>12. QED
  BY <1>3, <1>4, <1>7, <1>9, <1>10, <1>11 DEF Quiet, Goes

LEMMA CloseIsQuiet ==
    ASSUME IInv, NEW s \in Sessions, Close(s)
    PROVE  Quiet(s)
<1>1. orphan = orphan \cup ({sess[s].operation} \ {NoOperation})
  BY NothingToLose DEF Close, Holding
<1>2. QED
  BY <1>1, EndIsQuiet DEF Close

LEMMA InsertIsQuiet ==
    ASSUME IInv, LedgerInv, NEW s \in Sessions, Insert(s)
    PROVE  Quiet(s)
<1> DEFINE ss == [sess[s] EXCEPT !.pc = "calling"]
<1>1. orphan = orphan \cup ({sess[s].operation} \ {NoOperation})
  BY NothingToLose DEF Insert, At, Holding
<1>2. CASE End(s)
  BY <1>1, <1>2, EndIsQuiet DEF Insert
<1>3. CASE /\ ~Recorded(sess[s].refund)
           /\ sess' = [sess EXCEPT ![s].pc = "calling"]
  <2>1. sess[s] \in Session /\ SessionOK(sess[s]) /\ LedgerOK(sess[s])
    BY DEF IInv, TypeOK, KeyInv, LedgerInv
  <2>2. sess[s].pc = "checked" /\ sess[s].op = "execute"
    BY DEF Insert, At
  <2>3. ss \in Session
    BY <2>1 DEF Session
  <2>4. /\ ss.pc = "calling" /\ ss.op = "execute" /\ ss.refund = sess[s].refund
        /\ ss.new = sess[s].new /\ ss.copy = sess[s].copy /\ ss.ok = sess[s].ok
        /\ ss.operation = sess[s].operation
    BY <2>1, <2>2 DEF Session
  <2>5. sess' = [sess EXCEPT ![s] = ss]
    BY <1>3
  <2> HIDE DEF ss
  <2>6. Moves(s, ss)
    BY <1>1, <2>5 DEF Moves, Insert
  <2>7. ss.operation = NoOperation
    BY <2>1, <2>2, <2>4 DEF SessionOK, AnswerOK, Holding
  <2>8. RequestOK(ss) /\ AnswerOK(ss) /\ TaskOK(ss)
    BY <2>1, <2>2, <2>4, <2>7 DEF SessionOK, RequestOK, AnswerOK, TaskOK, Works
  <2>9. SessionOK(ss)
    BY <1>3, <2>4, <2>8 DEF SessionOK
  <2>10. LedgerOK(ss)
    BY <2>1, <2>2, <2>4 DEF LedgerOK, Works
  <2>11. \A t \in Sessions : ~(Holds(t) /\ sess[t].refund = ss.refund)
    BY <2>4 DEF Insert
  <2>12. Goes(sess[s], ss)
    BY <2>2, <2>4 DEF Goes, Holding
  <2>13. QED
    BY <2>3, <2>6, <2>7, <2>9, <2>10, <2>11, <2>12 DEF Quiet
<1>4. QED
  BY <1>2, <1>3 DEF Insert

LEMMA BeginTaskIsQuiet ==
    ASSUME IInv, NEW s \in Sessions, NEW op \in Tasks, NEW q \in RefundKeys, BeginTask(s, op, q)
    PROVE  Quiet(s)
<1> DEFINE ss == [Idle EXCEPT !.pc = "read", !.op = op, !.refund = q, !.new = refund[q]]
<1>1. refund[q] \in Refund
  BY DEF IInv, TypeOK
<1>2. ss \in Session
  BY <1>1, IdleType DEF Session, Idle
<1>3. ss.pc = "read" /\ ss.op = op /\ ss.refund = q /\ ss.operation = NoOperation
  BY DEF Idle
<1>4. sess' = [sess EXCEPT ![s] = ss] /\ UNCHANGED <<row, intent, refund, operation, orphan>>
  BY DEF BeginTask
<1> HIDE DEF ss
<1>5. orphan = orphan \cup ({sess[s].operation} \ {NoOperation})
  BY NothingToLose DEF BeginTask, Holding
<1>6. Moves(s, ss)
  BY <1>4, <1>5 DEF Moves
<1>7. Recorded(q) /\ refund[q].status # "succeeded"
  BY DEF BeginTask, TaskApplies, Tasks
<1>8. SessionOK(ss) /\ LedgerOK(ss) /\ ~Holding(ss)
  BY <1>3, <1>7 DEF SessionOK, LedgerOK, RequestOK, AnswerOK, TaskOK, Works, Holding
<1>9. QED
  BY <1>2, <1>3, <1>6, <1>8 DEF Quiet, Goes

LEMMA CrashIsQuiet ==
    ASSUME IInv, NEW s \in Sessions, Crash(s)
    PROVE  Quiet(s)
BY EndIsQuiet DEF Crash

----------------------------------------------------------------------------
(* The provider's answer                                                   *)

\* The provider accepts the refund of session s as o, in state st, and the
\* session goes on as ss: with the answer, or with its refund lost.
Accepts(s, ss, o, st) ==
    LET i == sess[s].copy.gw
        amount == sess[s].new.amount
    IN  /\ At(s, "calling", {"execute"})
        /\ ss.pc = "replied" /\ ss.op = "execute"
        /\ ss.refund = sess[s].refund /\ ss.copy = sess[s].copy
        /\ ss.new.key = sess[s].new.key /\ ss.new.gw = sess[s].new.gw
        /\ ss.new.amount = sess[s].new.amount
        /\ ss.new.status = IF ss.ok THEN Accepted(st) ELSE "pending"
        /\ ss.operation \in {o, NoOperation}
        /\ ss.operation = o => ss.ok
        /\ sess' = [sess EXCEPT ![s] = ss]
        /\ orphan' = IF ss.operation = o THEN orphan ELSE orphan \cup {o}
        /\ operation[o].state = "unused"
        /\ operation' = [operation EXCEPT ![o] = [state |-> st, refund |-> sess[s].refund,
                                                  intent |-> i, amount |-> amount]]
        /\ Refundables(i, amount)
        /\ intent' = [intent EXCEPT ![i].refunded = @ + amount]
        /\ UNCHANGED <<row, refund>>

\* A session that has called the provider is about a payment of its own.
LEMMA Called ==
    ASSUME IInv, NEW s \in Sessions, At(s, "calling", {"execute"})
    PROVE  /\ sess[s] \in Session /\ Holding(sess[s]) /\ Holds(s)
           /\ SessionOK(sess[s]) /\ RequestOK(sess[s]) /\ Works(sess[s])
           /\ sess[s].operation = NoOperation
           /\ sess[s].refund \in RefundKeys /\ ~Recorded(sess[s].refund)
           /\ sess[s].new.key \in Keys /\ sess[s].new.status = "pending"
           /\ sess[s].copy.gw = row[sess[s].new.key].gw
           /\ sess[s].copy.gw \in Intents
<1>1. sess[s] \in Session /\ SessionOK(sess[s])
  BY DEF IInv, TypeOK, KeyInv
<1>2. sess[s].pc = "calling" /\ sess[s].op = "execute"
  BY DEF At
<1>3. Works(sess[s]) /\ Holding(sess[s]) /\ Holds(s)
  BY <1>2 DEF Works, Holding, Holds
<1>4. /\ RequestOK(sess[s])
      /\ sess[s].operation = NoOperation
      /\ sess[s].refund \in RefundKeys /\ ~Recorded(sess[s].refund)
      /\ sess[s].new.key \in Keys /\ sess[s].new.status = "pending"
      /\ sess[s].copy.gw = row[sess[s].new.key].gw
  BY <1>1, <1>2, <1>3 DEF SessionOK, RequestOK, AnswerOK
<1>5. sess[s].copy.gw \in Intents
  BY <1>4 DEF IInv, Accounted
<1>6. QED
  BY <1>1, <1>3, <1>4, <1>5

LEMMA GatewayRefundsCases ==
    ASSUME IInv, LedgerInv, NEW s \in Sessions, GatewayRefunds(s)
    PROVE  \/ Quiet(s)
           \/ \E ss \in Session, o \in Operations, st \in {"pending", "succeeded"} :
                Accepts(s, ss, o, st)
<1> DEFINE i == sess[s].copy.gw
           amount == sess[s].new.amount
<1>0. At(s, "calling", {"execute"}) /\ UNCHANGED <<row, refund>>
  BY DEF GatewayRefunds
<1>1. sess[s].pc = "calling" /\ sess[s].op = "execute"
  BY <1>0 DEF At
<1>2. /\ sess[s] \in Session /\ Holding(sess[s]) /\ Holds(s)
      /\ SessionOK(sess[s]) /\ RequestOK(sess[s]) /\ Works(sess[s])
      /\ sess[s].operation = NoOperation
      /\ sess[s].refund \in RefundKeys /\ ~Recorded(sess[s].refund)
      /\ sess[s].new.status = "pending"
  BY <1>0, Called
<1>3. sess[s].new \in Refund
  BY <1>2 DEF Session
<1>4. CASE /\ sess' = [sess EXCEPT ![s].pc = "replied"]
           /\ UNCHANGED <<intent, operation, orphan>>
  <2> DEFINE ss == [sess[s] EXCEPT !.pc = "replied"]
  <2>1. ss \in Session
    BY <1>2 DEF Session
  <2>2. /\ ss.pc = "replied" /\ ss.op = "execute" /\ ss.refund = sess[s].refund
        /\ ss.new = sess[s].new /\ ss.copy = sess[s].copy /\ ss.ok = sess[s].ok
        /\ ss.operation = NoOperation
    BY <1>1, <1>2 DEF Session
  <2>3. sess' = [sess EXCEPT ![s] = ss]
    BY <1>4
  <2> HIDE DEF ss
  <2>4. Moves(s, ss)
    BY <1>0, <1>2, <1>4, <2>3 DEF Moves
  <2>5. RequestOK(ss) /\ AnswerOK(ss) /\ TaskOK(ss)
    BY <1>1, <1>2, <2>2 DEF RequestOK, AnswerOK, TaskOK, Works
  <2>6. SessionOK(ss)
    BY <1>2, <2>2, <2>5 DEF SessionOK
  <2>7. LedgerOK(ss)
    BY <1>2, <2>2 DEF LedgerInv, LedgerOK, Works
  <2>8. \A t \in Sessions \ {s} : ~(Holds(t) /\ sess[t].refund = ss.refund)
    BY <1>2, <2>2 DEF IInv, KeyInv, Exclusive
  <2>9. Goes(sess[s], ss)
    BY <1>1, <1>2, <2>2 DEF Goes
  <2>10. QED
    BY <2>1, <2>2, <2>4, <2>6, <2>7, <2>8, <2>9 DEF Quiet
<1>5. ASSUME Refundables(i, amount),
             intent' = [intent EXCEPT ![i].refunded = @ + amount],
             NEW o \in Operations, NEW st \in {"pending", "succeeded"},
             operation[o].state = "unused",
             operation' = [operation EXCEPT ![o] =
                              [state |-> st, refund |-> sess[s].refund,
                               intent |-> i, amount |-> amount]],
             sess' = [sess EXCEPT ![s].pc = "replied", ![s].ok = TRUE,
                                  ![s].operation = o, ![s].new.status = Accepted(st)],
             UNCHANGED orphan
      PROVE  \E ss \in Session : Accepts(s, ss, o, st)
  <2> DEFINE new == [sess[s].new EXCEPT !.status = Accepted(st)]
             ss == [sess[s] EXCEPT !.pc = "replied", !.ok = TRUE, !.operation = o, !.new = new]
  <2>1. new \in Refund
    BY <1>3, StatusTypes DEF Refund, RefundStatus
  <2>2. /\ new.status = Accepted(st) /\ new.key = sess[s].new.key /\ new.gw = sess[s].new.gw
        /\ new.amount = sess[s].new.amount
    BY <1>3 DEF Refund
  <2>3. sess' = [sess EXCEPT ![s] = ss]
    BY <1>5
  <2> HIDE DEF new
  <2>4. ss \in Session
    BY <1>2, <2>1 DEF Session
  <2>5. /\ ss.pc = "replied" /\ ss.op = "execute" /\ ss.refund = sess[s].refund
        /\ ss.new = new /\ ss.copy = sess[s].copy /\ ss.ok = TRUE /\ ss.operation = o
    BY <1>1, <1>2 DEF Session
  <2> HIDE DEF ss
  <2>6. Accepts(s, ss, o, st)
    BY <1>0, <1>5, <2>2, <2>3, <2>5 DEF Accepts
  <2>7. QED
    BY <2>4, <2>6
<1>6. ASSUME Refundables(i, amount),
             intent' = [intent EXCEPT ![i].refunded = @ + amount],
             NEW o \in Operations, NEW st \in {"pending", "succeeded"},
             operation[o].state = "unused",
             operation' = [operation EXCEPT ![o] =
                              [state |-> st, refund |-> sess[s].refund,
                               intent |-> i, amount |-> amount]],
             NEW ok \in BOOLEAN,
             sess' = [sess EXCEPT ![s].pc = "replied", ![s].ok = ok,
                                  ![s].new.status = IF ok THEN Accepted(st) ELSE @],
             orphan' = orphan \cup {o}
      PROVE  \E ss \in Session : Accepts(s, ss, o, st)
  <2> DEFINE new == [sess[s].new EXCEPT !.status = IF ok THEN Accepted(st) ELSE @]
             ss == [sess[s] EXCEPT !.pc = "replied", !.ok = ok, !.new = new]
  <2>1. new \in Refund
    BY <1>3, StatusTypes DEF Refund, RefundStatus
  <2>2. /\ new.status = IF ok THEN Accepted(st) ELSE "pending"
        /\ new.key = sess[s].new.key /\ new.gw = sess[s].new.gw
        /\ new.amount = sess[s].new.amount
    BY <1>2, <1>3 DEF Refund
  <2>3. sess' = [sess EXCEPT ![s] = ss]
    BY <1>6
  <2> HIDE DEF new
  <2>4. ss \in Session
    BY <1>2, <2>1 DEF Session
  <2>5. /\ ss.pc = "replied" /\ ss.op = "execute" /\ ss.refund = sess[s].refund
        /\ ss.new = new /\ ss.copy = sess[s].copy /\ ss.ok = ok /\ ss.operation = NoOperation
    BY <1>1, <1>2 DEF Session
  <2> HIDE DEF ss
  <2>6. o # NoOperation
    OBVIOUS
  <2>7. Accepts(s, ss, o, st)
    BY <1>0, <1>6, <2>2, <2>3, <2>5, <2>6 DEF Accepts
  <2>8. QED
    BY <2>4, <2>7
<1>7. QED
  BY <1>4, <1>5, <1>6 DEF GatewayRefunds

\* What was not accepted before is in no sum; it adds its amount to those it is
\* taken into.
LEMMA AmountOfAccepted ==
    ASSUME TypeOK, TypeOK', NEW s \in Sessions, NEW ss \in Session, NEW o \in Operations,
           NEW st \in {"pending", "succeeded"}, Accepts(s, ss, o, st)
    PROVE  \A S \in SUBSET (Operations \ {o}) :
              /\ SumFunctionOnSet(Amounts', S) = SumFunctionOnSet(Amounts, S)
              /\ SumFunctionOnSet(Amounts', S \cup {o})
                   = SumFunctionOnSet(Amounts, S) + sess[s].new.amount
<1> SUFFICES ASSUME NEW S \in SUBSET (Operations \ {o})
             PROVE  /\ SumFunctionOnSet(Amounts', S) = SumFunctionOnSet(Amounts, S)
                    /\ SumFunctionOnSet(Amounts', S \cup {o})
                         = SumFunctionOnSet(Amounts, S) + sess[s].new.amount
  OBVIOUS
<1>1. operation' = [operation EXCEPT ![o] = [state |-> st, refund |-> sess[s].refund,
                                              intent |-> sess[s].copy.gw,
                                              amount |-> sess[s].new.amount]]
  BY DEF Accepts
<1>2. operation \in [Operations -> Operation]
  BY DEF TypeOK
<1>3. operation'[o].amount = sess[s].new.amount /\ \A p \in S : operation'[p] = operation[p]
  BY <1>1, <1>2
<1>4. \A p \in Operations : Amounts'[p] = operation'[p].amount /\ Amounts[p] = operation[p].amount
  BY DEF Amounts
<1>5. \A p \in Operations : operation[p].amount \in Nat /\ operation'[p].amount \in Nat
  BY DEF TypeOK, Operation
<1>6. IsFiniteSet(S)
  BY FS_Subset
<1>7. \A p \in S : Amounts[p] \in Nat /\ Amounts'[p] = Amounts[p]
  BY <1>3, <1>4, <1>5
<1>8. SumFunctionOnSet(Amounts', S) = SumFunctionOnSet(Amounts, S)
  BY <1>6, <1>7, SumSame
<1>9. \A p \in S \cup {o} : Amounts'[p] \in Nat
  BY <1>4, <1>5
<1>10. SumFunctionOnSet(Amounts', S \cup {o}) = Amounts'[o] + SumFunctionOnSet(Amounts', S)
  BY <1>6, <1>9, SumAdds
<1>11. SumFunctionOnSet(Amounts, S) \in Nat /\ Amounts'[o] \in Nat
  BY <1>6, <1>7, <1>9, SumType
<1>12. QED
  BY <1>3, <1>4, <1>8, <1>10, <1>11

LEMMA AcceptsKeepsTypes ==
    ASSUME IInv, NEW s \in Sessions, NEW ss \in Session, NEW o \in Operations,
           NEW st \in {"pending", "succeeded"}, Accepts(s, ss, o, st)
    PROVE  TypeOK'
<1> DEFINE i == sess[s].copy.gw
           amount == sess[s].new.amount
           new == [state |-> st, refund |-> sess[s].refund, intent |-> i, amount |-> amount]
<1>1. TypeOK
  BY DEF IInv
<1>2. /\ sess[s] \in Session /\ i \in Intents /\ sess[s].refund \in RefundKeys
  BY Called DEF Accepts
<1>3. amount \in 0..Total
  BY <1>2 DEF Session, Refund
<1>4. new \in Operation
  BY <1>2, <1>3 DEF Operation
<1>5. operation' \in [Operations -> Operation]
  <2> HIDE DEF new
  <2>1. operation' = [operation EXCEPT ![o] = new]
    BY DEF Accepts, new
  <2>2. QED
    BY <1>1, <1>4, <2>1 DEF TypeOK
<1>6. intent' \in [Intents -> Intent]
  <2>1. intent[i] \in Intent
    BY <1>1, <1>2 DEF TypeOK, StoreTypeOK
  <2>2. intent[i].refunded + amount \in 0..Total
    BY <1>3, <2>1 DEF Accepts, Refundables, Intent
  <2>3. [intent[i] EXCEPT !.refunded = @ + amount] \in Intent
    BY <2>1, <2>2 DEF Intent
  <2>4. intent' = [intent EXCEPT ![i] = [intent[i] EXCEPT !.refunded = @ + amount]]
    BY DEF Accepts
  <2>5. QED
    BY <1>1, <2>3, <2>4 DEF TypeOK, StoreTypeOK
<1>7. sess' \in [Sessions -> Session] /\ orphan' \in SUBSET Operations
  BY <1>1 DEF Accepts, TypeOK
<1>8. row' \in [Keys -> Row] /\ refund' \in [RefundKeys -> Refund]
  BY <1>1 DEF Accepts, TypeOK, StoreTypeOK
<1>9. QED
  BY <1>5, <1>6, <1>7, <1>8 DEF TypeOK, StoreTypeOK

LEMMA AcceptsKeepsAccounts ==
    ASSUME IInv, NEW s \in Sessions, NEW ss \in Session, NEW o \in Operations,
           NEW st \in {"pending", "succeeded"}, Accepts(s, ss, o, st), NEW k \in Keys
    PROVE  Accounted(k)'
<1> DEFINE i == sess[s].copy.gw
           amount == sess[s].new.amount
           j == row[k].gw
           S == AcceptedOf(j)
<1>1. TypeOK /\ TypeOK'
  BY AcceptsKeepsTypes DEF IInv
<1>2. /\ sess[s] \in Session /\ i \in Intents
  BY Called DEF Accepts
<1>3. j \in Intents /\ intent[j].refunded = AmountOf(S)
  BY DEF IInv, Accounted
<1>4. row'[k].gw = j
  BY DEF Accepts
<1>5. S \in SUBSET (Operations \ {o})
  BY DEF AcceptedOf, Accepts
<1>6. operation \in [Operations -> Operation]
  BY <1>1 DEF TypeOK
<1>7. operation'[o].state = st /\ operation'[o].intent = i
  BY <1>6 DEF Accepts
<1>8. \A p \in Operations \ {o} : operation'[p] = operation[p]
  BY <1>6 DEF Accepts
<1>9. /\ SumFunctionOnSet(Amounts', S) = SumFunctionOnSet(Amounts, S)
      /\ SumFunctionOnSet(Amounts', S \cup {o}) = SumFunctionOnSet(Amounts, S) + amount
  <2>1. \A T \in SUBSET (Operations \ {o}) :
          /\ SumFunctionOnSet(Amounts', T) = SumFunctionOnSet(Amounts, T)
          /\ SumFunctionOnSet(Amounts', T \cup {o})
               = SumFunctionOnSet(Amounts, T) + sess[s].new.amount
    BY <1>1, AmountOfAccepted
  <2> HIDE DEF S
  <2>2. QED
    BY <1>5, <2>1
<1>10. AmountOf(S) = SumFunctionOnSet(Amounts, S)
  BY DEF AmountOf, Amounts
<1>11. intent \in [Intents -> Intent] /\ intent[j].refunded \in Nat
  BY <1>1, <1>3 DEF TypeOK, StoreTypeOK, Intent
<1>12. CASE j = i
  <2>1. AcceptedOf(j)' = S \cup {o}
    BY <1>4, <1>7, <1>8, <1>12 DEF AcceptedOf
  <2>2. intent'[j].refunded = intent[j].refunded + amount
    BY <1>3, <1>11, <1>12 DEF Accepts, Intent
  <2>3. (row[k].gw)' = j
    BY <1>4
  <2>4. AmountOf(AcceptedOf(row[k].gw))' = SumFunctionOnSet(Amounts', AcceptedOf(row[k].gw)')
    BY DEF AmountOf, Amounts
  <2>5. AcceptedOf(row[k].gw)' = S \cup {o}
    BY <1>4, <1>7, <1>8, <1>12 DEF AcceptedOf
  <2> HIDE DEF S
  <2>6. QED
    BY <1>3, <1>4, <1>9, <1>10, <1>11, <2>2, <2>4, <2>5 DEF Accounted
<1>13. CASE j # i
  <2>1. intent'[j] = intent[j]
    BY <1>3, <1>11, <1>13 DEF Accepts
  <2>2. AmountOf(AcceptedOf(row[k].gw))' = SumFunctionOnSet(Amounts', AcceptedOf(row[k].gw)')
    BY DEF AmountOf, Amounts
  <2>3. AcceptedOf(row[k].gw)' = S
    BY <1>4, <1>5, <1>7, <1>8, <1>13 DEF AcceptedOf
  <2> HIDE DEF S
  <2>4. QED
    BY <1>3, <1>4, <1>9, <1>10, <2>1, <2>2, <2>3 DEF Accounted
<1>14. QED
  BY <1>12, <1>13

LEMMA AcceptsKeepsIInv ==
    ASSUME IInv, NEW s \in Sessions, NEW ss \in Session, NEW o \in Operations,
           NEW st \in {"pending", "succeeded"}, Accepts(s, ss, o, st)
    PROVE  IInv'
<1>0. TypeOK /\ TypeOK' /\ KeyInv
  BY AcceptsKeepsTypes DEF IInv
<1>1. /\ sess[s] \in Session /\ Holds(s) /\ SessionOK(sess[s]) /\ RequestOK(sess[s])
      /\ Works(sess[s]) /\ sess[s].operation = NoOperation /\ sess[s].refund \in RefundKeys
      /\ ~Recorded(sess[s].refund) /\ sess[s].new.key \in Keys
      /\ sess[s].copy.gw = row[sess[s].new.key].gw
  BY Called DEF Accepts
<1>2. \A t \in Sessions : sess'[t] = IF t = s THEN ss ELSE sess[t]
  BY <1>0 DEF Accepts, TypeOK
<1>3. /\ operation'[o].state = st /\ operation'[o].refund = sess[s].refund
      /\ operation'[o].intent = sess[s].copy.gw
      /\ \A p \in Operations \ {o} : operation'[p] = operation[p]
  BY <1>0 DEF Accepts, TypeOK
<1>4. o \notin orphan /\ operation[o].state = "unused"
  BY <1>0 DEF KeyInv, OperationOK, Accepts
<1>5. \A p \in Operations \ {o} : Known(p)' <=> Known(p)
  BY <1>3 DEF Known, Accepts
<1>6. Known(o)' <=> ss.operation = o
  BY <1>3, <1>4 DEF Known, Accepts
<1>7. UNCHANGED <<row, refund>>
  BY DEF Accepts
<1>8. SessionOK(ss)'
  <2>1. RequestOK(ss)'
    BY <1>1, <1>7, StatusTypes DEF RequestOK, Works, Accepts
  <2>2. AnswerOK(ss)'
    BY <1>3, <1>6 DEF AnswerOK, Holding, Accepts
  <2>3. TaskOK(ss)' /\ (Holding(ss) => ~Recorded(ss.refund))'
    BY <1>1, <1>7 DEF TaskOK, Recorded, Accepts
  <2>4. QED
    BY <2>1, <2>2, <2>3 DEF SessionOK
<1>9. ASSUME NEW t \in Sessions
      PROVE  SessionOK(sess[t])'
  <2>1. CASE t = s
    BY <1>2, <1>8, <2>1 DEF SessionOK, RequestOK, AnswerOK, TaskOK, Works, Holding, Recorded, Known
  <2>2. CASE t # s
    <3>1. sess'[t] = sess[t] /\ SessionOK(sess[t]) /\ sess[t] \in Session
      BY <1>0, <1>2, <2>2 DEF KeyInv, TypeOK
    <3>2. sess[t].operation # NoOperation => Known(sess[t].operation) /\ sess[t].operation \in Operations
      BY <3>1 DEF SessionOK, AnswerOK, Session
    <3>3. AnswerOK(sess[t])'
      BY <1>3, <1>4, <1>5, <3>1, <3>2 DEF SessionOK, AnswerOK, Holding, Known
    <3>4. RequestOK(sess[t])' /\ TaskOK(sess[t])' /\ (Holding(sess[t]) => ~Recorded(sess[t].refund))'
      BY <1>7, <3>1 DEF SessionOK, RequestOK, TaskOK, Works, Holding, Recorded
    <3>5. QED
      BY <3>3, <3>4 DEF SessionOK
  <2>3. QED
    BY <2>1, <2>2
<1>10. \A t \in Sessions : (Holds(t)' <=> Holds(t)) /\ sess'[t].refund = sess[t].refund
  BY <1>1, <1>2 DEF Holds, Accepts
<1>11. Exclusive'
  BY <1>0, <1>10 DEF KeyInv, Exclusive
<1>12. \A q \in RefundKeys : RefundOK(q)'
  BY <1>0, <1>7 DEF KeyInv, RefundOK, Recorded
<1>13. ASSUME NEW p \in Operations
       PROVE  OperationOK(p)'
  <2>1. CASE p = o
    BY <1>1, <1>3, <1>7, <2>1 DEF OperationOK
  <2>2. CASE p # o
    <3>1. OperationOK(p) /\ operation'[p] = operation[p]
      BY <1>0, <1>3, <2>2 DEF KeyInv
    <3>2. p \in orphan' <=> p \in orphan
      BY <2>2 DEF Accepts
    <3>3. QED
      BY <1>7, <3>1, <3>2 DEF OperationOK
  <2>3. QED
    BY <2>1, <2>2
<1>14. RefundsAreRecorded'
  <2> SUFFICES ASSUME NEW p \in Operations, Known(p)'
               PROVE  \/ refund'[operation'[p].refund].gw = p
                      \/ \E t \in Sessions : /\ Holds(t)'
                                            /\ sess'[t].refund = operation'[p].refund
                                            /\ sess'[t].operation = p
    BY DEF RefundsAreRecorded
  <2>1. CASE p = o
    BY <1>1, <1>2, <1>3, <1>6, <1>10, <2>1
  <2>2. CASE p # o
    <3>1. Known(p) /\ operation'[p] = operation[p]
      BY <1>3, <1>5, <2>2
    <3>2. CASE refund[operation[p].refund].gw = p
      BY <1>7, <3>1, <3>2
    <3>3. CASE \E t \in Sessions : /\ Holds(t)
                                   /\ sess[t].refund = operation[p].refund
                                   /\ sess[t].operation = p
      <4>1. PICK t \in Sessions : /\ Holds(t)
                                  /\ sess[t].refund = operation[p].refund
                                  /\ sess[t].operation = p
        BY <3>3
      <4>2. t # s
        BY <1>1, <4>1
      <4>3. QED
        BY <1>2, <1>10, <3>1, <4>1, <4>2
    <3>4. QED
      BY <1>0, <3>1, <3>2, <3>3 DEF KeyInv, RefundsAreRecorded
  <2>3. QED
    BY <2>1, <2>2
<1>15. \A k \in Keys : Accounted(k)'
  BY AcceptsKeepsAccounts
<1>16. QED
  BY <1>0, <1>9, <1>11, <1>12, <1>13, <1>14, <1>15 DEF IInv, KeyInv

----------------------------------------------------------------------------
(* The commit of a refund                                                  *)

\* Session s commits refund row new, with the id it knows, and goes on as ss.
Commits(s, ss, new) ==
    LET q == sess[s].refund
        k == sess[s].new.key
        copy == sess[s].copy
        refunded == copy.refunded + sess[s].new.amount
    IN  /\ At(s, "replied", {"execute"})
        /\ new.key = k /\ new.amount = sess[s].new.amount
        /\ new.gw = sess[s].operation
        /\ new.status # "absent"
        /\ new.status = "succeeded" => sess[s].new.status = "succeeded"
        /\ refund' = [refund EXCEPT ![q] = new]
        /\ row' = IF new.status = "succeeded"
                    THEN [row EXCEPT
                            ![k].refunded = refunded,
                            ![k].status = Written(@, copy.status,
                                                  StatusAfterRefund(refunded, Total))]
                    ELSE row
        /\ ss.pc \in {"idle", "returned"} /\ ss.operation = NoOperation
        /\ sess' = [sess EXCEPT ![s] = ss]
        /\ UNCHANGED <<intent, operation, orphan>>

\* A session that was answered, as far as it knows.
LEMMA Replied ==
    ASSUME IInv, NEW s \in Sessions, At(s, "replied", {"execute"})
    PROVE  /\ sess[s] \in Session /\ sess[s].new \in Refund
           /\ sess[s].copy.status \in Refundable
           /\ sess[s].copy.refunded + sess[s].new.amount \in 0..Total
           /\ Works(sess[s]) /\ Holding(sess[s]) /\ Holds(s)
           /\ sess[s].refund \in RefundKeys /\ ~Recorded(sess[s].refund)
           /\ refund[sess[s].refund].gw = NoOperation
           /\ sess[s].new.key \in Keys /\ sess[s].new.gw = NoOperation
           /\ sess[s].new.status \in {"pending", "processing", "succeeded"}
           /\ sess[s].new.status = "succeeded" => sess[s].ok
           /\ sess[s].operation # NoOperation => sess[s].ok
<1>1. sess[s] \in Session /\ SessionOK(sess[s])
  BY DEF IInv, TypeOK, KeyInv
<1>2. sess[s].pc = "replied" /\ sess[s].op = "execute"
  BY DEF At
<1>3. Works(sess[s]) /\ Holding(sess[s]) /\ Holds(s)
  BY <1>2 DEF Works, Holding, Holds
<1>4. /\ sess[s].refund \in RefundKeys /\ ~Recorded(sess[s].refund)
      /\ sess[s].new.key \in Keys /\ sess[s].new.gw = NoOperation
      /\ sess[s].new.status \in {"pending", "processing", "succeeded"}
      /\ sess[s].new.status = "succeeded" => sess[s].ok
      /\ sess[s].operation # NoOperation => sess[s].ok
      /\ sess[s].copy.status \in Refundable
      /\ sess[s].copy.refunded + sess[s].new.amount <= sess[s].copy.captured
  BY <1>1, <1>2, <1>3 DEF SessionOK, RequestOK, AnswerOK
<1>5. refund[sess[s].refund].gw = NoOperation
  BY <1>4 DEF IInv, KeyInv, RefundOK
<1>6. sess[s].new \in Refund /\ sess[s].copy \in Row
  BY <1>1 DEF Session
<1>7. sess[s].copy.refunded + sess[s].new.amount \in 0..Total
  BY <1>4, <1>6 DEF Refund, Row
<1>8. QED
  BY <1>1, <1>3, <1>4, <1>5, <1>6, <1>7

LEMMA FinishRefundCommits ==
    ASSUME IInv, NEW s \in Sessions, FinishRefund(s)
    PROVE  \E ss \in Session, new \in Refund : Commits(s, ss, new)
<1> DEFINE new == IF sess[s].ok
                    THEN [sess[s].new EXCEPT !.gw = sess[s].operation]
                    ELSE [sess[s].new EXCEPT !.status = "failed"]
           ss == IF sess[s].ok
                   THEN [Idle EXCEPT !.pc = "returned", !.op = "execute", !.new.status = new.status]
                   ELSE Idle
<1>1. /\ sess[s] \in Session /\ sess[s].new \in Refund
      /\ sess[s].new.gw = NoOperation
      /\ sess[s].new.status \in {"pending", "processing", "succeeded"}
      /\ sess[s].new.status = "succeeded" => sess[s].ok
      /\ sess[s].operation # NoOperation => sess[s].ok
  BY Replied DEF FinishRefund
<1>2. sess[s].ok \in BOOLEAN /\ sess[s].operation \in Operations \cup {NoOperation}
  BY <1>1 DEF Session
<1>3. /\ new \in Refund /\ new.key = sess[s].new.key /\ new.amount = sess[s].new.amount
      /\ new.gw = sess[s].operation /\ new.status \in RefundStatus /\ new.status # "absent"
      /\ new.status = "succeeded" => sess[s].new.status = "succeeded"
  <2>1. CASE sess[s].ok
    BY <1>1, <1>2, <2>1 DEF Refund, RefundStatus
  <2>2. CASE ~sess[s].ok
    BY <1>1, <1>2, <2>2 DEF Refund, RefundStatus
  <2>3. QED
    BY <2>1, <2>2
<1>4. /\ sess' = [sess EXCEPT ![s] = ss]
      /\ refund' = [refund EXCEPT ![sess[s].refund] = new]
  BY DEF FinishRefund, Return, End
<1>5. row' = IF new.status = "succeeded"
               THEN [row EXCEPT
                       ![sess[s].new.key].refunded = sess[s].copy.refunded + sess[s].new.amount,
                       ![sess[s].new.key].status =
                           Written(@, sess[s].copy.status,
                                   StatusAfterRefund(sess[s].copy.refunded + sess[s].new.amount, Total))]
               ELSE row
  BY DEF FinishRefund
<1> HIDE DEF new
<1>6. ss \in Session /\ ss.pc \in {"idle", "returned"} /\ ss.operation = NoOperation
  <2>1. CASE sess[s].ok
    <3>1. [Idle EXCEPT !.pc = "returned", !.op = "execute", !.new.status = new.status] \in Session
      BY <1>3, ReturnedOK DEF Requests
    <3>2. QED
      BY <2>1, <3>1 DEF Idle
  <2>2. CASE ~sess[s].ok
    BY <2>2, IdleType DEF Idle
  <2>3. QED
    BY <2>1, <2>2
<1> HIDE DEF ss
<1>7. At(s, "replied", {"execute"}) /\ UNCHANGED <<intent, operation, orphan>>
  BY DEF FinishRefund
<1>8. Commits(s, ss, new)
  BY <1>3, <1>4, <1>5, <1>6, <1>7 DEF Commits
<1>9. QED
  BY <1>3, <1>6, <1>8

\* Of the payments a commit changes a total and a status only.
LEMMA CommitKeepsRows ==
    ASSUME IInv, NEW s \in Sessions, NEW ss \in Session, NEW new \in Refund, Commits(s, ss, new)
    PROVE  row' \in [Keys -> Row] /\ \A k \in Keys : row'[k].gw = row[k].gw
<1> DEFINE k == sess[s].new.key
           refunded == sess[s].copy.refunded + sess[s].new.amount
           status == Written(row[k].status, sess[s].copy.status, StatusAfterRefund(refunded, Total))
<1>1. k \in Keys /\ refunded \in 0..Total
  BY Replied DEF Commits
<1>2. row \in [Keys -> Row] /\ row[k] \in Row
  BY <1>1 DEF IInv, TypeOK, StoreTypeOK
<1>3. status \in TransactionStatus \cup {"absent"}
  BY <1>2, StatusTypes DEF Written, Row
<1>4. CASE new.status = "succeeded"
  <2> DEFINE r == [row[k] EXCEPT !.refunded = refunded, !.status = status]
  <2>1. row' = [row EXCEPT ![k] = r]
    BY <1>4 DEF Commits
  <2> HIDE DEF k, refunded, status
  <2>2. r \in Row /\ r.gw = row[k].gw
    BY <1>1, <1>2, <1>3 DEF Row
  <2> HIDE DEF r
  <2>3. QED
    BY <1>1, <1>2, <2>1, <2>2
<1>5. CASE new.status # "succeeded"
  BY <1>2, <1>5 DEF Commits
<1>6. QED
  BY <1>4, <1>5

LEMMA CommitKeepsIInv ==
    ASSUME IInv, NEW s \in Sessions, NEW ss \in Session, NEW new \in Refund, Commits(s, ss, new)
    PROVE  IInv'
<1> DEFINE q == sess[s].refund
<1>0. TypeOK /\ KeyInv
  BY DEF IInv
<1>1. /\ Holds(s) /\ q \in RefundKeys /\ ~Recorded(q) /\ refund[q].gw = NoOperation
  BY Replied DEF Commits
<1>2. row' \in [Keys -> Row] /\ \A k \in Keys : row'[k].gw = row[k].gw
  BY CommitKeepsRows
<1>3. UNCHANGED <<intent, operation, orphan>>
  BY DEF Commits
<1>4. \A t \in Sessions : sess'[t] = IF t = s THEN ss ELSE sess[t]
  BY <1>0 DEF Commits, TypeOK
<1>5. \A p \in RefundKeys : refund'[p] = IF p = q THEN new ELSE refund[p]
  BY <1>0 DEF Commits, TypeOK
<1>6. TypeOK'
  <2>1. sess' \in [Sessions -> Session] /\ refund' \in [RefundKeys -> Refund]
    BY <1>0 DEF Commits, TypeOK
  <2>2. QED
    BY <1>0, <1>2, <1>3, <2>1 DEF TypeOK, StoreTypeOK
<1>7. \A p \in RefundKeys : Recorded(p)' <=> Recorded(p) \/ p = q
  BY <1>5 DEF Recorded, Commits
<1>8. ASSUME NEW t \in Sessions
      PROVE  SessionOK(sess[t])'
  <2>1. CASE t = s
    <3>1. sess'[t] = ss /\ ss.pc \in {"idle", "returned"} /\ ss.operation = NoOperation
      BY <1>4, <2>1 DEF Commits
    <3>2. QED
      BY <3>1 DEF SessionOK, RequestOK, AnswerOK, TaskOK, Works, Holding
  <2>2. CASE t # s
    <3>1. sess'[t] = sess[t] /\ SessionOK(sess[t])
      BY <1>0, <1>4, <2>2 DEF KeyInv
    <3>2. RequestOK(sess[t])'
      BY <1>2, <3>1 DEF SessionOK, RequestOK, Works
    <3>3. AnswerOK(sess[t])'
      BY <1>3, <3>1 DEF SessionOK, AnswerOK, Known, Holding
    <3>4. TaskOK(sess[t])'
      BY <1>1, <1>5, <1>7, <3>1 DEF SessionOK, TaskOK
    <3>5. Holding(sess[t]) => sess[t].refund # q /\ sess[t].refund \in RefundKeys
      BY <1>0, <1>1, <2>2, <3>1 DEF KeyInv, Exclusive, Holds, Holding, SessionOK, RequestOK, Works
    <3>6. (Holding(sess[t]) => ~Recorded(sess[t].refund))'
      BY <1>7, <3>1, <3>5 DEF SessionOK, Holding
    <3>7. QED
      BY <3>2, <3>3, <3>4, <3>6 DEF SessionOK
  <2>3. QED
    BY <2>1, <2>2
<1>9. \A t \in Sessions : Holds(t)' <=> Holds(t) /\ t # s
  BY <1>4 DEF Holds, Commits
<1>10. Exclusive'
  BY <1>0, <1>4, <1>9 DEF KeyInv, Exclusive
<1>11. \A p \in RefundKeys : RefundOK(p)'
  BY <1>0, <1>5, <1>7 DEF KeyInv, RefundOK
<1>12. \A o \in Operations : OperationOK(o)'
  BY <1>0, <1>2, <1>3 DEF KeyInv, OperationOK
<1>13. RefundsAreRecorded'
  <2> SUFFICES ASSUME NEW o \in Operations, Known(o)
               PROVE  \/ refund'[operation[o].refund].gw = o
                      \/ \E t \in Sessions : /\ Holds(t)'
                                            /\ sess'[t].refund = operation[o].refund
                                            /\ sess'[t].operation = o
    BY <1>3 DEF RefundsAreRecorded, Known
  <2>1. operation[o].refund \in RefundKeys
    BY <1>0 DEF KeyInv, OperationOK, Known
  <2>2. CASE refund[operation[o].refund].gw = o
    BY <1>1, <1>5, <2>1, <2>2
  <2>3. ASSUME NEW t \in Sessions,
               Holds(t), sess[t].refund = operation[o].refund, sess[t].operation = o
        PROVE  \/ refund'[operation[o].refund].gw = o
               \/ /\ Holds(t)'
                  /\ sess'[t].refund = operation[o].refund
                  /\ sess'[t].operation = o
    <3>1. CASE t = s
      BY <1>5, <2>1, <2>3, <3>1 DEF Commits
    <3>2. CASE t # s
      BY <1>4, <1>9, <2>3, <3>2
    <3>3. QED
      BY <3>1, <3>2
  <2>4. QED
    BY <1>0, <2>2, <2>3 DEF KeyInv, RefundsAreRecorded
<1>14. \A k \in Keys : Accounted(k)'
  BY <1>2, <1>3 DEF IInv, Accounted, AmountOf, AcceptedOf
<1>15. QED
  BY <1>6, <1>8, <1>10, <1>11, <1>12, <1>13, <1>14 DEF IInv, KeyInv

----------------------------------------------------------------------------
(* The tasks and the provider by itself                                    *)

\* A task changes the status of a committed refund, never to or from succeeded.
Marks(s) ==
    LET q == sess[s].refund
    IN  /\ At(s, "read", Tasks) /\ End(s)
        /\ q \in RefundKeys
        /\ \E status \in RefundStatus :
              /\ status = "succeeded" <=> refund[q].status = "succeeded"
              /\ refund' = [refund EXCEPT ![q].status = status]
        /\ UNCHANGED <<row, intent, operation, orphan>>

LEMMA FinishTaskMarks ==
    ASSUME IInv, NEW s \in Sessions, FinishTask(s)
    PROVE  Marks(s) /\ Recorded(sess[s].refund) /\ ~Holds(s) /\ sess[s].operation = NoOperation
<1> DEFINE q == sess[s].refund
           status == Written(refund[q].status, sess[s].new.status, TaskStatus(sess[s].op))
<1>1. sess[s].pc = "read" /\ sess[s].op \in Tasks
  BY DEF FinishTask, At
<1>2. q \in RefundKeys /\ Recorded(q) /\ refund[q].status # "succeeded"
  BY <1>1 DEF IInv, KeyInv, SessionOK, TaskOK
<1>3. ~Holds(s) /\ sess[s].operation = NoOperation
  BY <1>1 DEF Holds, IInv, KeyInv, SessionOK, AnswerOK, Holding
<1>4. refund[q].status \in RefundStatus
  BY <1>2 DEF IInv, TypeOK, Refund, Recorded
<1>5. status \in RefundStatus /\ status # "succeeded"
  BY <1>2, <1>4, StatusTypes DEF Written
<1>6. refund' = [refund EXCEPT ![q].status = status]
  BY DEF FinishTask
<1> HIDE DEF status, q
<1>7. \E st \in RefundStatus :
         /\ st = "succeeded" <=> refund[q].status = "succeeded"
         /\ refund' = [refund EXCEPT ![q].status = st]
  BY <1>2, <1>5, <1>6
<1>8. QED
  BY <1>2, <1>3, <1>7 DEF FinishTask, Marks, q

\* What a task leaves of the refunds.
LEMMA MarkedRefunds ==
    ASSUME IInv, NEW s \in Sessions, Marks(s), Recorded(sess[s].refund)
    PROVE  /\ refund' \in [RefundKeys -> Refund]
           /\ \A q \in RefundKeys :
                 /\ Recorded(q)' <=> Recorded(q)
                 /\ refund'[q].status = "succeeded" <=> refund[q].status = "succeeded"
                 /\ refund'[q].gw = refund[q].gw
                 /\ refund'[q].key = refund[q].key
                 /\ refund'[q].amount = refund[q].amount
<1> DEFINE p == sess[s].refund
<1>1. refund \in [RefundKeys -> Refund] /\ p \in RefundKeys
  BY DEF IInv, TypeOK, Marks
<1>2. PICK status \in RefundStatus :
         /\ status = "succeeded" <=> refund[p].status = "succeeded"
         /\ refund' = [refund EXCEPT ![p].status = status]
  BY DEF Marks
<1> DEFINE r == [refund[p] EXCEPT !.status = status]
<1>3. refund' = [refund EXCEPT ![p] = r]
  BY <1>2
<1>4. /\ r \in Refund /\ r.status = status /\ r.gw = refund[p].gw /\ r.key = refund[p].key
      /\ r.amount = refund[p].amount
  BY <1>1 DEF Refund
<1> HIDE DEF r
<1>5. refund' \in [RefundKeys -> Refund] /\ \A q \in RefundKeys : refund'[q] = IF q = p THEN r ELSE refund[q]
  BY <1>1, <1>3, <1>4
<1>6. status # "absent" /\ refund[p].status # "absent"
  BY DEF RefundStatus, Recorded
<1>7. QED
  BY <1>2, <1>4, <1>5, <1>6 DEF Recorded

LEMMA MarkKeepsIInv ==
    ASSUME IInv, NEW s \in Sessions, Marks(s), Recorded(sess[s].refund), ~Holds(s),
           sess[s].operation = NoOperation
    PROVE  IInv'
<1>0. TypeOK /\ KeyInv
  BY DEF IInv
<1>1. refund' \in [RefundKeys -> Refund]
  BY MarkedRefunds
<1>2. \A q \in RefundKeys : /\ Recorded(q)' <=> Recorded(q)
                            /\ refund'[q].status = "succeeded" <=> refund[q].status = "succeeded"
                            /\ refund'[q].gw = refund[q].gw
  BY MarkedRefunds
<1>3. UNCHANGED <<row, intent, operation, orphan>>
  BY DEF Marks
<1>4. \A t \in Sessions : sess'[t] = IF t = s THEN Idle ELSE sess[t]
  BY <1>0 DEF Marks, End, TypeOK
<1>5. TypeOK'
  <2>1. sess' \in [Sessions -> Session]
    BY <1>0, IdleType DEF Marks, End, TypeOK
  <2>2. QED
    BY <1>0, <1>1, <1>3, <2>1 DEF TypeOK, StoreTypeOK
<1>6. ASSUME NEW t \in Sessions
      PROVE  SessionOK(sess[t])'
  <2>1. CASE t = s
    <3>1. sess'[t] = Idle
      BY <1>4, <2>1
    <3>2. QED
      BY <3>1 DEF Idle, SessionOK, RequestOK, AnswerOK, TaskOK, Works, Holding
  <2>2. CASE t # s
    <3>1. sess'[t] = sess[t] /\ SessionOK(sess[t])
      BY <1>0, <1>4, <2>2 DEF KeyInv
    <3>2. RequestOK(sess[t])' /\ AnswerOK(sess[t])'
      BY <1>3, <3>1 DEF SessionOK, RequestOK, AnswerOK, Works, Holding, Known
    <3>3. TaskOK(sess[t])'
      BY <1>2, <3>1 DEF SessionOK, TaskOK
    <3>4. (Holding(sess[t]) => ~Recorded(sess[t].refund))'
      BY <1>2, <3>1 DEF SessionOK, RequestOK, Works, Holding
    <3>5. QED
      BY <3>2, <3>3, <3>4 DEF SessionOK
  <2>3. QED
    BY <2>1, <2>2
<1>7. \A t \in Sessions : Holds(t)' <=> Holds(t)
  BY <1>4 DEF Holds, Idle
<1>8. \A t \in Sessions : Holds(t) => sess'[t] = sess[t]
  BY <1>4
<1>9. Exclusive'
  BY <1>0, <1>7, <1>8 DEF KeyInv, Exclusive
<1>10. \A q \in RefundKeys : RefundOK(q)'
  BY <1>0, <1>2 DEF KeyInv, RefundOK
<1>11. \A o \in Operations : OperationOK(o)'
  BY <1>0, <1>3 DEF KeyInv, OperationOK
<1>12. RefundsAreRecorded'
  <2> SUFFICES ASSUME NEW o \in Operations, Known(o)
               PROVE  \/ refund'[operation[o].refund].gw = o
                      \/ \E t \in Sessions : /\ Holds(t)'
                                            /\ sess'[t].refund = operation[o].refund
                                            /\ sess'[t].operation = o
    BY <1>3 DEF RefundsAreRecorded, Known
  <2>1. operation[o].refund \in RefundKeys
    BY <1>0 DEF KeyInv, OperationOK, Known
  <2>2. QED
    BY <1>0, <1>2, <1>7, <1>8, <2>1 DEF KeyInv, RefundsAreRecorded
<1>13. \A k \in Keys : Accounted(k)'
  BY <1>3 DEF IInv, Accounted, AmountOf, AcceptedOf
<1>14. QED
  BY <1>5, <1>6, <1>9, <1>10, <1>11, <1>12, <1>13 DEF IInv, KeyInv

\* A provider refund that settles keeps what it is of.
LEMMA Settled ==
    ASSUME TypeOK, NEW o \in Operations, OperationSettles(o)
    PROVE  /\ operation' \in [Operations -> Operation]
           /\ \A p \in Operations : /\ operation'[p].refund = operation[p].refund
                                    /\ operation'[p].intent = operation[p].intent
                                    /\ operation'[p].amount = operation[p].amount
                                    /\ operation'[p].state = "unused" <=> operation[p].state = "unused"
                                    /\ p # o => operation'[p].state = operation[p].state
           /\ operation'[o].state \in {"succeeded", "failed"}
           /\ Amounts' = Amounts
<1>1. operation \in [Operations -> Operation]
  BY DEF TypeOK
<1>2. PICK st \in {"succeeded", "failed"} : operation' = [operation EXCEPT ![o].state = st]
  BY DEF OperationSettles
<1> DEFINE r == [operation[o] EXCEPT !.state = st]
<1>3. operation' = [operation EXCEPT ![o] = r]
  BY <1>2
<1>4. /\ r \in Operation /\ r.state = st /\ r.refund = operation[o].refund
      /\ r.intent = operation[o].intent /\ r.amount = operation[o].amount
  BY <1>1 DEF Operation
<1> HIDE DEF r
<1>5. \A p \in Operations : operation'[p] = IF p = o THEN r ELSE operation[p]
  BY <1>1, <1>3
<1>6. operation' \in [Operations -> Operation]
  BY <1>1, <1>3, <1>4
<1>7. \A p \in Operations : operation'[p].amount = operation[p].amount
  BY <1>4, <1>5
<1>8. Amounts' = Amounts
  BY <1>7 DEF Amounts
<1>9. operation[o].state = "pending"
  BY DEF OperationSettles
<1>10. QED
  BY <1>4, <1>5, <1>6, <1>7, <1>8, <1>9

\* What a refused refund takes back had been added before.
LEMMA SettleKeepsAccounts ==
    ASSUME IInv, NEW o \in Operations, OperationSettles(o)
    PROVE  (intent' \in [Intents -> Intent]) /\ \A k \in Keys : Accounted(k)'
<1> DEFINE i == operation[o].intent
           amount == operation[o].amount
<1>1. TypeOK /\ intent \in [Intents -> Intent]
  BY DEF IInv, TypeOK, StoreTypeOK
<1>2. /\ \A p \in Operations : /\ operation'[p].intent = operation[p].intent
                               /\ p # o => operation'[p].state = operation[p].state
      /\ operation'[o].state \in {"succeeded", "failed"}
      /\ Amounts' = Amounts
  BY <1>1, Settled
<1>3. operation[o].state = "pending" /\ UNCHANGED <<row, refund, sess, orphan>>
  BY DEF OperationSettles
<1>4. PICK h \in Keys : i = row[h].gw
  BY <1>3 DEF IInv, KeyInv, OperationOK
<1>5. i \in Intents /\ intent[i].refunded = AmountOf(AcceptedOf(i))
  BY <1>4 DEF IInv, Accounted
<1>6. intent[i] \in Intent /\ intent[i].refunded \in 0..Total
  BY <1>1, <1>5 DEF Intent
<1>8. \A j : AmountOf(AcceptedOf(j)) = SumFunctionOnSet(Amounts, AcceptedOf(j))
  BY DEF AmountOf, Amounts
<1>9. CASE operation' = [operation EXCEPT ![o].state = "succeeded"] /\ UNCHANGED intent
  <2>1. operation'[o].state = "succeeded"
    BY <1>1, <1>9 DEF TypeOK, Operation
  <2>2. \A j : AcceptedOf(j)' = AcceptedOf(j)
    BY <1>2, <1>3, <2>1 DEF AcceptedOf
  <2>3. \A k \in Keys : Accounted(k)'
    <3> SUFFICES ASSUME NEW k \in Keys PROVE Accounted(k)'
      OBVIOUS
    <3>1. Accounted(k)
      BY DEF IInv
    <3>2. AmountOf(AcceptedOf(row[k].gw))' = SumFunctionOnSet(Amounts', AcceptedOf(row[k].gw)')
      BY DEF AmountOf, Amounts
    <3>3. AcceptedOf(row[k].gw)' = AcceptedOf(row[k].gw)
      BY <1>2, <1>3, <2>1 DEF AcceptedOf
    <3>4. QED
      BY <1>2, <1>3, <1>8, <1>9, <3>1, <3>2, <3>3 DEF Accounted
  <2>4. QED
    BY <1>1, <1>9, <2>3
<1>10. CASE /\ operation' = [operation EXCEPT ![o].state = "failed"]
            /\ intent' = [intent EXCEPT ![i].refunded = @ - amount]
  <2> DEFINE S == AcceptedOf(i)
             r == [intent[i] EXCEPT !.refunded = @ - amount]
  <2>1. operation'[o].state = "failed"
    BY <1>1, <1>10 DEF TypeOK, Operation
  <2>2. S \in SUBSET Operations /\ o \in S
    BY <1>3 DEF AcceptedOf
  <2>3. /\ SumFunctionOnSet(Amounts, S) = amount + SumFunctionOnSet(Amounts, S \ {o})
        /\ SumFunctionOnSet(Amounts, S \ {o}) \in Nat /\ amount \in Nat
    <3> HIDE DEF S
    <3>1. \A p \in Operations : Amounts[p] \in Nat /\ Amounts[p] = operation[p].amount
      BY <1>1, AmountsType
    <3>2. IsFiniteSet(S) /\ IsFiniteSet(S \ {o})
      BY <2>2, FS_Subset, FS_RemoveElement
    <3>3. \A p \in S : Amounts[p] \in Nat
      BY <2>2, <3>1
    <3>4. \A p \in S \ {o} : Amounts[p] \in Nat
      BY <3>3
    <3>5. SumFunctionOnSet(Amounts, S \ {o}) \in Nat
      BY <3>2, <3>4, SumType
    <3>6. SumFunctionOnSet(Amounts, S) = Amounts[o] + SumFunctionOnSet(Amounts, S \ {o})
      BY <2>2, <3>2, <3>3, SumSplit
    <3>7. QED
      BY <3>1, <3>5, <3>6
  <2>4. intent[i].refunded - amount = SumFunctionOnSet(Amounts, S \ {o})
    BY <1>5, <1>6, <1>8, <2>3
  <2>5. intent[i].refunded - amount \in 0..Total
    BY <1>6, <2>3, <2>4
  <2>6. r \in Intent /\ r.refunded = intent[i].refunded - amount
    BY <1>6, <2>5 DEF Intent
  <2>7. intent' = [intent EXCEPT ![i] = r]
    BY <1>10
  <2> HIDE DEF r
  <2>8. intent' \in [Intents -> Intent]
    BY <1>1, <2>6, <2>7
  <2>9. ASSUME NEW k \in Keys
        PROVE  Accounted(k)'
    <3>1. Accounted(k)
      BY DEF IInv
    <3>2. AmountOf(AcceptedOf(row[k].gw))' = SumFunctionOnSet(Amounts, AcceptedOf(row[k].gw)')
      BY <1>2 DEF AmountOf, Amounts
    <3>3. CASE row[k].gw = i
      <4>1. AcceptedOf(row[k].gw)' = S \ {o}
        BY <1>2, <1>3, <2>1, <3>3 DEF AcceptedOf
      <4>2. intent'[i].refunded = intent[i].refunded - amount
        BY <1>1, <1>5, <2>6, <2>7
      <4> HIDE DEF S, i
      <4>3. QED
        BY <1>3, <1>5, <2>4, <3>2, <3>3, <4>1, <4>2 DEF Accounted
    <3>4. CASE row[k].gw # i
      <4>1. AcceptedOf(row[k].gw)' = AcceptedOf(row[k].gw)
        BY <1>2, <1>3, <2>1, <3>4 DEF AcceptedOf
      <4>2. intent'[row[k].gw] = intent[row[k].gw]
        BY <1>1, <2>7, <3>1, <3>4 DEF Accounted
      <4>3. QED
        BY <1>3, <1>8, <3>1, <3>2, <4>1, <4>2 DEF Accounted
    <3>5. QED
      BY <3>3, <3>4
  <2>10. QED
    BY <2>8, <2>9
<1>11. QED
  BY <1>9, <1>10 DEF OperationSettles

LEMMA SettleKeepsIInv ==
    ASSUME IInv, NEW o \in Operations, OperationSettles(o)
    PROVE  IInv'
<1>0. TypeOK /\ KeyInv
  BY DEF IInv
<1>1. /\ operation' \in [Operations -> Operation]
      /\ \A p \in Operations : /\ operation'[p].refund = operation[p].refund
                               /\ operation'[p].intent = operation[p].intent
                               /\ operation'[p].state = "unused" <=> operation[p].state = "unused"
  BY <1>0, Settled
<1>2. UNCHANGED <<row, refund, sess, orphan>>
  BY DEF OperationSettles
<1>3. intent' \in [Intents -> Intent] /\ \A k \in Keys : Accounted(k)'
  BY SettleKeepsAccounts
<1>4. TypeOK'
  BY <1>0, <1>1, <1>2, <1>3 DEF TypeOK, StoreTypeOK
<1>5. \A p \in Operations : Known(p)' <=> Known(p)
  BY <1>1, <1>2 DEF Known
<1>6. ASSUME NEW s \in Sessions
      PROVE  SessionOK(sess[s])'
  <2>1. SessionOK(sess[s]) /\ sess[s] \in Session
    BY <1>0 DEF KeyInv, TypeOK
  <2>2. RequestOK(sess[s])' /\ TaskOK(sess[s])' /\ (Holding(sess[s]) => ~Recorded(sess[s].refund))'
    BY <1>2, <2>1 DEF SessionOK, RequestOK, TaskOK, Works, Holding, Recorded
  <2>3. AnswerOK(sess[s])'
    BY <1>1, <1>2, <1>5, <2>1 DEF SessionOK, AnswerOK, Holding, Session
  <2>4. QED
    BY <2>2, <2>3 DEF SessionOK
<1>7. Exclusive' /\ \A q \in RefundKeys : RefundOK(q)'
  BY <1>0, <1>2 DEF KeyInv, Exclusive, Holds, RefundOK, Recorded
<1>8. \A p \in Operations : OperationOK(p)'
  BY <1>0, <1>1, <1>2 DEF KeyInv, OperationOK
<1>9. RefundsAreRecorded'
  BY <1>0, <1>1, <1>2, <1>5 DEF KeyInv, RefundsAreRecorded, Holds
<1>10. QED
  BY <1>3, <1>4, <1>6, <1>7, <1>8, <1>9 DEF IInv, KeyInv

----------------------------------------------------------------------------
(* The invariant of every step                                             *)

LEMMA QuietKeepsIInv ==
    ASSUME IInv, NEW s \in Sessions, Quiet(s)
    PROVE  IInv'
<1>1. PICK ss \in Session :
         /\ Moves(s, ss)
         /\ SessionOK(ss) /\ ss.operation = NoOperation
         /\ Holding(ss) => \A t \in Sessions \ {s} : ~(Holds(t) /\ sess[t].refund = ss.refund)
  BY DEF Quiet
<1>2. QED
  BY <1>1, MoveKeepsIInv

\* What a step may be, as far as the invariants are concerned.
LEMMA StepCases ==
    ASSUME IInv, LedgerInv, Next
    PROVE  \/ \E s \in Sessions : Quiet(s)
           \/ \E s \in Sessions, ss \in Session, o \in Operations, st \in {"pending", "succeeded"} :
                 Accepts(s, ss, o, st)
           \/ \E s \in Sessions, ss \in Session, new \in Refund : Commits(s, ss, new)
           \/ \E s \in Sessions : /\ Marks(s) /\ Recorded(sess[s].refund) /\ ~Holds(s)
                                 /\ sess[s].operation = NoOperation
           \/ \E o \in Operations : OperationSettles(o)
<1>1. ASSUME NEW s \in Sessions, Crash(s) PROVE Quiet(s)
  BY <1>1, CrashIsQuiet
<1>2. ASSUME NEW s \in Sessions, NEW q \in RefundKeys, Begin(s, q) PROVE Quiet(s)
  <2>1. CASE \E k \in Keys, amount \in 1..Total : BeginRefund(s, q, k, amount)
    BY <2>1, BeginRefundIsQuiet
  <2>2. CASE \E op \in Requests : BeginKnown(s, op, q)
    BY <2>2, BeginKnownIsQuiet
  <2>3. CASE \E op \in Tasks : BeginTask(s, op, q)
    BY <2>3, BeginTaskIsQuiet
  <2>4. QED
    BY <1>2, <2>1, <2>2, <2>3
    DEF Begin, CreateRefund, RetryRefund, GetRefund, GetRefundStatus, GetStatus, Requests
<1>3. ASSUME NEW s \in Sessions, Insert(s) \/ Close(s) PROVE Quiet(s)
  BY <1>3, InsertIsQuiet, CloseIsQuiet
<1>4. ASSUME NEW s \in Sessions, FinishRefund(s)
      PROVE  \E ss \in Session, new \in Refund : Commits(s, ss, new)
  BY <1>4, FinishRefundCommits
<1>5. ASSUME NEW s \in Sessions, FinishTask(s)
      PROVE  Marks(s) /\ Recorded(sess[s].refund) /\ ~Holds(s) /\ sess[s].operation = NoOperation
  BY <1>5, FinishTaskMarks
<1>6. ASSUME NEW s \in Sessions, GatewayRefunds(s)
      PROVE  \/ Quiet(s)
             \/ \E ss \in Session, o \in Operations, st \in {"pending", "succeeded"} :
                   Accepts(s, ss, o, st)
  BY <1>6, GatewayRefundsCases
<1>7. CASE \E o \in Operations : OperationSettles(o)
  BY <1>7
<1>8. CASE \E s \in Sessions : Step(s) \/ Crash(s)
  BY <1>1, <1>3, <1>4, <1>5, <1>6, <1>8 DEF Step
<1>9. CASE \E s \in Sessions, q \in RefundKeys : Begin(s, q)
  BY <1>2, <1>9
<1>10. QED
  BY <1>7, <1>8, <1>9 DEF Next

LEMMA NextKeepsIInv ==
    ASSUME IInv, LedgerInv, Next
    PROVE  IInv'
<1>1. CASE \E s \in Sessions : Quiet(s)
  BY <1>1, QuietKeepsIInv
<1>2. CASE \E s \in Sessions, ss \in Session, o \in Operations, st \in {"pending", "succeeded"} :
              Accepts(s, ss, o, st)
  BY <1>2, AcceptsKeepsIInv
<1>3. CASE \E s \in Sessions, ss \in Session, new \in Refund : Commits(s, ss, new)
  BY <1>3, CommitKeepsIInv
<1>4. CASE \E s \in Sessions : /\ Marks(s) /\ Recorded(sess[s].refund) /\ ~Holds(s)
                              /\ sess[s].operation = NoOperation
  BY <1>4, MarkKeepsIInv
<1>5. CASE \E o \in Operations : OperationSettles(o)
  BY <1>5, SettleKeepsIInv
<1>6. QED
  BY <1>1, <1>2, <1>3, <1>4, <1>5, StepCases

----------------------------------------------------------------------------
(* What the provider has given back                                        *)

SucceededOf(i) ==
    {o \in Operations : operation[o].state = "succeeded" /\ operation[o].intent = i}

LEMMA GivenBackIsSum ==
    ASSUME TypeOK
    PROVE  \A k \in Keys : /\ GivenBack(k) = SumFunctionOnSet(Amounts, SucceededOf(row[k].gw))
                           /\ GivenBack(k) \in Nat
<1> SUFFICES ASSUME NEW k \in Keys
             PROVE  /\ GivenBack(k) = SumFunctionOnSet(Amounts, SucceededOf(row[k].gw))
                    /\ GivenBack(k) \in Nat
  OBVIOUS
<1>1. SucceededOf(row[k].gw) \in SUBSET Operations
  BY DEF SucceededOf
<1>2. GivenBack(k) = AmountOf(SucceededOf(row[k].gw))
  BY DEF GivenBack, SucceededOf
<1>3. QED
  BY <1>1, <1>2, AmountsType

\* Never more than was captured, and so never more than the payment.
LEMMA GivenBackBound ==
    ASSUME IInv, NEW k \in Keys
    PROVE  GivenBack(k) <= Total
<1> DEFINE i == row[k].gw
<1>1. TypeOK /\ i \in Intents /\ intent[i].refunded = AmountOf(AcceptedOf(i))
  BY DEF IInv, Accounted
<1>2. intent[i].refunded <= Total
  BY <1>1 DEF TypeOK, StoreTypeOK, Intent
<1>3. AcceptedOf(i) \in SUBSET Operations /\ SucceededOf(i) \in SUBSET AcceptedOf(i)
  BY DEF AcceptedOf, SucceededOf
<1>4. SumFunctionOnSet(Amounts, SucceededOf(i)) <= SumFunctionOnSet(Amounts, AcceptedOf(i))
  <2>1. IsFiniteSet(AcceptedOf(i)) /\ \A o \in AcceptedOf(i) : Amounts[o] \in Nat
    BY <1>1, <1>3, AmountsType
  <2>2. QED
    BY <1>3, <2>1, SumGrows
<1>5. AmountOf(AcceptedOf(i)) = SumFunctionOnSet(Amounts, AcceptedOf(i))
  BY DEF AmountOf, Amounts
<1>6. GivenBack(k) = SumFunctionOnSet(Amounts, SucceededOf(i)) /\ GivenBack(k) \in Nat
  BY <1>1, GivenBackIsSum
<1>7. AmountOf(AcceptedOf(i)) \in Nat
  BY <1>1, <1>3, AmountsType
<1>8. QED
  BY <1>1, <1>2, <1>4, <1>5, <1>6, <1>7

GivenBackInRange == \A k \in Keys : GivenBack(k) \in 0..Total

LEMMA GivenBackRange == IInv => GivenBackInRange
<1> SUFFICES ASSUME IInv, NEW k \in Keys PROVE GivenBack(k) \in 0..Total
  BY DEF GivenBackInRange
<1>1. GivenBack(k) \in Nat
  BY GivenBackIsSum DEF IInv
<1>2. GivenBack(k) <= Total
  BY GivenBackBound
<1>3. QED
  BY <1>1, <1>2

\* What leaves the provider's refunds and the payments' ids alone.
LEMMA GivenBackSame ==
    ASSUME TypeOK, TypeOK', UNCHANGED operation, \A k \in Keys : row'[k].gw = row[k].gw
    PROVE  \A k \in Keys : GivenBack(k)' = GivenBack(k)
BY DEF GivenBack, AmountOf

\* A refund that is accepted and done at once is given back.
LEMMA GivenBackAccepted ==
    ASSUME IInv, IInv', NEW s \in Sessions, NEW ss \in Session, NEW o \in Operations,
           NEW st \in {"pending", "succeeded"}, Accepts(s, ss, o, st)
    PROVE  \A k \in Keys : GivenBack(k)' =
               IF row[k].gw = sess[s].copy.gw /\ st = "succeeded"
                 THEN GivenBack(k) + sess[s].new.amount
                 ELSE GivenBack(k)
<1> SUFFICES ASSUME NEW k \in Keys
             PROVE  GivenBack(k)' = IF row[k].gw = sess[s].copy.gw /\ st = "succeeded"
                                      THEN GivenBack(k) + sess[s].new.amount
                                      ELSE GivenBack(k)
  OBVIOUS
<1>1. TypeOK /\ TypeOK'
  BY DEF IInv
<1>2. GivenBack(k) = SumFunctionOnSet(Amounts, SucceededOf(row[k].gw))
  BY <1>1, GivenBackIsSum
<1>3. GivenBack(k)' = SumFunctionOnSet(Amounts', SucceededOf(row[k].gw)')
  BY DEF GivenBack, SucceededOf, AmountOf, Amounts
<1>4. SucceededOf(row[k].gw) \in SUBSET (Operations \ {o})
  BY DEF SucceededOf, Accepts
<1>5. \A T \in SUBSET (Operations \ {o}) :
          /\ SumFunctionOnSet(Amounts', T) = SumFunctionOnSet(Amounts, T)
          /\ SumFunctionOnSet(Amounts', T \cup {o})
               = SumFunctionOnSet(Amounts, T) + sess[s].new.amount
  BY <1>1, AmountOfAccepted
<1>6. /\ operation'[o].state = st /\ operation'[o].intent = sess[s].copy.gw
      /\ \A p \in Operations \ {o} : operation'[p] = operation[p]
      /\ row' = row
  BY <1>1 DEF Accepts, TypeOK
<1>7. CASE row[k].gw = sess[s].copy.gw /\ st = "succeeded"
  <2>1. SucceededOf(row[k].gw)' = SucceededOf(row[k].gw) \cup {o}
    BY <1>6, <1>7 DEF SucceededOf
  <2>2. QED
    BY <1>2, <1>3, <1>4, <1>5, <1>7, <2>1
<1>8. CASE ~(row[k].gw = sess[s].copy.gw /\ st = "succeeded")
  <2>1. SucceededOf(row[k].gw)' = SucceededOf(row[k].gw)
    BY <1>4, <1>6, <1>8 DEF SucceededOf
  <2>2. QED
    BY <1>2, <1>3, <1>4, <1>5, <1>8, <2>1
<1>9. QED
  BY <1>7, <1>8

\* A refund that settles is given back, or was not given back before.
LEMMA GivenBackSettled ==
    ASSUME IInv, IInv', NEW o \in Operations, OperationSettles(o), NEW k \in Keys
    PROVE  GivenBack(k)' >= GivenBack(k)
<1>1. TypeOK /\ TypeOK'
  BY DEF IInv
<1>2. /\ \A p \in Operations : /\ operation'[p].intent = operation[p].intent
                               /\ p # o => operation'[p].state = operation[p].state
      /\ Amounts' = Amounts
  BY <1>1, Settled
<1>3. row' = row /\ operation[o].state = "pending"
  BY DEF OperationSettles
<1>4. SucceededOf(row[k].gw)' \in SUBSET Operations
      /\ SucceededOf(row[k].gw) \in SUBSET (SucceededOf(row[k].gw)')
  BY <1>2, <1>3 DEF SucceededOf
<1>5. GivenBack(k) = SumFunctionOnSet(Amounts, SucceededOf(row[k].gw)) /\ GivenBack(k) \in Nat
  BY <1>1, GivenBackIsSum
<1>6. GivenBack(k)' = SumFunctionOnSet(Amounts, SucceededOf(row[k].gw)')
  BY <1>2 DEF GivenBack, SucceededOf, AmountOf, Amounts
<1>7. IsFiniteSet(SucceededOf(row[k].gw)') /\ \A p \in SucceededOf(row[k].gw)' : Amounts[p] \in Nat
  BY <1>1, <1>4, AmountsType
<1>8. SumFunctionOnSet(Amounts, SucceededOf(row[k].gw)) <= SumFunctionOnSet(Amounts, SucceededOf(row[k].gw)')
  BY <1>4, <1>7, SumGrows
<1>9. SumFunctionOnSet(Amounts, SucceededOf(row[k].gw)') \in Nat
  BY <1>7, SumType
<1>10. QED
  BY <1>5, <1>6, <1>8, <1>9

----------------------------------------------------------------------------
(* The refunded total is never overstated                                  *)

\* What was given back is never taken back: what sessions and rows say of it
\* stays true.
LEMMA LedgerGrows ==
    ASSUME IInv, IInv', LedgerInv, \A k \in Keys : GivenBack(k)' >= GivenBack(k)
    PROVE  /\ \A k \in Keys : row'[k].refunded = row[k].refunded /\ row'[k].status = row[k].status =>
                 /\ row'[k].refunded <= GivenBack(k)'
                 /\ row'[k].status = "refunded" => GivenBack(k)' = Total
           /\ \A ss \in Session : SessionOK(ss) /\ LedgerOK(ss) => LedgerOK(ss)'
<1>1. TypeOK /\ TypeOK'
  BY DEF IInv
<1>2. \A k \in Keys : GivenBack(k) \in Nat
  BY <1>1, GivenBackIsSum
<1>3. \A k \in Keys : GivenBack(k)' \in Nat /\ GivenBack(k)' <= Total
  <2>1. IInv' => GivenBackInRange'
    BY GivenBackRange, PTL
  <2>2. GivenBackInRange'
    BY <2>1
  <2>3. QED
    BY <2>2 DEF GivenBackInRange
<1>4. \A k \in Keys : /\ row[k].refunded <= GivenBack(k)
                      /\ row[k].status = "refunded" => GivenBack(k) = Total
                      /\ row[k].refunded \in Nat
  BY <1>1 DEF LedgerInv, RefundedIsNeverOverstated, TypeOK, StoreTypeOK, Row
<1>5. ASSUME NEW k \in Keys, row'[k].refunded = row[k].refunded, row'[k].status = row[k].status
      PROVE  /\ row'[k].refunded <= GivenBack(k)'
             /\ row'[k].status = "refunded" => GivenBack(k)' = Total
  <2>1. GivenBack(k)' >= GivenBack(k)
    OBVIOUS
  <2>2. QED
    BY <1>2, <1>3, <1>4, <1>5, <2>1
<1>6. ASSUME NEW ss \in Session, SessionOK(ss), LedgerOK(ss)
      PROVE  LedgerOK(ss)'
  <2> SUFFICES ASSUME Works(ss)
               PROVE  /\ ss.copy.refunded <= GivenBack(ss.new.key)'
                      /\ ss.pc = "replied" /\ ss.new.status = "succeeded"
                           => ss.copy.refunded + ss.new.amount <= GivenBack(ss.new.key)'
    BY DEF LedgerOK, Works
  <2>1. ss.new.key \in Keys
    BY <1>6 DEF SessionOK, RequestOK
  <2>2. ss.copy.refunded \in Nat /\ ss.new.amount \in Nat
    <3>1. ss.copy \in Row /\ ss.new \in Refund
      BY DEF Session
    <3>2. QED
      BY <3>1 DEF Row, Refund
  <2>3. GivenBack(ss.new.key)' >= GivenBack(ss.new.key)
    BY <2>1
  <2>4. QED
    BY <1>2, <1>3, <1>6, <2>1, <2>2, <2>3 DEF LedgerOK
<1>7. QED
  BY <1>5, <1>6

\* The step of one session that leaves the payments alone.
LEMMA LedgerOfOthers ==
    ASSUME IInv, IInv', LedgerInv, \A k \in Keys : GivenBack(k)' >= GivenBack(k),
           \A k \in Keys : row'[k].refunded = row[k].refunded /\ row'[k].status = row[k].status,
           NEW S \in SUBSET Sessions, \A t \in S : sess'[t] = sess[t],
           \A t \in Sessions \ S : LedgerOK(sess[t])'
    PROVE  LedgerInv'
<1>1. RefundedIsNeverOverstated'
  BY LedgerGrows DEF RefundedIsNeverOverstated
<1>2. ASSUME NEW t \in Sessions PROVE LedgerOK(sess[t])'
  <2>1. CASE t \in S
    <3>1. sess[t] \in Session /\ SessionOK(sess[t]) /\ LedgerOK(sess[t])
      BY DEF IInv, TypeOK, KeyInv, LedgerInv
    <3>2. \A ss \in Session : SessionOK(ss) /\ LedgerOK(ss) => LedgerOK(ss)'
      BY LedgerGrows
    <3>3. sess'[t] = sess[t]
      BY <2>1
    <3>4. QED
      BY <3>1, <3>2, <3>3 DEF LedgerOK, Works
  <2>2. CASE t \notin S
    BY <2>2
  <2>3. QED
    BY <2>1, <2>2
<1>3. QED
  BY <1>1, <1>2 DEF LedgerInv

LEMMA QuietKeepsLedger ==
    ASSUME IInv, IInv', LedgerInv, NEW s \in Sessions, Quiet(s)
    PROVE  LedgerInv'
<1>1. PICK ss \in Session : Moves(s, ss) /\ SessionOK(ss) /\ LedgerOK(ss)
  BY DEF Quiet
<1>2. TypeOK /\ TypeOK' /\ sess \in [Sessions -> Session] /\ \A k \in Keys : GivenBack(k) \in Nat
  BY GivenBackIsSum DEF IInv, TypeOK
<1>3. UNCHANGED <<row, operation>> /\ \A t \in Sessions : sess'[t] = IF t = s THEN ss ELSE sess[t]
  BY <1>1, <1>2 DEF Moves
<1>4. \A k \in Keys : GivenBack(k)' = GivenBack(k)
  BY <1>2, <1>3, GivenBackSame
<1>5. \A k \in Keys : GivenBack(k)' >= GivenBack(k)
  BY <1>2, <1>4
<1>6. LedgerOK(ss)'
  BY <1>1, <1>5, LedgerGrows
<1>7. \A t \in Sessions \ (Sessions \ {s}) : LedgerOK(sess[t])'
  BY <1>3, <1>6 DEF LedgerOK, Works
<1>8. \A t \in Sessions \ {s} : sess'[t] = sess[t]
  BY <1>3
<1>9. QED
  BY <1>3, <1>5, <1>7, <1>8, LedgerOfOthers

LEMMA AcceptsKeepsLedger ==
    ASSUME IInv, IInv', LedgerInv, NEW s \in Sessions, NEW ss \in Session, NEW o \in Operations,
           NEW st \in {"pending", "succeeded"}, Accepts(s, ss, o, st)
    PROVE  LedgerInv'
<1> DEFINE k == sess[s].new.key
           amount == sess[s].new.amount
<1>1. TypeOK /\ \A h \in Keys : GivenBack(h) \in Nat
  BY GivenBackIsSum DEF IInv
<1>2. /\ sess[s] \in Session /\ Works(sess[s]) /\ k \in Keys /\ sess[s].copy.gw = row[k].gw
  BY Called DEF Accepts
<1>3. amount \in Nat /\ sess[s].copy.refunded \in Nat
  BY <1>2 DEF Session, Refund, Row
<1>4. \A h \in Keys : GivenBack(h)' = IF row[h].gw = sess[s].copy.gw /\ st = "succeeded"
                                        THEN GivenBack(h) + amount ELSE GivenBack(h)
  BY GivenBackAccepted
<1>5. \A h \in Keys : GivenBack(h)' >= GivenBack(h)
  BY <1>1, <1>3, <1>4
<1>6. PICK h \in Keys : h = k
  BY <1>2
<1>7. LedgerOK(ss)'
  <2>1. ss.new.key = h /\ ss.copy = sess[s].copy /\ ss.new.amount = amount
    BY <1>6 DEF Accepts
  <2>2. ss.new.status = "succeeded" => st = "succeeded"
    BY StatusTypes DEF Accepts
  <2>3. sess[s].copy.refunded <= GivenBack(h)
    BY <1>2, <1>6 DEF LedgerInv, LedgerOK
  <2>4. GivenBack(h) \in Nat
        /\ GivenBack(h)' = IF st = "succeeded" THEN GivenBack(h) + amount ELSE GivenBack(h)
    BY <1>1, <1>2, <1>4, <1>6
  <2>5. sess[s].copy.refunded <= GivenBack(h)'
    BY <1>3, <2>3, <2>4
  <2>6. st = "succeeded" => sess[s].copy.refunded + amount <= GivenBack(h)'
    BY <1>3, <2>3, <2>4
  <2>7. QED
    BY <2>1, <2>2, <2>5, <2>6 DEF LedgerOK, Works
<1>8. row' = row /\ \A t \in Sessions : sess'[t] = IF t = s THEN ss ELSE sess[t]
  BY <1>1 DEF Accepts, TypeOK
<1>9. \A t \in Sessions \ (Sessions \ {s}) : LedgerOK(sess[t])'
  BY <1>7, <1>8 DEF LedgerOK, Works
<1>10. \A t \in Sessions \ {s} : sess'[t] = sess[t]
  BY <1>8
<1>11. QED
  BY <1>5, <1>8, <1>9, <1>10, LedgerOfOthers

LEMMA MarkKeepsLedger ==
    ASSUME IInv, IInv', LedgerInv, NEW s \in Sessions, Marks(s)
    PROVE  LedgerInv'
<1>1. TypeOK /\ TypeOK' /\ \A k \in Keys : GivenBack(k) \in Nat
  BY GivenBackIsSum DEF IInv
<1>2. UNCHANGED <<row, operation>> /\ \A t \in Sessions : sess'[t] = IF t = s THEN Idle ELSE sess[t]
  BY <1>1 DEF Marks, End, TypeOK
<1>3. \A k \in Keys : GivenBack(k)' = GivenBack(k)
  BY <1>1, <1>2, GivenBackSame
<1>4. \A k \in Keys : GivenBack(k)' >= GivenBack(k)
  BY <1>1, <1>3
<1>5. \A t \in Sessions \ (Sessions \ {s}) : LedgerOK(sess[t])'
  BY <1>2 DEF LedgerOK, Works, Idle
<1>6. \A t \in Sessions \ {s} : sess'[t] = sess[t]
  BY <1>2
<1>7. QED
  BY <1>2, <1>4, <1>5, <1>6, LedgerOfOthers

LEMMA SettleKeepsLedger ==
    ASSUME IInv, IInv', LedgerInv, NEW o \in Operations, OperationSettles(o)
    PROVE  LedgerInv'
<1>1. \A k \in Keys : GivenBack(k)' >= GivenBack(k)
  BY GivenBackSettled
<1>2. UNCHANGED <<row, sess>>
  BY DEF OperationSettles
<1>3. \A t \in Sessions \ Sessions : LedgerOK(sess[t])'
  OBVIOUS
<1>4. \A t \in Sessions : sess'[t] = sess[t]
  BY <1>2
<1>5. QED
  BY <1>1, <1>2, <1>3, <1>4, LedgerOfOthers

\* A commit writes the total its session read, plus what was given back since.
LEMMA CommitKeepsLedger ==
    ASSUME IInv, IInv', LedgerInv, NEW s \in Sessions, NEW ss \in Session, NEW new \in Refund,
           Commits(s, ss, new)
    PROVE  LedgerInv'
<1> DEFINE k == sess[s].new.key
           refunded == sess[s].copy.refunded + sess[s].new.amount
           status == Written(row[k].status, sess[s].copy.status, StatusAfterRefund(refunded, Total))
<1>1. TypeOK /\ TypeOK' /\ \A h \in Keys : GivenBack(h) \in Nat
  BY GivenBackIsSum DEF IInv
<1>2. /\ sess[s] \in Session /\ Works(sess[s]) /\ k \in Keys /\ refunded \in 0..Total
      /\ sess[s].copy.status \in Refundable
  BY Replied DEF Commits
<1>3. row \in [Keys -> Row] /\ \A h \in Keys : row'[h].gw = row[h].gw
  BY <1>1, CommitKeepsRows DEF TypeOK, StoreTypeOK
<1>4. \A h \in Keys : GivenBack(h)' = GivenBack(h)
  <2>1. UNCHANGED operation
    BY DEF Commits
  <2>2. QED
    BY <1>1, <1>3, <2>1, GivenBackSame
<1>5. \A h \in Keys : GivenBack(h)' >= GivenBack(h)
  BY <1>1, <1>4
<1>6. \A t \in Sessions : sess'[t] = IF t = s THEN ss ELSE sess[t]
  BY <1>1 DEF Commits, TypeOK
<1>7. \A h \in Keys : row'[h].refunded = row[h].refunded /\ row'[h].status = row[h].status =>
         /\ row'[h].refunded <= GivenBack(h)'
         /\ row'[h].status = "refunded" => GivenBack(h)' = Total
  BY <1>5, LedgerGrows
<1>8. CASE new.status # "succeeded"
  <2>1. row' = row
    BY <1>8 DEF Commits
  <2>2. \A t \in Sessions \ {s} : sess'[t] = sess[t]
    BY <1>6
  <2>3. \A t \in Sessions \ (Sessions \ {s}) : LedgerOK(sess[t])'
    BY <1>6 DEF LedgerOK, Works, Commits
  <2>4. QED
    BY <1>5, <2>1, <2>2, <2>3, LedgerOfOthers
<1>9. CASE new.status = "succeeded"
  <2>1. sess[s].new.status = "succeeded" /\ sess[s].pc = "replied"
    BY <1>9 DEF Commits, At
  <2>2. refunded <= GivenBack(k)
    BY <1>2, <2>1 DEF LedgerInv, LedgerOK
  <2>3. GivenBack(k) <= Total
    BY <1>2, GivenBackBound
  <2>4. row' = [row EXCEPT ![k].refunded = refunded, ![k].status = status]
    BY <1>9 DEF Commits
  <2> HIDE DEF k, refunded
  <2>5. row'[k].refunded = refunded /\ row'[k].status = status
        /\ \A h \in Keys \ {k} : row'[h] = row[h]
    <3> DEFINE r == [row[k] EXCEPT !.refunded = refunded, !.status = status]
    <3>1. row[k] \in Row
      BY <1>2, <1>3
    <3>2. r.refunded = refunded /\ r.status = status
      BY <3>1 DEF Row
    <3>3. row' = [row EXCEPT ![k] = r]
      BY <2>4
    <3> HIDE DEF r, status
    <3>4. QED
      BY <1>2, <1>3, <3>2, <3>3
  <2>6. row'[k].status = "refunded" => GivenBack(k) = Total
    <3>1. status = "refunded" => row[k].status = "refunded" \/ refunded >= Total
      BY DEF Written, StatusAfterRefund
    <3>2. row[k].status = "refunded" => GivenBack(k) = Total
      BY <1>2 DEF LedgerInv, RefundedIsNeverOverstated
    <3>3. refunded >= Total => GivenBack(k) = Total
      BY <1>1, <1>2, <2>2, <2>3
    <3> HIDE DEF status
    <3>4. QED
      BY <2>5, <3>1, <3>2, <3>3
  <2>7. ASSUME NEW h \in Keys
        PROVE  /\ row'[h].refunded <= GivenBack(h)'
               /\ row'[h].status = "refunded" => GivenBack(h)' = Total
    <3>1. CASE h = k
      BY <1>2, <1>4, <2>2, <2>5, <2>6, <3>1
    <3>2. CASE h # k
      BY <1>7, <2>5, <2>7, <3>2
    <3>3. QED
      BY <3>1, <3>2
  <2>8. RefundedIsNeverOverstated'
    BY <2>7 DEF RefundedIsNeverOverstated
  <2>9. ASSUME NEW t \in Sessions PROVE LedgerOK(sess[t])'
    <3>1. CASE t = s
      BY <1>6, <3>1 DEF LedgerOK, Works, Commits
    <3>2. CASE t # s
      <4>1. sess'[t] = sess[t] /\ sess[t] \in Session /\ SessionOK(sess[t]) /\ LedgerOK(sess[t])
        BY <1>6, <3>2 DEF IInv, TypeOK, KeyInv, LedgerInv
      <4>2. \A tt \in Session : SessionOK(tt) /\ LedgerOK(tt) => LedgerOK(tt)'
        BY <1>5, LedgerGrows
      <4>3. QED
        BY <4>1, <4>2 DEF LedgerOK, Works
    <3>3. QED
      BY <3>1, <3>2
  <2>10. QED
    BY <2>8, <2>9 DEF LedgerInv
<1>10. QED
  BY <1>8, <1>9

LEMMA NextKeepsLedger ==
    ASSUME IInv, LedgerInv, Next
    PROVE  LedgerInv'
<1>0. IInv'
  BY NextKeepsIInv
<1>1. CASE \E s \in Sessions : Quiet(s)
  BY <1>0, <1>1, QuietKeepsLedger
<1>2. CASE \E s \in Sessions, ss \in Session, o \in Operations, st \in {"pending", "succeeded"} :
              Accepts(s, ss, o, st)
  BY <1>0, <1>2, AcceptsKeepsLedger
<1>3. CASE \E s \in Sessions, ss \in Session, new \in Refund : Commits(s, ss, new)
  BY <1>0, <1>3, CommitKeepsLedger
<1>4. CASE \E s \in Sessions : Marks(s)
  BY <1>0, <1>4, MarkKeepsLedger
<1>5. CASE \E o \in Operations : OperationSettles(o)
  BY <1>0, <1>5, SettleKeepsLedger
<1>6. QED
  BY <1>1, <1>2, <1>3, <1>4, <1>5, StepCases

LEMMA StutterKeeps ==
    ASSUME IInv, LedgerInv, UNCHANGED vars
    PROVE  IInv' /\ LedgerInv'
<1>1. row' = row /\ intent' = intent /\ refund' = refund /\ operation' = operation
      /\ sess' = sess /\ orphan' = orphan
  BY DEF vars
<1>2. TypeOK' /\ \A k \in Keys : Accounted(k)'
  BY <1>1 DEF IInv, TypeOK, StoreTypeOK, Accounted, AmountOf, AcceptedOf
<1>3. \A s \in Sessions : SessionOK(sess[s])'
  BY <1>1 DEF IInv, KeyInv, SessionOK, RequestOK, AnswerOK, TaskOK, Works, Holding, Recorded, Known
<1>4. Exclusive' /\ (\A q \in RefundKeys : RefundOK(q)') /\ \A o \in Operations : OperationOK(o)'
  BY <1>1 DEF IInv, KeyInv, Exclusive, Holds, RefundOK, Recorded, OperationOK
<1>5. RefundsAreRecorded'
  BY <1>1 DEF IInv, KeyInv, RefundsAreRecorded, Known, Holds
<1>6. LedgerInv'
  BY <1>1 DEF LedgerInv, LedgerOK, Works, RefundedIsNeverOverstated, GivenBack, AmountOf
<1>7. QED
  BY <1>2, <1>3, <1>4, <1>5, <1>6 DEF IInv, KeyInv

LEMMA InvariantHolds == Spec => [](IInv /\ LedgerInv)
<1>1. Init => IInv /\ LedgerInv
  BY InitIInv
<1>2. (IInv /\ LedgerInv) /\ [Next]_vars => (IInv /\ LedgerInv)'
  BY NextKeepsIInv, NextKeepsLedger, StutterKeeps
<1>3. QED
  BY <1>1, <1>2, PTL DEF Spec

\* Every reachable state is well typed: the refunded totals of the payments and
\* of the provider stay within the payment, however refunds overlap and fail.
THEOREM TypeCorrect == Spec => []TypeOK
<1>1. IInv => TypeOK
  BY DEF IInv
<1>2. QED
  BY <1>1, InvariantHolds, PTL

\* No commit of any session or task drops the id of a provider refund the
\* service was given (refund_service.py:109-124, refund_tasks.py).
THEOREM EveryRefundRecorded == Spec => []RefundsAreRecorded
<1>1. IInv => RefundsAreRecorded
  BY DEF IInv, KeyInv
<1>2. QED
  BY <1>1, InvariantHolds, PTL

\* The refunded total of a payment is at most what the provider has given back,
\* and a payment called refunded was given back in full.
THEOREM NeverOverstated == Spec => []RefundedIsNeverOverstated
<1>1. LedgerInv => RefundedIsNeverOverstated
  BY DEF LedgerInv
<1>2. QED
  BY <1>1, InvariantHolds, PTL

----------------------------------------------------------------------------
(* The refunded total is lost only to a stale read                         *)

RefundAmounts == [q \in RefundKeys |-> refund[q].amount]

SucceededKeys(k) == {q \in RefundKeys : refund[q].status = "succeeded" /\ refund[q].key = k}

LEMMA SucceededTotalIsSum ==
    ASSUME TypeOK
    PROVE  /\ \A q \in RefundKeys : RefundAmounts[q] = refund[q].amount /\ RefundAmounts[q] \in Nat
           /\ \A k \in Keys : /\ SucceededTotal(k) = SumFunctionOnSet(RefundAmounts, SucceededKeys(k))
                              /\ IsFiniteSet(SucceededKeys(k))
<1>1. \A q \in RefundKeys : RefundAmounts[q] = refund[q].amount /\ RefundAmounts[q] \in Nat
  BY DEF TypeOK, Refund, RefundAmounts
<1>2. ASSUME NEW k \in Keys
      PROVE  /\ SucceededTotal(k) = SumFunctionOnSet(RefundAmounts, SucceededKeys(k))
             /\ IsFiniteSet(SucceededKeys(k))
  <2>1. SucceededKeys(k) \in SUBSET RefundKeys
    BY DEF SucceededKeys
  <2>2. QED
    BY <2>1, FS_Subset DEF SucceededTotal, SucceededKeys, RefundAmounts
<1>3. QED
  BY <1>1, <1>2

\* What leaves the refunds that succeeded alone.
LEMMA SucceededTotalSame ==
    ASSUME TypeOK, TypeOK',
           \A q \in RefundKeys :
              /\ refund'[q].status = "succeeded" <=> refund[q].status = "succeeded"
              /\ refund'[q].key = refund[q].key
              /\ refund'[q].amount = refund[q].amount
    PROVE  \A k \in Keys : SucceededTotal(k)' = SucceededTotal(k)
<1> SUFFICES ASSUME NEW k \in Keys PROVE SucceededTotal(k)' = SucceededTotal(k)
  OBVIOUS
<1>1. SucceededTotal(k) = SumFunctionOnSet(RefundAmounts, SucceededKeys(k))
  BY DEF SucceededTotal, SucceededKeys, RefundAmounts
<1>2. SucceededTotal(k)' = SumFunctionOnSet(RefundAmounts', SucceededKeys(k)')
  BY DEF SucceededTotal, SucceededKeys, RefundAmounts
<1>3. SucceededKeys(k)' = SucceededKeys(k) /\ RefundAmounts' = RefundAmounts
  BY DEF SucceededKeys, RefundAmounts
<1>4. QED
  BY <1>1, <1>2, <1>3

\* A commit adds its refund, if it succeeded, to the succeeded ones of its
\* payment.
LEMMA SucceededTotalCommitted ==
    ASSUME IInv, IInv', NEW s \in Sessions, NEW ss \in Session, NEW new \in Refund,
           Commits(s, ss, new), NEW k \in Keys
    PROVE  /\ SucceededTotal(k) \in Nat
           /\ SucceededTotal(k)' =
                 IF new.status = "succeeded" /\ sess[s].new.key = k
                   THEN SucceededTotal(k) + sess[s].new.amount
                   ELSE SucceededTotal(k)
<1> DEFINE q == sess[s].refund
           S == SucceededKeys(k)
<1>1. TypeOK /\ TypeOK'
  BY DEF IInv
<1>2. q \in RefundKeys /\ refund[q].status = "absent"
  BY Replied DEF Commits, Recorded
<1>3. refund' = [refund EXCEPT ![q] = new] /\ refund \in [RefundKeys -> Refund]
  BY <1>1 DEF Commits, TypeOK
<1>4. refund'[q] = new /\ \A p \in RefundKeys \ {q} : refund'[p] = refund[p]
  BY <1>2, <1>3
<1>5. new.key = sess[s].new.key /\ new.amount = sess[s].new.amount
  BY DEF Commits
<1>6. /\ SucceededTotal(k) = SumFunctionOnSet(RefundAmounts, S) /\ IsFiniteSet(S)
      /\ \A p \in RefundKeys : RefundAmounts[p] = refund[p].amount /\ RefundAmounts[p] \in Nat
  BY <1>1, SucceededTotalIsSum
<1>7. SucceededTotal(k)' = SumFunctionOnSet(RefundAmounts', S')
  BY DEF SucceededTotal, SucceededKeys, RefundAmounts
<1>8. \A p \in RefundKeys : RefundAmounts'[p] = refund'[p].amount /\ RefundAmounts'[p] \in Nat
  BY <1>1 DEF RefundAmounts, TypeOK, Refund
<1>9. S \in SUBSET (RefundKeys \ {q})
  BY <1>2 DEF SucceededKeys
<1>10. /\ S' = IF new.status = "succeeded" /\ sess[s].new.key = k THEN S \cup {q} ELSE S
  BY <1>2, <1>4, <1>5, <1>9 DEF SucceededKeys
<1> HIDE DEF S, q
<1>11. \A p \in S : RefundAmounts[p] \in Nat /\ RefundAmounts'[p] = RefundAmounts[p]
  BY <1>4, <1>6, <1>8, <1>9
<1>12. SumFunctionOnSet(RefundAmounts', S) = SumFunctionOnSet(RefundAmounts, S)
  BY <1>6, <1>11, SumSame
<1>13. SumFunctionOnSet(RefundAmounts, S) \in Nat
  BY <1>6, <1>11, SumType
<1>14. SumFunctionOnSet(RefundAmounts', S \cup {q}) = RefundAmounts'[q] + SumFunctionOnSet(RefundAmounts', S)
  <2>1. \A p \in S \cup {q} : RefundAmounts'[p] \in Nat
    BY <1>2, <1>8, <1>9
  <2>2. q \notin S
    BY <1>9
  <2>3. QED
    BY <1>6, <2>1, <2>2, SumAdds
<1>15. RefundAmounts'[q] = sess[s].new.amount /\ RefundAmounts'[q] \in Nat
  BY <1>2, <1>4, <1>5, <1>8
<1>16. QED
  BY <1>6, <1>7, <1>10, <1>12, <1>13, <1>14, <1>15

StaleAt(k) ==
    \E s \in Sessions : /\ Holds(s)
                        /\ sess[s].new.key = k
                        /\ sess[s].copy.refunded # row[k].refunded

\* A step loses the exactness of a payment's total only to a stale read.
LEMMA NextLosesLedger ==
    ASSUME IInv, LedgerInv, Next, NEW k \in Keys, LedgerExact(k)
    PROVE  LedgerExact(k)' \/ StaleAt(k)
<1>0. IInv' /\ TypeOK /\ TypeOK'
  BY NextKeepsIInv DEF IInv
<1>1. ASSUME UNCHANGED row,
             \A q \in RefundKeys :
                /\ refund'[q].status = "succeeded" <=> refund[q].status = "succeeded"
                /\ refund'[q].key = refund[q].key
                /\ refund'[q].amount = refund[q].amount
      PROVE  LedgerExact(k)'
  <2>1. SucceededTotal(k)' = SucceededTotal(k)
    <3>1. \A h \in Keys : SucceededTotal(h)' = SucceededTotal(h)
      BY <1>0, <1>1, SucceededTotalSame
    <3>2. QED
      BY <3>1
  <2>2. QED
    BY <1>1, <2>1 DEF LedgerExact
<1>2. CASE \E s \in Sessions : Quiet(s)
  BY <1>1, <1>2 DEF Quiet, Moves
<1>3. CASE \E s \in Sessions, ss \in Session, o \in Operations, st \in {"pending", "succeeded"} :
              Accepts(s, ss, o, st)
  BY <1>1, <1>3 DEF Accepts
<1>4. CASE \E o \in Operations : OperationSettles(o)
  BY <1>1, <1>4 DEF OperationSettles
<1>5. CASE \E s \in Sessions : /\ Marks(s) /\ Recorded(sess[s].refund) /\ ~Holds(s)
                              /\ sess[s].operation = NoOperation
  <2>1. PICK s \in Sessions : Marks(s) /\ Recorded(sess[s].refund)
    BY <1>5
  <2>2. \A q \in RefundKeys :
            /\ refund'[q].status = "succeeded" <=> refund[q].status = "succeeded"
            /\ refund'[q].key = refund[q].key
            /\ refund'[q].amount = refund[q].amount
    BY <2>1, MarkedRefunds
  <2>3. UNCHANGED row
    BY <2>1 DEF Marks
  <2>4. QED
    BY <1>1, <2>2, <2>3
<1>6. ASSUME NEW s \in Sessions, NEW ss \in Session, NEW new \in Refund, Commits(s, ss, new)
      PROVE  LedgerExact(k)' \/ StaleAt(k)
  <2>1. /\ SucceededTotal(k) \in Nat
        /\ SucceededTotal(k)' = IF new.status = "succeeded" /\ sess[s].new.key = k
                                  THEN SucceededTotal(k) + sess[s].new.amount
                                  ELSE SucceededTotal(k)
    BY <1>0, <1>6, SucceededTotalCommitted
  <2>2. Holds(s) /\ sess[s].new.key \in Keys /\ row \in [Keys -> Row] /\ row[k] \in Row
    BY <1>0, <1>6, Replied DEF Commits, TypeOK, StoreTypeOK
  <2>3. CASE new.status = "succeeded" /\ sess[s].new.key = k
    <3>1. row'[k].refunded = sess[s].copy.refunded + sess[s].new.amount
      <4> DEFINE refunded == sess[s].copy.refunded + sess[s].new.amount
                 status == Written(row[k].status, sess[s].copy.status,
                                   StatusAfterRefund(refunded, Total))
                 r == [row[k] EXCEPT !.refunded = refunded, !.status = status]
      <4>1. row' = [row EXCEPT ![k] = r]
        BY <1>6, <2>3 DEF Commits
      <4>2. r.refunded = refunded
        BY <2>2 DEF Row
      <4> HIDE DEF r, refunded
      <4>3. row'[k].refunded = refunded
        BY <2>2, <4>1, <4>2
      <4>4. QED
        BY <4>3 DEF refunded
    <3>2. CASE sess[s].copy.refunded = row[k].refunded
      BY <2>1, <2>3, <3>1, <3>2 DEF LedgerExact
    <3>3. CASE sess[s].copy.refunded # row[k].refunded
      BY <2>2, <2>3, <3>3 DEF StaleAt
    <3>4. QED
      BY <3>2, <3>3
  <2>4. CASE ~(new.status = "succeeded" /\ sess[s].new.key = k)
    <3>1. row'[k].refunded = row[k].refunded
      <4> DEFINE h == sess[s].new.key
      <4>1. CASE new.status # "succeeded"
        BY <1>6, <4>1 DEF Commits
      <4>2. CASE new.status = "succeeded" /\ h # k
        <5>1. row' = [row EXCEPT
                         ![h].refunded = sess[s].copy.refunded + sess[s].new.amount,
                         ![h].status = Written(@, sess[s].copy.status,
                             StatusAfterRefund(sess[s].copy.refunded + sess[s].new.amount, Total))]
          BY <1>6, <4>2 DEF Commits
        <5> HIDE DEF h
        <5>2. row'[k] = row[k]
          BY <2>2, <4>2, <5>1
        <5>3. QED
          BY <5>2
      <4>3. QED
        BY <2>4, <4>1, <4>2
    <3>2. QED
      BY <2>1, <2>4, <3>1 DEF LedgerExact
  <2>5. QED
    BY <2>3, <2>4
<1>7. QED
  BY <1>2, <1>3, <1>4, <1>5, <1>6, StepCases

\* The payment's refunded total stops being the sum of its succeeded refunds
\* only in a commit over a total that another refund moved after it was read
\* (refund_service.py:70-76 against :122): nothing else loses an update.
THEOREM LostOnlyToStaleRead == Spec => LedgerLostOnlyToStaleRead
<1>1. IInv /\ LedgerInv /\ [Next]_vars =>
        [\A k \in Keys : LedgerExact(k) =>
            \/ LedgerExact(k)'
            \/ \E s \in Sessions : /\ Holds(s)
                                  /\ sess[s].new.key = k
                                  /\ sess[s].copy.refunded # row[k].refunded]_vars
  <2> SUFFICES ASSUME IInv, LedgerInv, Next, NEW k \in Keys, LedgerExact(k)
               PROVE  LedgerExact(k)' \/ StaleAt(k)
    BY DEF StaleAt
  <2>1. QED
    BY NextLosesLedger
<1>2. QED
  BY <1>1, InvariantHolds, PTL DEF Spec, LedgerLostOnlyToStaleRead

----------------------------------------------------------------------------
(* Refund requests implement IdempotentCall                                *)

Claims == [q \in RefundKeys |-> ClaimOf(q)]

KnownOf(q) == {o \in Operations : Known(o) /\ operation[o].refund = q}

Knowns == [q \in RefundKeys |-> KnownOf(q)]

Used == {o \in Operations : operation[o].state # "unused"}

\* Session s holds key q.
Holder(s, q) == Holds(s) /\ sess[s].refund = q

\* How a key stands follows from its row and from the one session that holds it.
ClaimsRight ==
    \A q \in RefundKeys :
        /\ Recorded(q) => ClaimOf(q) = "recorded"
        /\ \A s \in Sessions : Holder(s, q) =>
              ClaimOf(q) = IF sess[s].pc = "calling" THEN "claimed" ELSE "answered"
        /\ ~Recorded(q) /\ (\A s \in Sessions : ~Holder(s, q)) => ClaimOf(q) = "free"

KnownRight ==
    \A q \in RefundKeys :
        /\ \A s \in Sessions : Holder(s, q) => KnownOf(q) = {sess[s].operation} \ {NoOperation}
        /\ ~Recorded(q) /\ (\A s \in Sessions : ~Holder(s, q)) => KnownOf(q) = {}

LEMMA ClaimsAreRight == IInv => ClaimsRight
<1> SUFFICES ASSUME IInv, NEW q \in RefundKeys
             PROVE  /\ Recorded(q) => ClaimOf(q) = "recorded"
                    /\ \A s \in Sessions : Holder(s, q) =>
                          ClaimOf(q) = IF sess[s].pc = "calling" THEN "claimed" ELSE "answered"
                    /\ ~Recorded(q) /\ (\A s \in Sessions : ~Holder(s, q)) => ClaimOf(q) = "free"
  BY DEF ClaimsRight
<1>1. ASSUME Recorded(q)
      PROVE  ClaimOf(q) = "recorded"
  <2>1. \A s \in Sessions : ~Holder(s, q)
    BY <1>1 DEF IInv, KeyInv, SessionOK, Holder, Holds, Holding
  <2>2. QED
    BY <1>1, <2>1 DEF ClaimOf, Holder
<1>2. ASSUME NEW s \in Sessions, Holder(s, q)
      PROVE  ClaimOf(q) = IF sess[s].pc = "calling" THEN "claimed" ELSE "answered"
  <2>1. ~Recorded(q)
    BY <1>2 DEF IInv, KeyInv, SessionOK, Holder, Holds, Holding
  <2>2. \A t \in Sessions : Holder(t, q) => t = s
    BY <1>2 DEF IInv, KeyInv, Exclusive, Holder
  <2>3. QED
    BY <1>2, <2>1, <2>2 DEF ClaimOf, Holder, Holds
<1>3. ASSUME ~Recorded(q), \A s \in Sessions : ~Holder(s, q)
      PROVE  ClaimOf(q) = "free"
  BY <1>3 DEF ClaimOf, Holder
<1>4. QED
  BY <1>1, <1>2, <1>3

LEMMA KnownIsRight == IInv => KnownRight
<1> SUFFICES ASSUME IInv, NEW q \in RefundKeys
             PROVE  /\ \A s \in Sessions : Holder(s, q) =>
                          KnownOf(q) = {sess[s].operation} \ {NoOperation}
                    /\ ~Recorded(q) /\ (\A s \in Sessions : ~Holder(s, q)) => KnownOf(q) = {}
  BY DEF KnownRight
<1>1. ASSUME ~Recorded(q), NEW o \in KnownOf(q)
      PROVE  \E t \in Sessions : Holder(t, q) /\ sess[t].operation = o
  <2>1. o \in Operations /\ Known(o) /\ operation[o].refund = q /\ refund[q].gw = NoOperation
    BY <1>1 DEF KnownOf, IInv, KeyInv, RefundOK
  <2>2. QED
    BY <2>1 DEF IInv, KeyInv, RefundsAreRecorded, Holder
<1>2. ASSUME NEW s \in Sessions, Holder(s, q)
      PROVE  KnownOf(q) = {sess[s].operation} \ {NoOperation}
  <2>1. ~Recorded(q) /\ AnswerOK(sess[s]) /\ sess[s] \in Session
    BY <1>2 DEF IInv, KeyInv, TypeOK, SessionOK, Holder, Holds, Holding
  <2>2. \A t \in Sessions : Holder(t, q) => t = s
    BY <1>2 DEF IInv, KeyInv, Exclusive, Holder
  <2>3. \A o \in KnownOf(q) : o = sess[s].operation /\ o # NoOperation
    BY <1>1, <2>1, <2>2 DEF KnownOf
  <2>4. sess[s].operation # NoOperation => sess[s].operation \in KnownOf(q)
    BY <1>2, <2>1 DEF AnswerOK, Session, KnownOf, Holder
  <2>5. QED
    BY <2>3, <2>4
<1>3. ASSUME ~Recorded(q), \A s \in Sessions : ~Holder(s, q)
      PROVE  KnownOf(q) = {}
  BY <1>1, <1>3
<1>4. QED
  BY <1>2, <1>3

\* The same of the state a step leads to.
LEMMA RightBeforeAndAfter ==
    ASSUME IInv, IInv'
    PROVE  ClaimsRight /\ KnownRight /\ ClaimsRight' /\ KnownRight'
<1>1. ClaimsRight /\ KnownRight
  BY ClaimsAreRight, KnownIsRight
<1>2. (IInv => ClaimsRight)' /\ (IInv => KnownRight)'
  BY ClaimsAreRight, KnownIsRight, PTL
<1>3. QED
  BY <1>1, <1>2

\* A key stands as before when its row and its holder do.
LEMMA ClaimKept ==
    ASSUME NEW q \in RefundKeys, Recorded(q)' <=> Recorded(q),
           \A t \in Sessions : /\ Holder(t, q)' <=> Holder(t, q)
                               /\ Holder(t, q) => sess'[t].pc = sess[t].pc
    PROVE  ClaimOf(q)' = ClaimOf(q)
BY DEF ClaimOf, Holder

LEMMA AllKept ==
    ASSUME \A q \in RefundKeys : ClaimOf(q)' = ClaimOf(q),
           \A o \in Operations : /\ Known(o)' <=> Known(o)
                                 /\ operation'[o].refund = operation[o].refund
                                 /\ operation'[o].state = "unused" <=> operation[o].state = "unused"
    PROVE  UNCHANGED Idempotent!vars
<1>1. Claims' = Claims
  BY DEF Claims
<1>2. \A q \in RefundKeys : KnownOf(q)' = KnownOf(q)
  BY DEF KnownOf
<1>3. Knowns' = Knowns
  BY <1>2 DEF Knowns
<1>4. Used' = Used
  BY DEF Used
<1>5. QED
  BY <1>1, <1>3, <1>4 DEF Idempotent!vars, Claims, Knowns, KnownOf, Used

LEMMA ClaimsChange ==
    ASSUME NEW q \in RefundKeys, NEW c,
           \A p \in RefundKeys : ClaimOf(p)' = IF p = q THEN c ELSE ClaimOf(p)
    PROVE  Claims' = [Claims EXCEPT ![q] = c]
BY DEF Claims

LEMMA KnownsChange ==
    ASSUME NEW q \in RefundKeys, NEW e,
           \A p \in RefundKeys : KnownOf(p)' = IF p = q THEN e ELSE KnownOf(p)
    PROVE  Knowns' = [Knowns EXCEPT ![q] = e]
BY DEF Knowns

\* The abstract actions, of what they read and write here.
LEMMA AbstractSteps ==
    ASSUME NEW q \in RefundKeys
    PROVE  /\ /\ Claims[q] = "free"
              /\ Claims' = [Claims EXCEPT ![q] = "claimed"]
              /\ UNCHANGED <<Knowns, Used>>
              => Idempotent!Claim(q)
           /\ /\ Claims[q] = "claimed"
              /\ Claims' = [Claims EXCEPT ![q] = "answered"]
              /\ \/ UNCHANGED <<Knowns, Used>>
                 \/ \E e \in Operations \ Used :
                       /\ Used' = Used \cup {e}
                       /\ \/ Knowns' = [Knowns EXCEPT ![q] = {e}]
                          \/ UNCHANGED Knowns
              => Idempotent!Call(q)
           /\ /\ Claims[q] = "answered"
              /\ Claims' = [Claims EXCEPT ![q] = "recorded"]
              /\ UNCHANGED <<Knowns, Used>>
              => Idempotent!Record(q)
           /\ /\ Claims[q] \in {"claimed", "answered"}
              /\ Claims' = [Claims EXCEPT ![q] = "free"]
              /\ Knowns' = [Knowns EXCEPT ![q] = {}]
              /\ UNCHANGED Used
              => Idempotent!Abandon(q)
BY DEF Idempotent!Claim, Idempotent!Call, Idempotent!Record, Idempotent!Abandon,
       Claims, Knowns, KnownOf, Used

AbstractStep == Idempotent!Next \/ UNCHANGED Idempotent!vars

LEMMA QuietImplements ==
    ASSUME IInv, IInv', NEW s \in Sessions, Quiet(s)
    PROVE  AbstractStep
<1> DEFINE old == sess[s]
<1>1. PICK ss \in Session :
         /\ Moves(s, ss) /\ Goes(old, ss)
         /\ SessionOK(ss) /\ ss.operation = NoOperation
         /\ Holding(ss) => \A t \in Sessions \ {s} : ~(Holds(t) /\ sess[t].refund = ss.refund)
  BY DEF Quiet
<1>2. TypeOK /\ KeyInv /\ ClaimsRight /\ KnownRight /\ ClaimsRight' /\ KnownRight'
  BY RightBeforeAndAfter DEF IInv
<1>3. UNCHANGED <<row, intent, refund, operation>> /\ \A q \in RefundKeys : Recorded(q)' <=> Recorded(q)
  BY <1>1 DEF Moves, Recorded
<1>4. \A t \in Sessions : sess'[t] = IF t = s THEN ss ELSE sess[t]
  BY <1>1, <1>2 DEF Moves, TypeOK
<1>5. /\ old \in Session /\ SessionOK(old)
      /\ Holds(s) <=> Holding(old)
      /\ Holds(s)' <=> Holding(ss)
  BY <1>2, <1>4 DEF TypeOK, KeyInv, Holds, Holding
<1>6. \A o \in Operations : Known(o)' <=> Known(o) /\ o # old.operation
  BY <1>1, <1>3 DEF Known, Moves
<1>7. old.operation # NoOperation => old.pc = "replied" /\ Holding(old)
  BY <1>5 DEF SessionOK, AnswerOK
<1>8. \A q \in RefundKeys, t \in Sessions \ {s} :
         /\ Holder(t, q)' <=> Holder(t, q)
         /\ sess'[t].pc = sess[t].pc
  BY <1>4 DEF Holder, Holds
<1>9. \A q \in RefundKeys : /\ Holder(s, q) <=> Holding(old) /\ old.refund = q
                            /\ Holder(s, q)' <=> Holding(ss) /\ ss.refund = q
  BY <1>4, <1>5 DEF Holder
<1>10. \A q \in RefundKeys : ~(Holding(old) /\ old.refund = q) /\ ~(Holding(ss) /\ ss.refund = q)
          => ClaimOf(q)' = ClaimOf(q)
  <2> SUFFICES ASSUME NEW q \in RefundKeys,
                      ~(Holding(old) /\ old.refund = q), ~(Holding(ss) /\ ss.refund = q)
               PROVE  ClaimOf(q)' = ClaimOf(q)
    OBVIOUS
  <2>1. \A t \in Sessions : /\ Holder(t, q)' <=> Holder(t, q)
                            /\ Holder(t, q) => sess'[t].pc = sess[t].pc
    BY <1>8, <1>9
  <2>2. QED
    BY <1>3, <2>1, ClaimKept
<1>11. old.operation = NoOperation => \A q \in RefundKeys : KnownOf(q)' = KnownOf(q)
  BY <1>3, <1>6 DEF KnownOf
<1>12. Used' = Used
  BY <1>3 DEF Used
<1>13. Holding(old) => /\ old.refund \in RefundKeys /\ ~Recorded(old.refund)
                       /\ \A t \in Sessions \ {s} : ~Holder(t, old.refund)
  BY <1>2, <1>5 DEF SessionOK, RequestOK, Works, Holding, KeyInv, Exclusive, Holder
<1>14. Holding(ss) => /\ ss.refund \in RefundKeys /\ ~Recorded(ss.refund)
                      /\ \A t \in Sessions \ {s} : ~Holder(t, ss.refund)
  BY <1>1, <1>5 DEF SessionOK, RequestOK, Works, Holding, Holder
<1>15. CASE ~Holding(old) /\ ~Holding(ss)
  <2>1. \A q \in RefundKeys : ClaimOf(q)' = ClaimOf(q)
    BY <1>10, <1>15
  <2>2. \A o \in Operations : Known(o)' <=> Known(o)
    BY <1>6, <1>7, <1>15
  <2>3. QED
    BY <1>3, <2>1, <2>2, AllKept DEF AbstractStep
<1>16. CASE ~Holding(old) /\ Holding(ss)
  <2>1. PICK q \in RefundKeys : q = ss.refund /\ ~Recorded(q) /\ \A t \in Sessions \ {s} : ~Holder(t, q)
    BY <1>14, <1>16
  <2>2. ClaimOf(q) = "free"
    BY <1>2, <1>9, <1>16, <2>1 DEF ClaimsRight
  <2>3. ClaimOf(q)' = "claimed"
    <3>1. Holder(s, q)' /\ sess'[s].pc = "calling"
      BY <1>1, <1>4, <1>9, <1>16, <2>1 DEF Goes
    <3>2. QED
      BY <1>2, <3>1 DEF ClaimsRight
  <2>4. \A p \in RefundKeys : ClaimOf(p)' = IF p = q THEN "claimed" ELSE ClaimOf(p)
    BY <1>10, <1>16, <2>1, <2>3
  <2>5. Claims[q] = "free" /\ Claims' = [Claims EXCEPT ![q] = "claimed"]
    BY <2>2, <2>4, ClaimsChange DEF Claims
  <2>6. Knowns' = Knowns
    BY <1>7, <1>11, <1>16 DEF Knowns
  <2>7. Idempotent!Claim(q)
    BY <1>12, <2>5, <2>6, AbstractSteps
  <2>8. QED
    BY <2>7 DEF AbstractStep, Idempotent!Next
<1>17. CASE Holding(old) /\ ~Holding(ss)
  <2>1. PICK q \in RefundKeys : q = old.refund /\ ~Recorded(q) /\ \A t \in Sessions \ {s} : ~Holder(t, q)
    BY <1>13, <1>17
  <2>2. ClaimOf(q) \in {"claimed", "answered"}
    BY <1>2, <1>9, <1>17, <2>1 DEF ClaimsRight
  <2>3. ~Recorded(q)' /\ \A t \in Sessions : ~Holder(t, q)'
    BY <1>3, <1>8, <1>9, <1>17, <2>1
  <2>4. ClaimOf(q)' = "free" /\ KnownOf(q)' = {}
    BY <1>2, <2>3 DEF ClaimsRight, KnownRight
  <2>5. \A p \in RefundKeys : ClaimOf(p)' = IF p = q THEN "free" ELSE ClaimOf(p)
    BY <1>10, <1>17, <2>1, <2>4
  <2>6. \A o \in Operations : o = old.operation => operation[o].refund = q
    BY <1>5, <2>1 DEF SessionOK, AnswerOK
  <2>7. \A p \in RefundKeys : p # q => KnownOf(p)' = KnownOf(p)
    BY <1>3, <1>6, <2>6 DEF KnownOf
  <2>8. \A p \in RefundKeys : KnownOf(p)' = IF p = q THEN {} ELSE KnownOf(p)
    BY <2>4, <2>7
  <2>9. Claims[q] \in {"claimed", "answered"} /\ Claims' = [Claims EXCEPT ![q] = "free"]
    BY <2>2, <2>5, ClaimsChange DEF Claims
  <2>10. Knowns' = [Knowns EXCEPT ![q] = {}]
    BY <2>8, KnownsChange
  <2>11. Idempotent!Abandon(q)
    BY <1>12, <2>9, <2>10, AbstractSteps
  <2>12. QED
    BY <2>11 DEF AbstractStep, Idempotent!Next
<1>18. CASE Holding(old) /\ Holding(ss)
  <2>1. PICK q \in RefundKeys : q = old.refund
    BY <1>13, <1>18
  <2>2. old.pc = "calling" /\ ss.pc = "replied" /\ ss.refund = q
    BY <1>1, <1>18, <2>1 DEF Goes
  <2>3. ClaimOf(q) = "claimed"
    BY <1>2, <1>9, <1>18, <2>1, <2>2 DEF ClaimsRight
  <2>4. ClaimOf(q)' = "answered"
    <3>1. Holder(s, q)' /\ sess'[s].pc = "replied"
      BY <1>4, <1>9, <1>18, <2>2
    <3>2. QED
      BY <1>2, <3>1 DEF ClaimsRight
  <2>5. \A p \in RefundKeys : ClaimOf(p)' = IF p = q THEN "answered" ELSE ClaimOf(p)
    BY <1>10, <2>1, <2>2, <2>4
  <2>6. Claims[q] = "claimed" /\ Claims' = [Claims EXCEPT ![q] = "answered"]
    BY <2>3, <2>5, ClaimsChange DEF Claims
  <2>7. Knowns' = Knowns
    BY <1>7, <1>11, <2>2 DEF Knowns
  <2>8. Idempotent!Call(q)
    BY <1>12, <2>6, <2>7, AbstractSteps
  <2>9. QED
    BY <2>8 DEF AbstractStep, Idempotent!Next
<1>19. QED
  BY <1>15, <1>16, <1>17, <1>18

LEMMA AcceptsImplements ==
    ASSUME IInv, IInv', NEW s \in Sessions, NEW ss \in Session, NEW o \in Operations,
           NEW st \in {"pending", "succeeded"}, Accepts(s, ss, o, st)
    PROVE  AbstractStep
<1>1. TypeOK /\ KeyInv /\ ClaimsRight /\ KnownRight /\ ClaimsRight' /\ KnownRight'
  BY RightBeforeAndAfter DEF IInv
<1>2. /\ Holds(s) /\ sess[s].refund \in RefundKeys /\ ~Recorded(sess[s].refund)
      /\ sess[s].operation = NoOperation
  BY Called DEF Accepts
<1>3. PICK q \in RefundKeys : q = sess[s].refund
  BY <1>2
<1>4. \A t \in Sessions : sess'[t] = IF t = s THEN ss ELSE sess[t]
  BY <1>1 DEF Accepts, TypeOK
<1>5. sess[s].pc = "calling" /\ ss.pc = "replied" /\ ss.op = "execute" /\ ss.refund = q
      /\ ss.operation \in {o, NoOperation}
  BY <1>3 DEF Accepts, At
<1>6. UNCHANGED refund /\ \A p \in RefundKeys : Recorded(p)' <=> Recorded(p)
  BY DEF Accepts, Recorded
<1>7. /\ operation'[o].state = st /\ operation'[o].refund = q /\ operation[o].state = "unused"
      /\ \A p \in Operations \ {o} : operation'[p] = operation[p]
  BY <1>1, <1>3 DEF Accepts, TypeOK
<1>8. \A p \in Operations \ {o} : Known(p)' <=> Known(p)
  BY <1>7 DEF Known, Accepts
<1>9. Holder(s, q) /\ Holder(s, q)'
  BY <1>2, <1>3, <1>4, <1>5 DEF Holder, Holds
<1>10. ClaimOf(q) = "claimed" /\ KnownOf(q) = {}
  BY <1>1, <1>2, <1>5, <1>9 DEF ClaimsRight, KnownRight
<1>11. ClaimOf(q)' = "answered" /\ KnownOf(q)' = {ss.operation} \ {NoOperation}
  <2>1. sess'[s] = ss
    BY <1>4
  <2>2. QED
    BY <1>1, <1>5, <1>9, <2>1 DEF ClaimsRight, KnownRight
<1>12. ASSUME NEW p \in RefundKeys, p # q
       PROVE  ClaimOf(p)' = ClaimOf(p) /\ KnownOf(p)' = KnownOf(p)
  <2>1. \A t \in Sessions : /\ Holder(t, p)' <=> Holder(t, p)
                            /\ Holder(t, p) => sess'[t].pc = sess[t].pc
    BY <1>3, <1>4, <1>5, <1>12 DEF Holder, Holds
  <2>2. ClaimOf(p)' = ClaimOf(p)
    BY <1>6, <2>1, ClaimKept
  <2>3. KnownOf(p)' = KnownOf(p)
    BY <1>7, <1>8, <1>12 DEF KnownOf, Known
  <2>4. QED
    BY <2>2, <2>3
<1>13. Claims[q] = "claimed" /\ Claims' = [Claims EXCEPT ![q] = "answered"]
  <2>1. \A p \in RefundKeys : ClaimOf(p)' = IF p = q THEN "answered" ELSE ClaimOf(p)
    BY <1>11, <1>12
  <2>2. QED
    BY <1>10, <2>1, ClaimsChange DEF Claims
<1>14. o \in Operations \ Used /\ Used' = Used \cup {o}
  BY <1>7 DEF Used
<1>15. Knowns' = [Knowns EXCEPT ![q] = {o}] \/ Knowns' = Knowns
  <2>1. CASE ss.operation = o
    <3>1. \A p \in RefundKeys : KnownOf(p)' = IF p = q THEN {o} ELSE KnownOf(p)
      BY <1>11, <1>12, <2>1
    <3>2. QED
      BY <3>1, KnownsChange
  <2>2. CASE ss.operation = NoOperation
    BY <1>10, <1>11, <1>12, <2>2 DEF Knowns
  <2>3. QED
    BY <1>5, <2>1, <2>2
<1>16. Idempotent!Call(q)
  BY <1>13, <1>14, <1>15, AbstractSteps
<1>17. QED
  BY <1>16 DEF AbstractStep, Idempotent!Next

LEMMA CommitImplements ==
    ASSUME IInv, IInv', NEW s \in Sessions, NEW ss \in Session, NEW new \in Refund,
           Commits(s, ss, new)
    PROVE  AbstractStep
<1>1. TypeOK /\ ClaimsRight /\ ClaimsRight'
  BY RightBeforeAndAfter DEF IInv
<1>2. Holds(s) /\ sess[s].refund \in RefundKeys
  BY Replied DEF Commits
<1>3. PICK q \in RefundKeys : q = sess[s].refund
  BY <1>2
<1>4. \A t \in Sessions : sess'[t] = IF t = s THEN ss ELSE sess[t]
  BY <1>1 DEF Commits, TypeOK
<1>5. sess[s].pc = "replied" /\ ss.pc \in {"idle", "returned"}
  BY DEF Commits, At
<1>6. \A p \in RefundKeys : refund'[p] = IF p = q THEN new ELSE refund[p]
  BY <1>1, <1>3 DEF Commits, TypeOK
<1>7. UNCHANGED <<operation, orphan>>
  BY DEF Commits
<1>8. ClaimOf(q) = "answered"
  BY <1>1, <1>2, <1>3, <1>5 DEF ClaimsRight, Holder
<1>9. ClaimOf(q)' = "recorded"
  <2>1. Recorded(q)'
    BY <1>6 DEF Recorded, Commits
  <2>2. QED
    BY <1>1, <2>1 DEF ClaimsRight
<1>10. ASSUME NEW p \in RefundKeys, p # q
       PROVE  ClaimOf(p)' = ClaimOf(p)
  <2>1. \A t \in Sessions : /\ Holder(t, p)' <=> Holder(t, p)
                            /\ Holder(t, p) => sess'[t].pc = sess[t].pc
    BY <1>3, <1>4, <1>5, <1>10 DEF Holder, Holds
  <2>2. Recorded(p)' <=> Recorded(p)
    BY <1>6, <1>10 DEF Recorded
  <2>3. QED
    BY <2>1, <2>2, ClaimKept
<1>11. Claims[q] = "answered" /\ Claims' = [Claims EXCEPT ![q] = "recorded"]
  <2>1. \A p \in RefundKeys : ClaimOf(p)' = IF p = q THEN "recorded" ELSE ClaimOf(p)
    BY <1>9, <1>10
  <2>2. QED
    BY <1>8, <2>1, ClaimsChange DEF Claims
<1>12. Knowns' = Knowns /\ Used' = Used
  BY <1>7 DEF Knowns, KnownOf, Known, Used
<1>13. Idempotent!Record(q)
  BY <1>11, <1>12, AbstractSteps
<1>14. QED
  BY <1>13 DEF AbstractStep, Idempotent!Next

LEMMA MarkImplements ==
    ASSUME IInv, NEW s \in Sessions, Marks(s), Recorded(sess[s].refund), ~Holds(s)
    PROVE  AbstractStep
<1>1. \A q \in RefundKeys : Recorded(q)' <=> Recorded(q)
  BY MarkedRefunds
<1>2. \A t \in Sessions : sess'[t] = IF t = s THEN Idle ELSE sess[t]
  BY DEF IInv, TypeOK, Marks, End
<1>3. \A q \in RefundKeys, t \in Sessions : /\ Holder(t, q)' <=> Holder(t, q)
                                            /\ Holder(t, q) => sess'[t].pc = sess[t].pc
  BY <1>2 DEF Holder, Holds, Idle
<1>4. \A q \in RefundKeys : ClaimOf(q)' = ClaimOf(q)
  BY <1>1, <1>3, ClaimKept
<1>5. \A o \in Operations : /\ Known(o)' <=> Known(o)
                            /\ operation'[o].refund = operation[o].refund
                            /\ operation'[o].state = "unused" <=> operation[o].state = "unused"
  BY DEF Marks, Known
<1>6. QED
  BY <1>4, <1>5, AllKept DEF AbstractStep

LEMMA SettleImplements ==
    ASSUME IInv, NEW o \in Operations, OperationSettles(o)
    PROVE  AbstractStep
<1>1. UNCHANGED <<row, refund, sess, orphan>>
  BY DEF OperationSettles
<1>2. \A q \in RefundKeys : ClaimOf(q)' = ClaimOf(q)
  BY <1>1 DEF ClaimOf, Recorded, Holds
<1>3. \A p \in Operations : /\ operation'[p].refund = operation[p].refund
                            /\ operation'[p].state = "unused" <=> operation[p].state = "unused"
  BY Settled DEF IInv
<1>4. \A p \in Operations : Known(p)' <=> Known(p)
  BY <1>1, <1>3 DEF Known
<1>5. QED
  BY <1>2, <1>3, <1>4, AllKept DEF AbstractStep

LEMMA InitImplements == Init => Idempotent!Init
<1> SUFFICES ASSUME Init PROVE Idempotent!Init
  OBVIOUS
<1>1. /\ \A q \in RefundKeys : ~Recorded(q)
      /\ \A s \in Sessions : ~Holds(s)
      /\ \A o \in Operations : operation[o].state = "unused" /\ ~Known(o)
  BY DEF Init, NoRefund, Recorded, Idle, Holds, UnusedOperation, Known
<1>2. \A q \in RefundKeys : ClaimOf(q) = "free"
  BY <1>1 DEF ClaimOf
<1>3. QED
  BY <1>1, <1>2 DEF Idempotent!Init

LEMMA NextImplements ==
    ASSUME IInv, LedgerInv, [Next]_vars
    PROVE  AbstractStep
<1>1. CASE UNCHANGED vars
  BY <1>1 DEF vars, AbstractStep, Idempotent!vars, ClaimOf, Recorded, Holds, Known
<1>2. CASE Next
  <2>1. IInv'
    BY <1>2, NextKeepsIInv
  <2>2. CASE \E s \in Sessions : Quiet(s)
    BY <2>1, <2>2, QuietImplements
  <2>3. CASE \E s \in Sessions, ss \in Session, o \in Operations, st \in {"pending", "succeeded"} :
                Accepts(s, ss, o, st)
    BY <2>1, <2>3, AcceptsImplements
  <2>4. CASE \E s \in Sessions, ss \in Session, new \in Refund : Commits(s, ss, new)
    BY <2>1, <2>4, CommitImplements
  <2>5. CASE \E s \in Sessions : /\ Marks(s) /\ Recorded(sess[s].refund) /\ ~Holds(s)
                                /\ sess[s].operation = NoOperation
    BY <2>5, MarkImplements
  <2>6. CASE \E o \in Operations : OperationSettles(o)
    BY <2>6, SettleImplements
  <2>7. QED
    BY <1>2, <2>2, <2>3, <2>4, <2>5, <2>6, StepCases
<1>3. QED
  BY <1>1, <1>2

\* Refund requests, the tasks and the provider together implement the promise
\* of the idempotency key (IdempotentCall): an insert claims the key, the call
\* is the one call, the commit records it and a rollback abandons it; every
\* other step leaves the key as it is.
THEOREM ImplementsIdempotentCall == Spec => KeepsKeyPromise
<1>1. Init => Idempotent!Init
  BY InitImplements
<1>2. (IInv /\ LedgerInv) /\ [Next]_vars => [Idempotent!Next]_(Idempotent!vars)
  BY NextImplements DEF AbstractStep
<1>3. QED
  BY <1>1, <1>2, InvariantHolds, PTL DEF Spec, KeepsKeyPromise, Idempotent!Spec
=============================================================================
