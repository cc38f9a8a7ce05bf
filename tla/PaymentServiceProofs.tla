------------------------ MODULE PaymentServiceProofs ------------------------
(***************************************************************************)
(* Proofs about PaymentService: its type invariant, that no key is charged *)
(* twice and no charge is dropped, and that it implements IdempotentCall,  *)
(* for any number of sessions, keys and payments.                          *)
(***************************************************************************)
EXTENDS PaymentService, TLAPS

----------------------------------------------------------------------------
(* The inductive invariant                                                 *)

\* A session past its first read that is not creating a payment.
AtWork(s) == sess[s].pc \in {"calling", "replied", "compensating"} /\ ~Holds(s)

\* It works on an existing row, whose provider id no commit changes.
CopyInv(s) ==
    /\ sess[s].pc # "idle" => sess[s].key \in Keys
    /\ AtWork(s) => /\ Exists(sess[s].key)
                   /\ sess[s].copy.gw = row[sess[s].key].gw

\* The uncommitted insert of a key is the only one and precedes the row; it has
\* no provider id, and the payment an answer gave it is of that key.
HolderInv(s) ==
    /\ sess[s].pc = "checked" \/ Holds(s) => sess[s].copy.gw = NoIntent
    /\ Holds(s) => ~Exists(sess[s].key)
    /\ \A t \in Sessions : Holds(s) /\ Holds(t) /\ sess[s].key = sess[t].key => s = t
    /\ sess[s].intent # NoIntent =>
          /\ Holds(s)
          /\ sess[s].pc = "replied"
          /\ sess[s].reply.ok
          /\ Known(sess[s].intent)
          /\ intent[sess[s].intent].key = sess[s].key

\* A recorded provider id is of a payment of the row's key.
RowInv(k) ==
    row[k].gw # NoIntent =>
        /\ Exists(k)
        /\ Known(row[k].gw)
        /\ intent[row[k].gw].key = k

\* An opened payment is of some key; what was not opened cannot be lost.
IntentInv(i) ==
    IF intent[i].state = "unused" THEN i \notin orphan ELSE intent[i].key \in Keys

KeyInv ==
    /\ \A s \in Sessions : CopyInv(s) /\ HolderInv(s)
    /\ \A k \in Keys : RowInv(k)
    /\ \A i \in Intents : IntentInv(i)
    /\ ChargesAreRecorded

IInv == TypeOK /\ KeyInv

----------------------------------------------------------------------------
(* Types of the values the actions write                                   *)

USE StoreAssumption DEF StoreAssumption

LEMMA StatusTypes ==
    ASSUME NEW word, NEW requiresCapture \in BOOLEAN, NEW state
    PROVE  /\ ResolvePaymentStatus(word, requiresCapture) \in TransactionStatus
           /\ PolledStatus(state) \in TransactionStatus
           /\ NormalizeExternalStatus(state) \in TransactionStatus
BY DEF ResolvePaymentStatus, PolledStatus, NormalizeExternalStatus, TransactionStatus

LEMMA IdleType == Idle \in Session
BY DEF Idle, Session, NoReply, Reply, NoRow, Row

LEMMA CallingType ==
    ASSUME NEW op \in {"capture", "cancel"} \cup Reading, NEW k \in Keys, NEW r \in Row
    PROVE  Calling(op, k, r) \in Session
BY IdleType DEF Calling, Session, Reading

LEMMA CaptureSessionType ==
    ASSUME NEW k \in Keys, NEW r \in Row, NEW amount \in 0..Total
    PROVE  CaptureSession(k, r, amount) \in Session
<1>1. Calling("capture", k, r) \in Session
  BY CallingType
<1>2. QED
  BY <1>1 DEF CaptureSession, Session

LEMMA RepliedType ==
    ASSUME sess \in [Sessions -> Session], NEW s \in Sessions, NEW r \in Reply,
           Replied(s, r)
    PROVE  sess' \in [Sessions -> Session]
<1>1. [sess[s] EXCEPT !.pc = "replied", !.reply = r] \in Session
  BY DEF Session
<1>2. sess' = [sess EXCEPT ![s] = [sess[s] EXCEPT !.pc = "replied", !.reply = r]]
  BY DEF Replied
<1>3. QED
  BY <1>1, <1>2

LEMMA ReplyTypes ==
    /\ NoReply \in Reply
    /\ \A ok \in BOOLEAN : [NoReply EXCEPT !.ok = ok] \in Reply
    /\ \A state \in GatewayState, n \in 0..Total :
          [ok |-> TRUE, state |-> state, captured |-> n] \in Reply
BY DEF NoReply, Reply

LEMMA OpenedType ==
    ASSUME intent \in [Intents -> Intent], NEW i \in Intents, NEW k \in Keys,
           NEW p \in PaymentProvider \cup {"none"}, NEW st \in GatewayState
    PROVE  Opened(i, k, p, st) \in [Intents -> Intent]
BY DEF Opened, Intent

LEMMA SettlesType ==
    ASSUME intent \in [Intents -> Intent], NEW i \in Intents, GatewaySettles(i)
    PROVE  intent' \in [Intents -> Intent]
BY DEF GatewaySettles, Intent, GatewayState

\* Both outcomes of a cancellation's first step.
LEMMA CancelPaymentType ==
    ASSUME TypeOK, NEW s \in Sessions, NEW k \in Keys, NEW r \in Row,
           CancelPayment(s, k, r)
    PROVE  TypeOK'
<1>1. CASE r.gw = NoIntent
  BY <1>1, IdleType DEF CancelPayment, TypeOK, StoreTypeOK, Row, TransactionStatus
<1>2. CASE r.gw # NoIntent
  <2>1. Calling("cancel", k, r) \in Session
    BY CallingType
  <2>2. QED
    BY <1>2, <2>1 DEF CancelPayment, TypeOK, StoreTypeOK
<1>3. QED
  BY <1>1, <1>2

LEMMA SynchronizedType ==
    ASSUME TypeOK, NEW s \in Sessions, NEW status \in TransactionStatus,
           NEW withAmount \in BOOLEAN, sess[s].key \in Keys
    PROVE  Synchronized(s, status, withAmount) \in [Keys -> Row]
<1> DEFINE k == sess[s].key
           copy == sess[s].copy
           written == Written(row[k].status, copy.status, status)
           amount == IF withAmount /\ copy.provider = "stripe"
                       THEN Written(row[k].captured, copy.captured, sess[s].reply.captured)
                       ELSE row[k].captured
<1>1. row[k] \in Row /\ row \in [Keys -> Row]
  BY DEF TypeOK, StoreTypeOK
<1>2. written \in TransactionStatus \cup {"absent"}
  BY <1>1 DEF Written, Row
<1>3. sess[s].reply.captured \in 0..Total
  BY DEF TypeOK, Session, Reply
<1>4. amount \in 0..Total
  BY <1>1, <1>3 DEF Written, Row
<1>5. Synchronized(s, status, withAmount) =
        [row EXCEPT ![k] = [row[k] EXCEPT !.status = written, !.captured = amount]]
  BY DEF Synchronized, ReportsCaptured
<1> HIDE DEF k, copy, written, amount
<1>6. [row[k] EXCEPT !.status = written, !.captured = amount] \in Row
  BY <1>1, <1>2, <1>4 DEF Row
<1>7. QED
  BY <1>1, <1>5, <1>6

----------------------------------------------------------------------------
(* The type invariant                                                      *)

\* The initial state satisfies the invariant: nothing has happened.
LEMMA InitIInv == Init => IInv
<1> SUFFICES ASSUME Init PROVE IInv
  OBVIOUS
<1>1. TypeOK
  BY IdleType DEF Init, StoreInit, TypeOK, StoreTypeOK, NoRow, Row, UnusedIntent, Intent
<1>2. \A s \in Sessions : CopyInv(s) /\ HolderInv(s)
  BY DEF Init, CopyInv, HolderInv, AtWork, Holds, Idle
<1>3. \A k \in Keys : RowInv(k)
  BY DEF Init, StoreInit, NoRow, RowInv
<1>4. ChargesAreRecorded
  BY DEF Init, StoreInit, ChargesAreRecorded, Known, UnusedIntent
<1>5. \A i \in Intents : IntentInv(i)
  BY DEF Init, StoreInit, UnusedIntent, IntentInv
<1>6. QED
  BY <1>1, <1>2, <1>3, <1>4, <1>5 DEF IInv, KeyInv

\* A polled payment is one the provider has.
LEMMA CopyIsUsed ==
    ASSUME IInv, NEW s \in Sessions, AtWork(s), sess[s].copy.gw # NoIntent
    PROVE  /\ sess[s].key \in Keys
           /\ sess[s].copy.gw \in Intents
           /\ intent[sess[s].copy.gw] \in Intent
           /\ Known(sess[s].copy.gw)
<1>1. CopyInv(s) /\ sess[s].key \in Keys
  BY DEF IInv, KeyInv, CopyInv, AtWork
<1>2. sess[s].copy.gw = row[sess[s].key].gw /\ RowInv(sess[s].key)
  BY <1>1 DEF IInv, KeyInv, CopyInv
<1>3. row[sess[s].key].gw \in Intents
  BY <1>1, <1>2 DEF IInv, TypeOK, StoreTypeOK, Row
<1>4. QED
  BY <1>1, <1>2, <1>3 DEF RowInv, IInv, TypeOK, StoreTypeOK

LEMMA StatusWritten ==
    ASSUME row \in [Keys -> Row], NEW k, NEW status \in TransactionStatus
    PROVE  [row EXCEPT ![k].status = status] \in [Keys -> Row]
<1>1. CASE k \in Keys
  <2>1. [row[k] EXCEPT !.status = status] \in Row
    BY <1>1 DEF Row
  <2>2. QED
    BY <2>1
<1>2. CASE k \notin Keys
  BY <1>2
<1>3. QED
  BY <1>1, <1>2

\* What FinishCreate commits.
LEMMA CreatedType ==
    ASSUME IInv, NEW s \in Sessions, At(s, "replied", Creating)
    PROVE  LET pending == sess[s].copy
               word == NormalizeCreated(pending.provider, sess[s].reply.state)
           IN  /\ [pending EXCEPT !.status = "failed"] \in Row
               /\ [pending EXCEPT
                     !.status = ResolvePaymentStatus(word, sess[s].requiresCapture),
                     !.gw = sess[s].intent,
                     !.captured = sess[s].reply.captured] \in Row
<1> DEFINE pending == sess[s].copy
           word == NormalizeCreated(pending.provider, sess[s].reply.state)
           status == ResolvePaymentStatus(word, sess[s].requiresCapture)
<1>1. sess[s] \in Session
  BY DEF IInv, TypeOK
<1>2. pending \in Row /\ sess[s].intent \in Intents \cup {NoIntent}
  BY <1>1 DEF Session
<1>3. sess[s].reply.captured \in 0..Total
  BY <1>1 DEF Session, Reply
<1>4. status \in TransactionStatus
  BY <1>1, StatusTypes DEF Session
<1>5. "failed" \in TransactionStatus
  BY DEF TransactionStatus
<1> HIDE DEF pending, status
<1>6. /\ [pending EXCEPT !.status = "failed"] \in Row
      /\ [pending EXCEPT !.status = status, !.gw = sess[s].intent,
                         !.captured = sess[s].reply.captured] \in Row
  BY <1>2, <1>3, <1>4, <1>5 DEF Row
<1>7. QED
  BY <1>6 DEF pending, status

LEMMA TypeOfStep ==
    ASSUME IInv, NEW s \in Sessions, Step(s)
    PROVE  TypeOK'
<1> USE DEF StoreTypeOK
<1>0. /\ row \in [Keys -> Row]
      /\ intent \in [Intents -> Intent]
      /\ sess \in [Sessions -> Session]
      /\ orphan \in SUBSET Intents
      /\ sess[s] \in Session
      /\ CopyInv(s)
  BY DEF IInv, TypeOK, KeyInv
<1>1. CASE Insert(s)
  BY <1>0, <1>1, IdleType DEF Insert, Session, TypeOK
<1>2. CASE GatewayCreates(s)
  <2>1. sess[s].key \in Keys
    BY <1>0, <1>2 DEF GatewayCreates, At, CopyInv
  <2>2. CASE Replied(s, NoReply) /\ UNCHANGED <<row, intent, orphan>>
    BY <1>0, <2>2, RepliedType, ReplyTypes DEF TypeOK
  <2>3. CASE ~(Replied(s, NoReply) /\ UNCHANGED <<row, intent, orphan>>)
    <3>1. PICK i \in Intents, st \in OpeningStates(sess[s].copy.provider) :
             LET answer == [ok |-> TRUE, state |-> st,
                            captured |-> IF st = "succeeded" THEN Total ELSE 0]
             IN  /\ intent' = Opened(i, sess[s].key, sess[s].copy.provider, st)
                 /\ \/ /\ sess' = [sess EXCEPT ![s].pc = "replied",
                                               ![s].intent = i,
                                               ![s].reply = answer]
                       /\ UNCHANGED orphan
                    \/ /\ \E r \in {answer, NoReply} : Replied(s, r)
                       /\ orphan' = orphan \cup {i}
      BY <1>2, <2>3 DEF GatewayCreates
    <3> DEFINE answer == [ok |-> TRUE, state |-> st,
                          captured |-> IF st = "succeeded" THEN Total ELSE 0]
    <3>2. st \in GatewayState
      BY DEF OpeningStates, GatewayState
    <3>3. answer \in Reply
      BY <3>2, ReplyTypes
    <3>4. sess[s].copy.provider \in PaymentProvider \cup {"none"}
      BY <1>0 DEF Session, Row
    <3>5. intent' \in [Intents -> Intent]
      BY <1>0, <2>1, <3>1, <3>2, <3>4, OpenedType
    <3> HIDE DEF answer
    <3>6. [sess[s] EXCEPT !.pc = "replied", !.intent = i, !.reply = answer] \in Session
      BY <1>0, <3>3 DEF Session
    <3>7. \/ sess' = [sess EXCEPT ![s] = [sess[s] EXCEPT !.pc = "replied",
                                                        !.intent = i,
                                                        !.reply = answer]]
          \/ \E r \in Reply : Replied(s, r)
      BY <3>1, <3>3, ReplyTypes DEF answer
    <3>8. sess' \in [Sessions -> Session]
      BY <1>0, <3>6, <3>7, RepliedType
    <3>9. orphan' \in SUBSET Intents
      BY <1>0, <3>1
    <3>10. QED
      BY <1>0, <1>2, <3>5, <3>8, <3>9 DEF GatewayCreates, TypeOK
  <2>4. QED
    BY <2>2, <2>3
<1>3. CASE FinishCreate(s)
  <2>1. sess[s].key \in Keys /\ At(s, "replied", Creating)
    BY <1>0, <1>3 DEF FinishCreate, At, CopyInv
  <2>2. PICK new \in Row :
           /\ row' = [row EXCEPT ![sess[s].key] = new]
           /\ \/ sess' = [sess EXCEPT ![s] = CaptureSession(sess[s].key, new, Total)]
              \/ sess' = [sess EXCEPT ![s] = Idle]
    BY <1>3, <2>1, CreatedType DEF FinishCreate, MarkedFailed
  <2>3. sess' \in [Sessions -> Session]
    BY <1>0, <2>1, <2>2, CaptureSessionType, IdleType
  <2>4. QED
    BY <1>0, <1>3, <2>1, <2>2, <2>3 DEF FinishCreate, TypeOK
<1>4. CASE GatewayCaptures(s)
  <2> DEFINE amount == IF sess[s].copy.provider = "stripe" THEN sess[s].amount ELSE Total
  <2>1. amount \in 0..Total
    BY <1>0 DEF Session
  <2>2. [ok |-> TRUE, state |-> "succeeded", captured |-> amount] \in Reply
    BY <2>1, ReplyTypes DEF GatewayState
  <2>3. \E r \in Reply : Replied(s, r)
    BY <1>4, <2>2, ReplyTypes DEF GatewayCaptures, CapturedBy
  <2>4. \/ intent' = intent
        \/ intent' = [intent EXCEPT ![sess[s].copy.gw].state = "succeeded",
                                    ![sess[s].copy.gw].captured = amount]
    BY <1>4 DEF GatewayCaptures, CapturedBy
  <2> HIDE DEF amount
  <2>5. intent' \in [Intents -> Intent]
    BY <1>0, <2>1, <2>4 DEF Intent, GatewayState
  <2>6. QED
    BY <1>0, <1>4, <2>3, <2>5, RepliedType DEF GatewayCaptures, CapturedBy, TypeOK
<1>5. CASE FinishCapture(s)
  <2> DEFINE k == sess[s].key
  <2>1. k \in Keys /\ sess[s].copy \in Row /\ sess[s].reply.captured \in 0..Total
    BY <1>0, <1>5 DEF FinishCapture, At, CopyInv, Session, Reply
  <2>2. CASE sess[s].reply.ok
    <3> DEFINE captured == Written(row[k].captured, sess[s].copy.captured,
                                   sess[s].reply.captured)
    <3>1. captured \in 0..Total
      BY <1>0, <2>1 DEF Written, Row
    <3>2. row' = [row EXCEPT ![k] = [row[k] EXCEPT !.status = "succeeded",
                                                   !.captured = captured]]
      BY <1>5, <2>2 DEF FinishCapture
    <3> HIDE DEF captured
    <3>3. [row[k] EXCEPT !.status = "succeeded", !.captured = captured] \in Row
      BY <1>0, <2>1, <3>1 DEF Row, TransactionStatus
    <3>4. row' \in [Keys -> Row]
      BY <1>0, <3>2, <3>3
    <3>5. QED
      BY <1>0, <1>5, <2>2, <3>4, IdleType DEF FinishCapture, TypeOK
  <2>3. CASE ~sess[s].reply.ok
    <3>1. row' \in [Keys -> Row]
      <4>1. row' = [row EXCEPT ![k].status = "failed"]
        BY <1>5, <2>3 DEF FinishCapture
      <4>2. "failed" \in TransactionStatus
        BY DEF TransactionStatus
      <4>3. QED
        BY <1>0, <4>1, <4>2, StatusWritten
    <3>2. sess' = [sess EXCEPT ![s] = [sess[s] EXCEPT !.pc = "compensating",
                                                      !.copy = row'[k]]]
      BY <1>5, <2>3 DEF FinishCapture
    <3>3. [sess[s] EXCEPT !.pc = "compensating", !.copy = row'[k]] \in Session
      BY <1>0, <2>1, <3>1 DEF Session
    <3>4. QED
      BY <1>0, <1>5, <3>1, <3>2, <3>3 DEF FinishCapture, TypeOK
  <2>4. QED
    BY <2>2, <2>3
<1>6. CASE Compensate(s)
  <2>1. CASE sess[s].copy.status = "authorized"
    <3>1. sess[s].key \in Keys /\ sess[s].copy \in Row
      BY <1>0, <1>6 DEF Compensate, CopyInv, Session
    <3>2. QED
      BY <1>0, <1>6, <2>1, <3>1, CancelPaymentType DEF Compensate, IInv
  <2>2. CASE sess[s].copy.status # "authorized"
    BY <1>0, <1>6, <2>2, IdleType DEF Compensate, TypeOK
  <2>3. QED
    BY <2>1, <2>2
<1>7. CASE GatewayCancels(s)
  <2>1. \E r \in Reply : Replied(s, r)
    BY <1>7, ReplyTypes DEF GatewayCancels
  <2>2. sess' \in [Sessions -> Session]
    BY <1>0, <2>1, RepliedType
  <2>3. intent' \in [Intents -> Intent]
    BY <1>0, <1>7 DEF GatewayCancels, Intent, GatewayState
  <2>4. QED
    BY <1>0, <1>7, <2>2, <2>3 DEF GatewayCancels, TypeOK
<1>8. CASE FinishCancel(s)
  <2>1. row' \in [Keys -> Row]
    BY <1>0, <1>8, StatusWritten DEF FinishCancel, TransactionStatus
  <2>2. QED
    BY <1>0, <1>8, <2>1, IdleType DEF FinishCancel, TypeOK
<1>9. CASE GatewayReads(s)
  <2>1. \E r \in Reply : Replied(s, r)
    <3>1. CASE sess[s].copy.gw # NoIntent
      <4>1. AtWork(s)
        BY <1>9 DEF GatewayReads, At, AtWork, Holds, Reading, Creating
      <4>2. intent[sess[s].copy.gw].state \in GatewayState
        BY <3>1, <4>1, CopyIsUsed DEF Intent, Known
      <4>3. intent[sess[s].copy.gw].captured \in 0..Total
        BY <3>1, <4>1, CopyIsUsed DEF Intent
      <4>4. QED
        BY <1>9, <3>1, <4>2, <4>3, ReplyTypes DEF GatewayReads
    <3>2. CASE sess[s].copy.gw = NoIntent
      BY <1>9, <3>2, ReplyTypes DEF GatewayReads
    <3>3. QED
      BY <3>1, <3>2
  <2>2. QED
    BY <1>0, <1>9, <2>1, RepliedType DEF GatewayReads, TypeOK
<1>10. CASE FinishProcess(s)
  <2>1. sess[s].key \in Keys
    BY <1>0, <1>10 DEF FinishProcess, At, CopyInv
  <2>2. row' \in [Keys -> Row]
    BY <1>0, <1>10, <2>1, StatusTypes, SynchronizedType DEF FinishProcess, IInv
  <2>3. QED
    BY <1>0, <1>10, <2>2, IdleType DEF FinishProcess, TypeOK
<1>11. CASE FinishReconcile(s)
  <2>1. sess[s].key \in Keys
    BY <1>0, <1>11 DEF FinishReconcile, At, CopyInv
  <2>2. row' \in [Keys -> Row]
    BY <1>0, <1>11, <2>1, StatusTypes, SynchronizedType DEF FinishReconcile, IInv
  <2>3. QED
    BY <1>0, <1>11, <2>2, IdleType DEF FinishReconcile, TypeOK
<1>12. QED
  BY <1>1, <1>2, <1>3, <1>4, <1>5, <1>6, <1>7, <1>8, <1>9, <1>10, <1>11 DEF Step

LEMMA TypeOfBegin ==
    ASSUME IInv, NEW s \in Sessions, NEW k \in Keys, Begin(s, k)
    PROVE  TypeOK'
<1>0. /\ sess \in [Sessions -> Session]
      /\ row[k] \in Row
      /\ TypeOK
  BY DEF IInv, TypeOK, StoreTypeOK
<1>1. ASSUME NEW op \in Creating, NEW provider \in PaymentProvider,
             NEW requiresCapture \in BOOLEAN, BeginCreate(s, k, op, provider, requiresCapture)
      PROVE  TypeOK'
  <2> DEFINE pending == [NoRow EXCEPT !.status = "pending", !.provider = provider]
         begun == [Idle EXCEPT !.pc = "checked", !.op = op, !.key = k,
                               !.requiresCapture = requiresCapture, !.copy = pending]
  <2>1. sess' = [sess EXCEPT ![s] = begun] /\ UNCHANGED <<row, intent, orphan>>
    BY <1>1 DEF BeginCreate
  <2>2. pending \in Row
    <3>1. NoRow \in Row
      BY DEF NoRow, Row
    <3>2. "pending" \in TransactionStatus
      BY DEF TransactionStatus
    <3>3. QED
      BY <3>1, <3>2 DEF Row
  <2> HIDE DEF pending
  <2>3. begun \in Session
    BY <2>2, IdleType DEF Session
  <2> HIDE DEF begun
  <2>4. QED
    BY <1>0, <2>1, <2>3 DEF TypeOK, StoreTypeOK
<1>2. ASSUME NEW amount \in 1..Total, BeginCapture(s, k, amount)
      PROVE  TypeOK'
  <2>1. CaptureSession(k, row[k], amount) \in Session
    BY <1>0, CaptureSessionType
  <2>2. QED
    BY <1>0, <1>2, <2>1 DEF BeginCapture, TypeOK, StoreTypeOK
<1>3. CASE BeginCancel(s, k)
  BY <1>0, <1>3, CancelPaymentType DEF BeginCancel
<1>4. CASE BeginProcess(s, k)
  <2>1. Calling("process", k, row[k]) \in Session
    BY <1>0, CallingType DEF Reading
  <2>2. QED
    BY <1>0, <1>4, <2>1 DEF BeginProcess, TypeOK, StoreTypeOK
<1>5. CASE BeginReconcile(s, k)
  <2>1. Calling("reconcile", k, row[k]) \in Session
    BY <1>0, CallingType DEF Reading
  <2>2. QED
    BY <1>0, <1>5, <2>1 DEF BeginReconcile, TypeOK, StoreTypeOK
<1>6. QED
  BY <1>1, <1>2, <1>3, <1>4, <1>5 DEF Begin

LEMMA TypeOfNext ==
    ASSUME IInv, [Next]_vars
    PROVE  TypeOK'
<1>0. TypeOK
  BY DEF IInv
<1>1. ASSUME NEW s \in Sessions, Crash(s)
      PROVE  TypeOK'
  <2>1. sess[s].intent \in Intents \cup {NoIntent}
    BY <1>0 DEF TypeOK, Session
  <2>2. QED
    BY <1>0, <1>1, <2>1, IdleType DEF Crash, TypeOK, StoreTypeOK
<1>2. ASSUME NEW i \in Intents, Settle(i)
      PROVE  TypeOK'
  <2>1. intent' \in [Intents -> Intent]
    BY <1>0, <1>2, SettlesType DEF Settle, TypeOK, StoreTypeOK
  <2>2. QED
    BY <1>0, <1>2, <2>1 DEF Settle, GatewaySettles, TypeOK, StoreTypeOK
<1>3. CASE UNCHANGED vars
  BY <1>0, <1>3 DEF vars, TypeOK, StoreTypeOK
<1>4. QED
  BY <1>1, <1>2, <1>3, TypeOfStep, TypeOfBegin DEF Next

----------------------------------------------------------------------------
(* Keys, rows and payments                                                 *)

\* The rows keep their provider ids, and none appears or disappears.
KeepsRows ==
    \A k \in Keys : row'[k].gw = row[k].gw /\ (Exists(k)' <=> Exists(k))

\* The provider's payments change their state at most.
KeepsIntents ==
    \A i \in Intents : /\ intent'[i].key = intent[i].key
                       /\ intent'[i].state = "unused" <=> intent[i].state = "unused"

\* A step of session s that leaves the keys as they are: most steps do.
Quiet(s) ==
    /\ KeepsRows
    /\ KeepsIntents
    /\ orphan' = orphan
    /\ \A t \in Sessions \ {s} : sess'[t] = sess[t]
    /\ ~Holds(s) /\ ~Holds(s)'
    /\ sess'[s].intent = NoIntent
    /\ sess'[s].pc = "checked" => sess'[s].copy.gw = NoIntent

LEMMA QuietPreserves ==
    ASSUME IInv, NEW s \in Sessions, Quiet(s), CopyInv(s)'
    PROVE  KeyInv'
<1>0. KeyInv /\ TypeOK
  BY DEF IInv
<1>1. \A t \in Sessions \ {s} : sess'[t] = sess[t] /\ sess[t].key = sess'[t].key
  BY DEF Quiet
<1>2. \A i \in Intents : Known(i)' <=> Known(i)
  BY DEF Quiet, KeepsIntents, Known
<1>3. \A t \in Sessions : Holds(t)' <=> Holds(t)
  BY <1>1 DEF Quiet, Holds
<1>4. ASSUME NEW t \in Sessions \ {s}
      PROVE  CopyInv(t)'
  BY <1>0, <1>1, <1>3 DEF KeyInv, CopyInv, AtWork, Quiet, KeepsRows
<1>5. ASSUME NEW t \in Sessions
      PROVE  HolderInv(t)'
  <2>1. /\ (sess[t].pc = "checked" \/ Holds(t) => sess[t].copy.gw = NoIntent)'
        /\ (Holds(t) => ~Exists(sess[t].key))'
    BY <1>0, <1>1, <1>3 DEF KeyInv, HolderInv, CopyInv, Quiet, KeepsRows, Holds
  <2>2. (\A u \in Sessions : Holds(t) /\ Holds(u) /\ sess[t].key = sess[u].key => t = u)'
    BY <1>0, <1>1, <1>3 DEF KeyInv, HolderInv, Quiet
  <2>3. (sess[t].intent # NoIntent =>
           /\ Holds(t)
           /\ sess[t].pc = "replied"
           /\ sess[t].reply.ok
           /\ Known(sess[t].intent)
           /\ intent[sess[t].intent].key = sess[t].key)'
    <3>1. t # s \/ sess'[t].intent = NoIntent
      BY DEF Quiet
    <3>2. CASE t # s
      <4>1. sess'[t] = sess[t] /\ sess[t].intent \in Intents \cup {NoIntent}
        BY <1>0, <1>1, <3>2 DEF TypeOK, Session
      <4>2. QED
        BY <1>0, <1>2, <1>3, <4>1 DEF KeyInv, HolderInv, Quiet, KeepsIntents
    <3>3. QED
      BY <3>1, <3>2
  <2>4. QED
    BY <2>1, <2>2, <2>3 DEF HolderInv
<1>6. ASSUME NEW k \in Keys
      PROVE  RowInv(k)'
  <2>1. row'[k].gw = row[k].gw /\ row[k].gw \in Intents \cup {NoIntent}
    BY <1>0 DEF Quiet, KeepsRows, TypeOK, StoreTypeOK, Row
  <2>2. QED
    BY <1>0, <1>2, <2>1 DEF KeyInv, RowInv, Quiet, KeepsRows, KeepsIntents
<1>7. ChargesAreRecorded'
  <2> SUFFICES ASSUME NEW i \in Intents, Known(i)'
               PROVE  \/ row'[intent'[i].key].gw = i
                      \/ \E t \in Sessions : /\ Holds(t)'
                                             /\ sess'[t].key = intent'[i].key
                                             /\ sess'[t].intent = i
    BY DEF ChargesAreRecorded
  <2>1. Known(i) /\ intent'[i].key = intent[i].key
    BY <1>2 DEF Quiet, KeepsIntents
  <2>2. CASE row[intent[i].key].gw = i
    <3>1. intent[i].key \in Keys
      BY <1>0, <2>1 DEF KeyInv, IntentInv, Known
    <3>2. QED
      BY <2>1, <2>2, <3>1 DEF Quiet, KeepsRows
  <2>3. ASSUME NEW t \in Sessions, Holds(t), sess[t].key = intent[i].key, sess[t].intent = i
        PROVE  Holds(t)' /\ sess'[t].key = intent'[i].key /\ sess'[t].intent = i
    BY <1>1, <1>3, <2>1, <2>3 DEF Quiet
  <2>4. QED
    BY <1>0, <2>1, <2>2, <2>3 DEF KeyInv, ChargesAreRecorded
<1>8. (\A i \in Intents : IntentInv(i))'
  BY <1>0 DEF KeyInv, IntentInv, Quiet, KeepsIntents
<1>9. QED
  BY <1>4, <1>5, <1>6, <1>7, <1>8 DEF KeyInv

\* A payment that was opened may change its state and its amount.
LEMMA IntentChange ==
    ASSUME intent \in [Intents -> Intent], NEW i, NEW st \in GatewayState, NEW n,
           i \in Intents => intent[i].state # "unused",
           \/ intent' = [intent EXCEPT ![i].state = st]
           \/ intent' = [intent EXCEPT ![i].state = st, ![i].captured = n]
    PROVE  KeepsIntents
BY DEF KeepsIntents, Intent, GatewayState

LEMMA IdleIsQuiet ==
    ASSUME NEW s \in Sessions, sess \in [Sessions -> Session],
           sess' = [sess EXCEPT ![s] = Idle]
    PROVE  /\ ~Holds(s)'
           /\ sess'[s].intent = NoIntent
           /\ sess'[s].pc # "checked"
           /\ CopyInv(s)'
           /\ \A t \in Sessions \ {s} : sess'[t] = sess[t]
BY DEF Idle, Holds, CopyInv, AtWork

\* A session that works on a row holds no insert and has no new payment.
LEMMA AtWorkHoldsNothing ==
    ASSUME IInv, NEW s \in Sessions, ~Holds(s)
    PROVE  sess[s].intent = NoIntent
BY DEF IInv, KeyInv, HolderInv

LEMMA RepliedIsQuiet ==
    ASSUME IInv, NEW s \in Sessions, AtWork(s), sess[s].pc = "calling",
           NEW r, Replied(s, r), UNCHANGED <<row, orphan>>, KeepsIntents
    PROVE  Quiet(s) /\ CopyInv(s)'
<1>0. sess \in [Sessions -> Session] /\ sess[s].intent = NoIntent /\ CopyInv(s)
  BY AtWorkHoldsNothing DEF IInv, KeyInv, TypeOK, AtWork
<1>1. /\ sess'[s].key = sess[s].key
      /\ sess'[s].pc = "replied"
      /\ sess'[s].op = sess[s].op
      /\ sess'[s].copy = sess[s].copy
      /\ sess'[s].intent = sess[s].intent
      /\ \A t \in Sessions \ {s} : sess'[t] = sess[t]
  BY <1>0 DEF Replied, Session
<1>2. ~Holds(s)'
  BY <1>1 DEF AtWork, Holds
<1>3. KeepsRows
  BY DEF KeepsRows, Exists
<1>4. QED
  BY <1>0, <1>1, <1>2, <1>3 DEF Quiet, CopyInv, AtWork, Exists

LEMMA CancelPaymentIsQuiet ==
    ASSUME IInv, NEW s \in Sessions, ~Holds(s), NEW k \in Keys, NEW r,
           r.gw = row[k].gw, Exists(k), CancelPayment(s, k, r)
    PROVE  Quiet(s) /\ CopyInv(s)'
<1>0. sess \in [Sessions -> Session] /\ row \in [Keys -> Row] /\ row[k] \in Row
  BY DEF IInv, TypeOK, StoreTypeOK
<1>1. KeepsIntents /\ orphan' = orphan
  BY DEF CancelPayment, KeepsIntents
<1>2. KeepsRows
  BY <1>0 DEF CancelPayment, KeepsRows, Exists, Row
<1>3. CASE r.gw = NoIntent
  <2>1. sess' = [sess EXCEPT ![s] = Idle]
    BY <1>3 DEF CancelPayment
  <2>2. QED
    BY <1>0, <1>1, <1>2, <2>1, IdleIsQuiet DEF Quiet
<1>4. CASE r.gw # NoIntent
  <2>1. sess' = [sess EXCEPT ![s] = Calling("cancel", k, r)] /\ row' = row
    BY <1>4 DEF CancelPayment
  <2>2. /\ sess'[s].op = "cancel"
        /\ sess'[s].pc = "calling"
        /\ sess'[s].key = k
        /\ sess'[s].copy = r
        /\ sess'[s].intent = NoIntent
        /\ \A t \in Sessions \ {s} : sess'[t] = sess[t]
    BY <1>0, <2>1 DEF Calling, Idle
  <2>3. ~Holds(s)'
    BY <2>2 DEF Holds, Creating
  <2>4. QED
    BY <1>1, <1>2, <2>1, <2>2, <2>3 DEF Quiet, CopyInv, Exists
<1>5. QED
  BY <1>3, <1>4

LEMMA SynchronizedIsQuiet ==
    ASSUME IInv, NEW s \in Sessions, AtWork(s), NEW status \in TransactionStatus,
           NEW withAmount,
           \/ row' = row
           \/ row' = Synchronized(s, status, withAmount)
    PROVE  KeepsRows
<1> DEFINE k == sess[s].key
<1>1. k \in Keys /\ Exists(k) /\ row \in [Keys -> Row]
  BY DEF IInv, KeyInv, CopyInv, AtWork, TypeOK, StoreTypeOK
<1>2. CASE row' = row
  BY <1>2 DEF KeepsRows, Exists
<1>3. CASE row' = Synchronized(s, status, withAmount)
  <2>1. \A j \in Keys \ {k} : row'[j] = row[j]
    BY <1>1, <1>3 DEF Synchronized
  <2>2. row'[k].gw = row[k].gw /\ row'[k].status \in {row[k].status, status}
    BY <1>1, <1>3 DEF Synchronized, Written, Row
  <2>3. status # "absent"
    BY DEF TransactionStatus
  <2>4. QED
    BY <1>1, <2>1, <2>2, <2>3 DEF KeepsRows, Exists
<1>4. QED
  BY <1>2, <1>3

\* The steps that leave the keys alone are all but three.
LEMMA QuietSteps ==
    ASSUME IInv, NEW s \in Sessions, Step(s), ~Holds(s), ~Holds(s)'
    PROVE  Quiet(s) /\ CopyInv(s)'
<1>0. /\ sess \in [Sessions -> Session]
      /\ row \in [Keys -> Row]
      /\ intent \in [Intents -> Intent]
      /\ CopyInv(s)
      /\ sess[s].intent = NoIntent
  BY AtWorkHoldsNothing DEF IInv, KeyInv, TypeOK, StoreTypeOK
<1>1. AtWork(s) => /\ sess[s].key \in Keys
                  /\ Exists(sess[s].key)
                  /\ sess[s].copy.gw = row[sess[s].key].gw
  BY <1>0 DEF CopyInv, AtWork
<1>2. row' = row => KeepsRows
  BY DEF KeepsRows, Exists
<1>3. intent' = intent => KeepsIntents
  BY DEF KeepsIntents
<1>4. CASE Insert(s)
  <2>1. CASE sess' = [sess EXCEPT ![s] = Idle]
    BY <1>0, <1>2, <1>3, <1>4, <2>1, IdleIsQuiet DEF Insert, Quiet
  <2>2. CASE sess' = [sess EXCEPT ![s].pc = "calling"]
    BY <1>0, <1>4, <2>2 DEF Insert, At, Holds, Session
  <2>3. QED
    BY <1>4, <2>1, <2>2 DEF Insert
<1>5. CASE GatewayCreates(s) \/ FinishCreate(s)
  BY <1>5 DEF GatewayCreates, FinishCreate, At, Holds
<1>6. CASE GatewayCaptures(s)
  <2>1. AtWork(s) /\ sess[s].pc = "calling"
    BY <1>6 DEF GatewayCaptures, CapturedBy, At, AtWork
  <2>2. PICK r : Replied(s, r)
    BY <1>6 DEF GatewayCaptures, CapturedBy
  <2>3. KeepsIntents
    <3>1. CASE intent' = intent
      BY <1>3, <3>1
    <3>2. CASE intent' # intent
      <4>1. MayCapture(sess[s].copy.gw)
        BY <1>6, <3>2 DEF GatewayCaptures, CapturedBy
      <4>2. PICK n : intent' = [intent EXCEPT ![sess[s].copy.gw].state = "succeeded",
                                             ![sess[s].copy.gw].captured = n]
        BY <1>6, <3>2 DEF GatewayCaptures, CapturedBy
      <4>3. "succeeded" \in GatewayState
        BY DEF GatewayState
      <4>4. QED
        BY <1>0, <4>1, <4>2, <4>3, IntentChange DEF MayCapture
    <3>3. QED
      BY <3>1, <3>2
  <2>4. QED
    BY <1>6, <2>1, <2>2, <2>3, RepliedIsQuiet DEF GatewayCaptures, CapturedBy
<1>7. CASE FinishCapture(s)
  <2> DEFINE k == sess[s].key
  <2>1. AtWork(s) /\ KeepsIntents /\ orphan' = orphan
    BY <1>3, <1>7 DEF FinishCapture, At, AtWork
  <2>2. /\ \A j \in Keys \ {k} : row'[j] = row[j]
        /\ row'[k].gw = row[k].gw
        /\ row'[k].status \in {"succeeded", "failed"}
    BY <1>0, <1>1, <1>7, <2>1 DEF FinishCapture, Row
  <2>3. KeepsRows
    BY <1>1, <2>1, <2>2 DEF KeepsRows, Exists
  <2>4. CASE sess[s].reply.ok
    <3>1. sess' = [sess EXCEPT ![s] = Idle]
      BY <1>7, <2>4 DEF FinishCapture
    <3>2. QED
      BY <1>0, <2>1, <2>3, <3>1, IdleIsQuiet DEF Quiet
  <2>5. CASE ~sess[s].reply.ok
    <3>1. /\ sess'[s].key = k
          /\ sess'[s].pc = "compensating"
          /\ sess'[s].intent = NoIntent
          /\ sess'[s].copy = row'[k]
          /\ \A t \in Sessions \ {s} : sess'[t] = sess[t]
      BY <1>0, <1>7, <2>5 DEF FinishCapture, Session
    <3>2. QED
      BY <1>1, <2>1, <2>2, <2>3, <3>1 DEF Quiet, CopyInv, KeepsRows
  <2>6. QED
    BY <2>4, <2>5
<1>8. CASE Compensate(s)
  <2>1. AtWork(s)
    BY <1>8 DEF Compensate, AtWork
  <2>2. CASE sess[s].copy.status = "authorized"
    BY <1>1, <1>8, <2>1, <2>2, CancelPaymentIsQuiet DEF Compensate
  <2>3. CASE sess[s].copy.status # "authorized"
    BY <1>0, <1>2, <1>3, <1>8, <2>3, IdleIsQuiet DEF Compensate, Quiet
  <2>4. QED
    BY <2>2, <2>3
<1>9. CASE GatewayCancels(s)
  <2>1. AtWork(s) /\ sess[s].pc = "calling"
    BY <1>9 DEF GatewayCancels, At, AtWork
  <2>2. PICK r : Replied(s, r)
    BY <1>9 DEF GatewayCancels
  <2>3. KeepsIntents
    BY <1>0, <1>3, <1>9, IntentChange DEF GatewayCancels, MayCancel, GatewayState
  <2>4. QED
    BY <1>9, <2>1, <2>2, <2>3, RepliedIsQuiet DEF GatewayCancels
<1>10. CASE FinishCancel(s)
  <2>1. AtWork(s)
    BY <1>10 DEF FinishCancel, At, AtWork
  <2>2. KeepsRows
    BY <1>0, <1>1, <1>2, <1>10, <2>1 DEF FinishCancel, KeepsRows, Exists, Row
  <2>3. QED
    BY <1>0, <1>3, <1>10, <2>2, IdleIsQuiet DEF FinishCancel, Quiet
<1>11. CASE GatewayReads(s)
  <2>1. AtWork(s) /\ sess[s].pc = "calling"
    BY <1>11 DEF GatewayReads, At, AtWork
  <2>2. PICK r : Replied(s, r)
    BY <1>11 DEF GatewayReads
  <2>3. QED
    BY <1>3, <1>11, <2>1, <2>2, RepliedIsQuiet DEF GatewayReads
<1>12. CASE FinishProcess(s)
  <2>1. AtWork(s)
    BY <1>12 DEF FinishProcess, At, AtWork
  <2>2. PolledStatus(sess[s].reply.state) \in TransactionStatus
    BY StatusTypes
  <2>3. KeepsRows
    BY <1>12, <2>1, <2>2, SynchronizedIsQuiet DEF FinishProcess
  <2>4. QED
    BY <1>0, <1>3, <1>12, <2>3, IdleIsQuiet DEF FinishProcess, Quiet
<1>13. CASE FinishReconcile(s)
  <2>1. AtWork(s)
    BY <1>13 DEF FinishReconcile, At, AtWork
  <2>2. NormalizeExternalStatus(sess[s].reply.state) \in TransactionStatus
    BY StatusTypes
  <2>3. KeepsRows
    BY <1>13, <2>1, <2>2, SynchronizedIsQuiet DEF FinishReconcile
  <2>4. QED
    BY <1>0, <1>3, <1>13, <2>3, IdleIsQuiet DEF FinishReconcile, Quiet
<1>14. QED
  BY <1>4, <1>5, <1>6, <1>7, <1>8, <1>9, <1>10, <1>11, <1>12, <1>13 DEF Step

\* So does a request that begins.
LEMMA QuietBegins ==
    ASSUME IInv, NEW s \in Sessions, NEW k \in Keys, Begin(s, k)
    PROVE  Quiet(s) /\ CopyInv(s)'
<1>0. /\ sess \in [Sessions -> Session]
      /\ sess[s].pc = "idle"
      /\ ~Holds(s)
  BY DEF IInv, TypeOK, Begin, BeginCreate, BeginCapture, BeginCancel, BeginProcess,
         BeginReconcile, Holds
<1>1. row' = row => KeepsRows
  BY DEF KeepsRows, Exists
<1>2. intent' = intent => KeepsIntents
  BY DEF KeepsIntents
<1>3. ASSUME NEW op \in Creating, NEW provider \in PaymentProvider,
             NEW requiresCapture \in BOOLEAN, BeginCreate(s, k, op, provider, requiresCapture)
      PROVE  Quiet(s) /\ CopyInv(s)'
  <2>1. /\ sess'[s].pc = "checked"
        /\ sess'[s].key = k
        /\ sess'[s].intent = NoIntent
        /\ sess'[s].copy.gw = NoIntent
        /\ \A t \in Sessions \ {s} : sess'[t] = sess[t]
    BY <1>0, <1>3 DEF BeginCreate, Idle, NoRow
  <2>2. QED
    BY <1>0, <1>1, <1>2, <1>3, <2>1 DEF BeginCreate, Quiet, Holds, CopyInv, AtWork
<1>4. ASSUME NEW op \in {"capture"} \cup Reading, NEW c, Exists(k),
             \/ c = Calling(op, k, row[k])
             \/ op = "capture" /\ \E amount \in 1..Total : c = CaptureSession(k, row[k], amount),
             sess' = [sess EXCEPT ![s] = c], UNCHANGED <<row, intent, orphan>>
      PROVE  Quiet(s) /\ CopyInv(s)'
  <2>1. /\ c.op = op
        /\ c.pc # "checked"
        /\ c.key = k
        /\ c.copy = row[k]
        /\ c.intent = NoIntent
    BY <1>4 DEF CaptureSession, Calling, Idle
  <2>2. sess'[s] = c /\ \A t \in Sessions \ {s} : sess'[t] = sess[t]
    BY <1>0, <1>4
  <2>3. ~Holds(s)'
    BY <2>1, <2>2 DEF Holds, Creating, Reading
  <2>4. QED
    BY <1>0, <1>1, <1>2, <1>4, <2>1, <2>2, <2>3 DEF Quiet, CopyInv, Exists
<1>5. ASSUME NEW amount \in 1..Total, BeginCapture(s, k, amount)
      PROVE  Quiet(s) /\ CopyInv(s)'
  BY <1>4, <1>5 DEF BeginCapture, Exists
<1>6. CASE BeginCancel(s, k)
  BY <1>0, <1>6, CancelPaymentIsQuiet DEF BeginCancel, Exists, Cancellable
<1>7. CASE BeginProcess(s, k)
  BY <1>4, <1>7 DEF BeginProcess, Reading
<1>8. CASE BeginReconcile(s, k)
  BY <1>4, <1>8 DEF BeginReconcile, Reading, IInv, KeyInv, RowInv
<1>9. QED
  BY <1>3, <1>5, <1>6, <1>7, <1>8 DEF Begin

\* What a step that writes neither rows nor payments leaves to show, when
\* session s changes and the payments forgotten grow by G.
LEMMA HolderStep ==
    ASSUME IInv, NEW s \in Sessions, NEW G,
           UNCHANGED <<row, intent>>,
           \A t \in Sessions \ {s} : sess'[t] = sess[t],
           orphan' = orphan \cup G,
           \A i \in G \cap Intents : intent[i].state # "unused",
           \A i \in G \cap Intents : \A k \in Keys : row[k].gw # i,
           \A i \in G \cap Intents : \A t \in Sessions \ {s} : sess[t].intent # i,
           CopyInv(s)', HolderInv(s)',
           Holds(s)' => \A t \in Sessions \ {s} : ~(Holds(t) /\ sess[t].key = sess'[s].key),
           \A i \in Intents \ G : sess[s].intent = i /\ Holds(s) =>
               sess'[s].intent = i /\ Holds(s)' /\ sess'[s].key = sess[s].key
    PROVE  KeyInv'
<1>0. KeyInv /\ TypeOK
  BY DEF IInv
<1>1. \A t \in Sessions \ {s} : Holds(t)' <=> Holds(t)
  BY DEF Holds
<1>2. \A i \in Intents : Known(i)' <=> Known(i) /\ i \notin G
  BY DEF Known
<1>3. ASSUME NEW t \in Sessions
      PROVE  CopyInv(t)' /\ HolderInv(t)'
  <2>1. CASE t = s
    BY <2>1
  <2>2. CASE t # s
    <3>1. sess'[t] = sess[t] /\ sess[t].intent \in Intents \cup {NoIntent}
      BY <1>0, <2>2 DEF TypeOK, Session
    <3>2. CopyInv(t)'
      BY <1>0, <1>1, <2>2, <3>1 DEF KeyInv, CopyInv, AtWork, Exists
    <3>3. /\ (sess[t].pc = "checked" \/ Holds(t) => sess[t].copy.gw = NoIntent)'
          /\ (Holds(t) => ~Exists(sess[t].key))'
      BY <1>0, <1>1, <2>2, <3>1 DEF KeyInv, HolderInv, Exists
    <3>4. (\A u \in Sessions : Holds(t) /\ Holds(u) /\ sess[t].key = sess[u].key => t = u)'
      BY <1>0, <1>1, <2>2, <3>1 DEF KeyInv, HolderInv
    <3>5. (sess[t].intent # NoIntent =>
             /\ Holds(t)
             /\ sess[t].pc = "replied"
             /\ sess[t].reply.ok
             /\ Known(sess[t].intent)
             /\ intent[sess[t].intent].key = sess[t].key)'
      BY <1>0, <1>1, <1>2, <2>2, <3>1 DEF KeyInv, HolderInv
    <3>6. QED
      BY <3>2, <3>3, <3>4, <3>5 DEF HolderInv
  <2>3. QED
    BY <2>1, <2>2
<1>4. ASSUME NEW k \in Keys
      PROVE  RowInv(k)'
  <2>1. row[k].gw \in Intents \cup {NoIntent} /\ row' = row /\ intent' = intent
    BY <1>0 DEF TypeOK, StoreTypeOK, Row
  <2>2. QED
    BY <1>0, <1>2, <2>1 DEF KeyInv, RowInv, Exists
<1>5. ChargesAreRecorded'
  <2> SUFFICES ASSUME NEW i \in Intents, Known(i), i \notin G
               PROVE  \/ row[intent[i].key].gw = i
                      \/ \E t \in Sessions : /\ Holds(t)'
                                             /\ sess'[t].key = intent[i].key
                                             /\ sess'[t].intent = i
    BY <1>2 DEF ChargesAreRecorded
  <2>1. CASE row[intent[i].key].gw = i
    BY <2>1
  <2>2. ASSUME NEW t \in Sessions, Holds(t), sess[t].key = intent[i].key, sess[t].intent = i
        PROVE  Holds(t)' /\ sess'[t].key = intent[i].key /\ sess'[t].intent = i
    BY <1>1, <2>2
  <2>3. QED
    BY <1>0, <2>1, <2>2 DEF KeyInv, ChargesAreRecorded
<1>6. (\A i \in Intents : IntentInv(i))'
  BY <1>0 DEF KeyInv, IntentInv
<1>7. QED
  BY <1>3, <1>4, <1>5, <1>6 DEF KeyInv

\* Only the insert makes a session hold a key.
LEMMA StartsHolding ==
    ASSUME IInv, NEW s \in Sessions, Step(s), ~Holds(s), Holds(s)'
    PROVE  Insert(s)
<1>0. sess[s] \in Session /\ sess \in [Sessions -> Session]
  BY DEF IInv, TypeOK
<1>1. ~(GatewayCreates(s) \/ FinishCreate(s))
  BY DEF GatewayCreates, FinishCreate, At, Holds
<1>2. \A r : Replied(s, r) /\ sess[s].pc = "calling" => ~Holds(s)'
  BY <1>0 DEF Replied, Holds, Session
<1>3. sess' # [sess EXCEPT ![s] = Idle]
  BY <1>0 DEF Idle, Holds
<1>4. \A k, r : CancelPayment(s, k, r) => ~Holds(s)'
  <2> SUFFICES ASSUME NEW k, NEW r, CancelPayment(s, k, r) PROVE ~Holds(s)'
    OBVIOUS
  <2>1. sess'[s] = Idle \/ sess'[s] = Calling("cancel", k, r)
    BY <1>0 DEF CancelPayment
  <2>2. Idle.op = "none" /\ Calling("cancel", k, r).op = "cancel"
    BY DEF Idle, Calling
  <2>3. QED
    BY <2>1, <2>2 DEF Holds, Creating
<1>5. ~FinishCapture(s)
  BY <1>0, <1>3 DEF FinishCapture, Holds, Session
<1>6. ~Compensate(s)
  BY <1>3, <1>4 DEF Compensate
<1>7. ~(GatewayCaptures(s) \/ GatewayCancels(s) \/ GatewayReads(s))
  BY <1>2 DEF GatewayCaptures, CapturedBy, GatewayCancels, GatewayReads, At
<1>8. ~(FinishCancel(s) \/ FinishProcess(s) \/ FinishReconcile(s))
  BY <1>3 DEF FinishCancel, FinishProcess, FinishReconcile
<1>9. QED
  BY <1>1, <1>5, <1>6, <1>7, <1>8 DEF Step

LEMMA InsertKeepsKeys ==
    ASSUME IInv, NEW s \in Sessions, Insert(s), Holds(s)'
    PROVE  KeyInv'
<1>0. KeyInv /\ sess \in [Sessions -> Session] /\ At(s, "checked", Creating)
  BY DEF IInv, TypeOK, Insert
<1>1. ~Holds(s) /\ sess[s].intent = NoIntent /\ sess[s].copy.gw = NoIntent
  BY <1>0, AtWorkHoldsNothing DEF At, Holds, KeyInv, HolderInv
<1>2. ~Exists(sess[s].key) /\ sess' = [sess EXCEPT ![s].pc = "calling"]
  BY <1>0 DEF Insert, Holds, Idle
<1>3. /\ sess'[s].key = sess[s].key
      /\ sess'[s].pc = "calling"
      /\ sess'[s].copy = sess[s].copy
      /\ sess'[s].intent = NoIntent
      /\ \A t \in Sessions \ {s} : sess'[t] = sess[t]
  BY <1>0, <1>1, <1>2 DEF Session
<1>4. \A t \in Sessions : ~(Holds(t) /\ sess[t].key = sess'[s].key)
  BY <1>3 DEF Insert
<1>5. UNCHANGED <<row, intent, orphan>>
  BY DEF Insert
<1>6. CopyInv(s)'
  BY <1>0, <1>3 DEF KeyInv, CopyInv, AtWork, At
<1>7. \A t \in Sessions : Holds(t)' => t = s \/ (Holds(t) /\ sess'[t] = sess[t])
  BY <1>3 DEF Holds
<1>8. HolderInv(s)'
  BY <1>1, <1>2, <1>3, <1>4, <1>5, <1>7 DEF HolderInv, Exists
<1> DEFINE G == {}
<1>9. /\ orphan' = orphan \cup G
      /\ G \cap Intents = {}
      /\ \A i \in Intents \ G : sess[s].intent # i
  BY <1>0, <1>1, <1>5 DEF IInv, TypeOK
<1> HIDE DEF G
<1>10. QED
  BY <1>1, <1>3, <1>4, <1>5, <1>6, <1>8, <1>9, HolderStep

LEMMA CrashKeepsKeys ==
    ASSUME IInv, NEW s \in Sessions, Crash(s)
    PROVE  KeyInv'
<1> DEFINE G == {sess[s].intent} \ {NoIntent}
<1>0. KeyInv /\ sess \in [Sessions -> Session]
  BY DEF IInv, TypeOK
<1>1. /\ ~Holds(s)'
      /\ sess'[s].intent = NoIntent
      /\ sess'[s].pc # "checked"
      /\ CopyInv(s)'
      /\ \A t \in Sessions \ {s} : sess'[t] = sess[t]
  BY <1>0, IdleIsQuiet DEF Crash
<1>2. HolderInv(s)'
  BY <1>1 DEF HolderInv
<1>3. \A i \in G \cap Intents : /\ Holds(s)
                                /\ intent[i].state # "unused"
                                /\ intent[i].key = sess[s].key
                                /\ sess[s].intent = i
  BY <1>0 DEF KeyInv, HolderInv, Known
<1>4. \A i \in G \cap Intents : \A k \in Keys : row[k].gw # i
  BY <1>0, <1>3 DEF KeyInv, HolderInv, RowInv
<1>5. \A i \in G \cap Intents : \A t \in Sessions \ {s} : sess[t].intent # i
  BY <1>0, <1>3 DEF KeyInv, HolderInv
<1>6. \A i \in Intents \ G : sess[s].intent # i
  OBVIOUS
<1>7. UNCHANGED <<row, intent>> /\ orphan' = orphan \cup G
  BY DEF Crash
<1> HIDE DEF G
<1>8. QED
  BY <1>1, <1>2, <1>3, <1>4, <1>5, <1>6, <1>7, HolderStep

LEMMA SettleKeepsKeys ==
    ASSUME IInv, NEW i \in Intents, Settle(i)
    PROVE  KeyInv'
<1>0. KeyInv /\ intent \in [Intents -> Intent] /\ TypeOK
  BY DEF IInv, TypeOK, StoreTypeOK
<1>1. \A j \in Intents : /\ intent'[j].key = intent[j].key
                         /\ intent'[j].state = "unused" <=> intent[j].state = "unused"
  BY <1>0 DEF Settle, GatewaySettles, Intent
<1>2. UNCHANGED <<row, sess, orphan>>
  BY DEF Settle, GatewaySettles
<1>3. \A j \in Intents : Known(j)' <=> Known(j)
  BY <1>1, <1>2 DEF Known
<1>4. ASSUME NEW s \in Sessions
      PROVE  CopyInv(s)' /\ HolderInv(s)'
  <2>1. sess[s].intent \in Intents \cup {NoIntent}
    BY <1>0 DEF TypeOK, Session
  <2>2. QED
    BY <1>0, <1>1, <1>2, <1>3, <2>1 DEF KeyInv, CopyInv, HolderInv, AtWork, Holds, Exists
<1>5. ASSUME NEW k \in Keys
      PROVE  RowInv(k)'
  <2>1. row[k].gw \in Intents \cup {NoIntent}
    BY <1>0 DEF TypeOK, StoreTypeOK, Row
  <2>2. QED
    BY <1>0, <1>1, <1>2, <1>3, <2>1 DEF KeyInv, RowInv, Exists
<1>6. ChargesAreRecorded'
  BY <1>0, <1>1, <1>2, <1>3 DEF KeyInv, ChargesAreRecorded, Holds
<1>7. (\A j \in Intents : IntentInv(j))'
  BY <1>0, <1>1, <1>2 DEF KeyInv, IntentInv
<1>8. QED
  BY <1>4, <1>5, <1>6, <1>7 DEF KeyInv

\* A payment no row and no session has can be opened for session s, which
\* learns its id or does not.
LEMMA OpenedKeepsKeys ==
    ASSUME IInv, NEW s \in Sessions, At(s, "calling", Creating),
           NEW i \in Intents, intent[i].state = "unused", NEW p, NEW st \in GatewayState,
           intent' = Opened(i, sess[s].key, p, st), UNCHANGED row,
           \A t \in Sessions \ {s} : sess'[t] = sess[t],
           sess'[s].pc = "replied",
           sess'[s].op = sess[s].op,
           sess'[s].key = sess[s].key,
           sess'[s].copy = sess[s].copy,
           \/ sess'[s].intent = i /\ sess'[s].reply.ok /\ orphan' = orphan
           \/ sess'[s].intent = NoIntent /\ orphan' = orphan \cup {i}
    PROVE  KeyInv'
<1>0. KeyInv /\ TypeOK /\ sess[s].key \in Keys /\ Holds(s)
  BY DEF IInv, KeyInv, CopyInv, At, Holds
<1>1. /\ intent'[i].key = sess[s].key
      /\ intent'[i].state # "unused"
      /\ \A j \in Intents \ {i} : intent'[j] = intent[j]
  BY <1>0 DEF Opened, TypeOK, StoreTypeOK, GatewayState
<1>2. /\ ~Known(i)
      /\ \A j \in Intents \ {i} : Known(j)' <=> Known(j)
  BY <1>0, <1>1 DEF Known
<1>3. \A t \in Sessions : Holds(t)' <=> Holds(t)
  BY DEF Holds, At
<1>4. \A t \in Sessions : sess[t].intent # i
  BY <1>0, <1>2 DEF KeyInv, HolderInv
<1>5. \A k \in Keys : row[k].gw # i
  BY <1>0, <1>2 DEF KeyInv, RowInv
<1>6. ASSUME NEW t \in Sessions
      PROVE  CopyInv(t)'
  BY <1>0, <1>3 DEF KeyInv, CopyInv, AtWork, Exists
<1>7. ASSUME NEW t \in Sessions
      PROVE  HolderInv(t)'
  <2>1. /\ (sess[t].pc = "checked" \/ Holds(t) => sess[t].copy.gw = NoIntent)'
        /\ (Holds(t) => ~Exists(sess[t].key))'
        /\ (\A u \in Sessions : Holds(t) /\ Holds(u) /\ sess[t].key = sess[u].key => t = u)'
    BY <1>0, <1>3 DEF KeyInv, HolderInv, Exists
  <2>2. (sess[t].intent # NoIntent =>
           /\ Holds(t)
           /\ sess[t].pc = "replied"
           /\ sess[t].reply.ok
           /\ Known(sess[t].intent)
           /\ intent[sess[t].intent].key = sess[t].key)'
    <3>1. CASE t = s
      <4>1. i \notin orphan
        BY <1>0 DEF KeyInv, IntentInv
      <4>2. QED
        BY <1>0, <1>1, <1>3, <3>1, <4>1 DEF Known
    <3>2. CASE t # s
      <4>1. sess'[t] = sess[t] /\ sess[t].intent \in (Intents \ {i}) \cup {NoIntent}
        BY <1>0, <1>4, <3>2 DEF TypeOK, Session
      <4>2. QED
        BY <1>0, <1>1, <1>2, <1>3, <4>1 DEF KeyInv, HolderInv
    <3>3. QED
      BY <3>1, <3>2
  <2>3. QED
    BY <2>1, <2>2 DEF HolderInv
<1>8. ASSUME NEW k \in Keys
      PROVE  RowInv(k)'
  <2>1. row[k].gw \in (Intents \ {i}) \cup {NoIntent} /\ row' = row
    BY <1>0, <1>5 DEF TypeOK, StoreTypeOK, Row
  <2>2. QED
    BY <1>0, <1>1, <1>2, <2>1 DEF KeyInv, RowInv, Exists
<1>9. ChargesAreRecorded'
  <2> SUFFICES ASSUME NEW j \in Intents, Known(j)'
               PROVE  \/ row[intent'[j].key].gw = j
                      \/ \E t \in Sessions : /\ Holds(t)'
                                             /\ sess'[t].key = intent'[j].key
                                             /\ sess'[t].intent = j
    BY DEF ChargesAreRecorded
  <2>1. CASE j = i
    <3>1. sess'[s].intent = i
      BY <2>1 DEF Known
    <3>2. QED
      BY <1>0, <1>1, <1>3, <2>1, <3>1
  <2>2. CASE j # i
    <3>1. Known(j) /\ intent'[j].key = intent[j].key
      BY <1>1, <1>2, <2>2
    <3>2. sess[s].intent # j
      BY <1>0 DEF KeyInv, HolderInv, At
    <3>3. QED
      BY <1>0, <1>3, <3>1, <3>2 DEF KeyInv, ChargesAreRecorded
  <2>3. QED
    BY <2>1, <2>2
<1>10. (\A j \in Intents : IntentInv(j))'
  BY <1>0, <1>1 DEF KeyInv, IntentInv
<1>11. QED
  BY <1>6, <1>7, <1>8, <1>9, <1>10 DEF KeyInv

LEMMA GatewayCreatesKeepsKeys ==
    ASSUME IInv, NEW s \in Sessions, GatewayCreates(s)
    PROVE  KeyInv'
<1>0. /\ KeyInv
      /\ sess \in [Sessions -> Session]
      /\ At(s, "calling", Creating)
      /\ Holds(s)
      /\ sess[s].intent = NoIntent
      /\ UNCHANGED row
  BY DEF IInv, TypeOK, GatewayCreates, At, Holds, KeyInv, HolderInv
<1>1. ASSUME NEW r, Replied(s, r)
      PROVE  /\ sess'[s].pc = "replied"
             /\ sess'[s].op = sess[s].op
             /\ sess'[s].key = sess[s].key
             /\ sess'[s].copy = sess[s].copy
             /\ sess'[s].intent = NoIntent
             /\ \A t \in Sessions \ {s} : sess'[t] = sess[t]
  BY <1>0, <1>1 DEF Replied, Session
<1>2. CASE Replied(s, NoReply) /\ UNCHANGED <<intent, orphan>>
  <2> DEFINE G == {}
  <2>1. /\ orphan' = orphan \cup G
        /\ G \cap Intents = {}
        /\ \A i \in Intents \ G : sess[s].intent # i
    BY <1>0, <1>2
  <2> HIDE DEF G
  <2>2. CopyInv(s)' /\ HolderInv(s)'
    <3>1. \A t \in Sessions : Holds(t)' <=> Holds(t)
      BY <1>0, <1>1, <1>2 DEF Holds, At
    <3>2. \A t \in Sessions : sess'[t].key = sess[t].key
      BY <1>1, <1>2
    <3>3. QED
      BY <1>0, <1>1, <1>2, <3>1, <3>2 DEF KeyInv, CopyInv, HolderInv, AtWork, Exists, At
  <2>3. \A t \in Sessions \ {s} : ~(Holds(t) /\ sess[t].key = sess'[s].key)
    BY <1>0, <1>1, <1>2 DEF KeyInv, HolderInv
  <2>4. QED
    BY <1>0, <1>1, <1>2, <2>1, <2>2, <2>3, HolderStep
<1>3. ASSUME NEW i \in Intents, NEW st \in OpeningStates(sess[s].copy.provider),
             intent[i].state = "unused",
             intent' = Opened(i, sess[s].key, sess[s].copy.provider, st),
             NEW answer, answer.ok,
             \/ /\ sess' = [sess EXCEPT ![s].pc = "replied", ![s].intent = i,
                                        ![s].reply = answer]
                /\ UNCHANGED orphan
             \/ /\ \E r \in {answer, NoReply} : Replied(s, r)
                /\ orphan' = orphan \cup {i}
      PROVE  KeyInv'
  <2>1. st \in GatewayState
    BY DEF OpeningStates, GatewayState
  <2>2. CASE /\ sess' = [sess EXCEPT ![s].pc = "replied", ![s].intent = i,
                                     ![s].reply = answer]
             /\ UNCHANGED orphan
    <3>1. /\ sess'[s].pc = "replied"
          /\ sess'[s].op = sess[s].op
          /\ sess'[s].key = sess[s].key
          /\ sess'[s].copy = sess[s].copy
          /\ sess'[s].intent = i
          /\ sess'[s].reply.ok
          /\ \A t \in Sessions \ {s} : sess'[t] = sess[t]
      BY <1>0, <1>3, <2>2 DEF Session
    <3>2. QED
      BY <1>0, <1>3, <2>1, <2>2, <3>1, OpenedKeepsKeys
  <2>3. CASE /\ \E r \in {answer, NoReply} : Replied(s, r)
             /\ orphan' = orphan \cup {i}
    BY <1>0, <1>1, <1>3, <2>1, <2>3, OpenedKeepsKeys
  <2>4. QED
    BY <1>3, <2>2, <2>3
<1>4. CASE ~(Replied(s, NoReply) /\ UNCHANGED <<intent, orphan>>)
  <2>1. PICK i \in Intents, st \in OpeningStates(sess[s].copy.provider) :
           LET answer == [ok |-> TRUE, state |-> st,
                          captured |-> IF st = "succeeded" THEN Total ELSE 0]
           IN  /\ intent[i].state = "unused"
               /\ intent' = Opened(i, sess[s].key, sess[s].copy.provider, st)
               /\ \/ /\ sess' = [sess EXCEPT ![s].pc = "replied",
                                             ![s].intent = i,
                                             ![s].reply = answer]
                     /\ UNCHANGED orphan
                  \/ /\ \E r \in {answer, NoReply} : Replied(s, r)
                     /\ orphan' = orphan \cup {i}
    BY <1>4 DEF GatewayCreates
  <2> DEFINE answer == [ok |-> TRUE, state |-> st,
                        captured |-> IF st = "succeeded" THEN Total ELSE 0]
  <2>2. answer.ok
    OBVIOUS
  <2>3. /\ intent[i].state = "unused"
        /\ intent' = Opened(i, sess[s].key, sess[s].copy.provider, st)
        /\ \/ /\ sess' = [sess EXCEPT ![s].pc = "replied", ![s].intent = i,
                                      ![s].reply = answer]
              /\ UNCHANGED orphan
           \/ /\ \E r \in {answer, NoReply} : Replied(s, r)
              /\ orphan' = orphan \cup {i}
    BY <2>1
  <2> HIDE DEF answer
  <2>4. QED
    BY <1>3, <2>2, <2>3
<1>5. QED
  BY <1>2, <1>4

\* The commit of a new row: it takes the id over from the session.
LEMMA FinishCreateKeepsKeys ==
    ASSUME IInv, NEW s \in Sessions, FinishCreate(s)
    PROVE  KeyInv'
<1> DEFINE k == sess[s].key
<1>0. /\ KeyInv
      /\ TypeOK
      /\ k \in Keys
      /\ At(s, "replied", Creating)
      /\ Holds(s)
      /\ ~Exists(k)
      /\ sess[s].copy.gw = NoIntent
      /\ sess[s].copy \in Row
      /\ UNCHANGED <<intent, orphan>>
  BY DEF IInv, FinishCreate, At, Holds, KeyInv, HolderInv, CopyInv, TypeOK, Session
<1>1. PICK new \in Row :
         /\ row' = [row EXCEPT ![k] = new]
         /\ new.status # "absent"
         /\ new.gw = sess[s].intent
         /\ \/ sess' = [sess EXCEPT ![s] = CaptureSession(k, new, Total)]
            \/ sess' = [sess EXCEPT ![s] = Idle]
  <2> DEFINE word == NormalizeCreated(sess[s].copy.provider, sess[s].reply.state)
             status == ResolvePaymentStatus(word, sess[s].requiresCapture)
             made == [sess[s].copy EXCEPT !.status = status, !.gw = sess[s].intent,
                                          !.captured = sess[s].reply.captured]
             failed == [sess[s].copy EXCEPT !.status = "failed"]
             new == IF sess[s].reply.ok THEN made ELSE failed
  <2>1. made \in Row /\ failed \in Row
    BY <1>0, CreatedType
  <2>2. status # "absent"
    BY DEF ResolvePaymentStatus
  <2>3. made.status = status /\ made.gw = sess[s].intent
    BY <1>0 DEF Row
  <2>4. failed.status = "failed" /\ failed.gw = NoIntent
    BY <1>0 DEF Row
  <2>5. sess[s].reply.ok \/ sess[s].intent = NoIntent
    BY <1>0 DEF KeyInv, HolderInv
  <2>6. /\ row' = [row EXCEPT ![k] = new]
        /\ \/ sess' = [sess EXCEPT ![s] = CaptureSession(k, new, Total)]
           \/ sess' = [sess EXCEPT ![s] = Idle]
    BY DEF FinishCreate, MarkedFailed
  <2> HIDE DEF made, failed, status, word
  <2>7. QED
    BY <2>1, <2>2, <2>3, <2>4, <2>5, <2>6
<1>2. /\ row'[k] = new
      /\ \A j \in Keys \ {k} : row'[j] = row[j]
  BY <1>0, <1>1 DEF TypeOK, StoreTypeOK
<1>3. /\ ~Holds(s)'
      /\ sess'[s].intent = NoIntent
      /\ sess'[s].pc # "checked"
      /\ \A t \in Sessions \ {s} : sess'[t] = sess[t]
      /\ CopyInv(s)'
  <2>1. CASE sess' = [sess EXCEPT ![s] = Idle]
    BY <1>0, <2>1, IdleIsQuiet DEF TypeOK
  <2>2. CASE sess' = [sess EXCEPT ![s] = CaptureSession(k, new, Total)]
    <3>1. /\ sess'[s].op = "capture"
          /\ sess'[s].pc # "checked"
          /\ sess'[s].key = k
          /\ sess'[s].copy = new
          /\ sess'[s].intent = NoIntent
          /\ \A t \in Sessions \ {s} : sess'[t] = sess[t]
      BY <1>0, <2>2 DEF CaptureSession, Calling, Idle, TypeOK
    <3>2. QED
      BY <1>0, <1>1, <1>2, <3>1 DEF Holds, Creating, CopyInv, Exists
  <2>3. QED
    BY <1>1, <2>1, <2>2
<1>4. \A i \in Intents : Known(i)' <=> Known(i)
  BY <1>0 DEF Known
<1>5. \A t \in Sessions \ {s} : (Holds(t)' <=> Holds(t)) /\ (Holds(t) => sess[t].key # k)
  BY <1>0, <1>3 DEF Holds, KeyInv, HolderInv
<1>6. ASSUME NEW t \in Sessions
      PROVE  CopyInv(t)'
  BY <1>0, <1>2, <1>3, <1>5 DEF KeyInv, CopyInv, AtWork, Exists
<1>7. ASSUME NEW t \in Sessions
      PROVE  HolderInv(t)'
  <2>1. CASE t = s
    BY <1>3, <2>1 DEF HolderInv
  <2>2. CASE t # s
    <3>1. /\ sess'[t] = sess[t]
          /\ sess[t].intent \in Intents \cup {NoIntent}
          /\ Holds(t) => row'[sess[t].key] = row[sess[t].key]
      BY <1>0, <1>2, <1>3, <1>5, <2>2 DEF TypeOK, Session, KeyInv, CopyInv, Holds
    <3>2. /\ (sess[t].pc = "checked" \/ Holds(t) => sess[t].copy.gw = NoIntent)'
          /\ (Holds(t) => ~Exists(sess[t].key))'
          /\ (\A u \in Sessions : Holds(t) /\ Holds(u) /\ sess[t].key = sess[u].key => t = u)'
      BY <1>0, <1>3, <1>5, <2>2, <3>1 DEF KeyInv, HolderInv, Exists
    <3>3. (sess[t].intent # NoIntent =>
             /\ Holds(t)
             /\ sess[t].pc = "replied"
             /\ sess[t].reply.ok
             /\ Known(sess[t].intent)
             /\ intent[sess[t].intent].key = sess[t].key)'
      BY <1>0, <1>4, <1>5, <2>2, <3>1 DEF KeyInv, HolderInv
    <3>4. QED
      BY <3>2, <3>3 DEF HolderInv
  <2>3. QED
    BY <2>1, <2>2
<1>8. ASSUME NEW j \in Keys
      PROVE  RowInv(j)'
  <2>1. CASE j = k
    <3>1. sess[s].intent \in Intents \cup {NoIntent}
      BY <1>0 DEF TypeOK, Session
    <3>2. QED
      BY <1>0, <1>1, <1>2, <1>4, <2>1, <3>1 DEF KeyInv, HolderInv, RowInv, Exists
  <2>2. CASE j # k
    <3>1. row'[j] = row[j] /\ row[j].gw \in Intents \cup {NoIntent}
      BY <1>0, <1>2, <2>2 DEF TypeOK, StoreTypeOK, Row
    <3>2. QED
      BY <1>0, <1>4, <3>1 DEF KeyInv, RowInv, Exists
  <2>3. QED
    BY <2>1, <2>2
<1>9. ChargesAreRecorded'
  <2> SUFFICES ASSUME NEW i \in Intents, Known(i)
               PROVE  \/ row'[intent[i].key].gw = i
                      \/ \E t \in Sessions : /\ Holds(t)'
                                             /\ sess'[t].key = intent[i].key
                                             /\ sess'[t].intent = i
    BY <1>0, <1>4 DEF ChargesAreRecorded
  <2>1. CASE row[intent[i].key].gw = i
    <3>1. intent[i].key \in Keys
      BY <1>0 DEF KeyInv, IntentInv, Known
    <3>2. intent[i].key # k
      BY <1>0, <2>1, <3>1 DEF KeyInv, RowInv
    <3>3. QED
      BY <1>2, <2>1, <3>1, <3>2
  <2>2. ASSUME NEW t \in Sessions, Holds(t), sess[t].key = intent[i].key, sess[t].intent = i
        PROVE  \/ row'[intent[i].key].gw = i
               \/ Holds(t)' /\ sess'[t].key = intent[i].key /\ sess'[t].intent = i
    BY <1>1, <1>2, <1>3, <1>5, <2>2
  <2>3. QED
    BY <1>0, <2>1, <2>2 DEF KeyInv, ChargesAreRecorded
<1>10. (\A i \in Intents : IntentInv(i))'
  BY <1>0 DEF KeyInv, IntentInv
<1>11. QED
  BY <1>6, <1>7, <1>8, <1>9, <1>10 DEF KeyInv

LEMMA StutterKeepsKeys ==
    ASSUME IInv, UNCHANGED vars
    PROVE  KeyInv'
BY DEF IInv, KeyInv, CopyInv, HolderInv, RowInv, IntentInv, ChargesAreRecorded, AtWork,
       Holds, Known, Exists, vars

----------------------------------------------------------------------------
(* The theorems                                                            *)

LEMMA NextIInv == IInv /\ [Next]_vars => IInv'
<1> SUFFICES ASSUME IInv, [Next]_vars PROVE IInv'
  OBVIOUS
<1>1. TypeOK'
  BY TypeOfNext
<1>2. KeyInv'
  <2>1. ASSUME NEW s \in Sessions, Step(s)
        PROVE  KeyInv'
    <3>1. CASE ~Holds(s) /\ ~Holds(s)'
      BY <2>1, <3>1, QuietSteps, QuietPreserves
    <3>2. CASE ~Holds(s) /\ Holds(s)'
      <4>1. Insert(s)
        BY <2>1, <3>2, StartsHolding
      <4>2. QED
        BY <3>2, <4>1, InsertKeepsKeys
    <3>3. CASE Holds(s)
      <4>1. GatewayCreates(s) \/ FinishCreate(s)
        BY <2>1, <3>3 DEF Step, Insert, GatewayCaptures, CapturedBy, FinishCapture, Compensate,
             GatewayCancels, FinishCancel, GatewayReads, FinishProcess, FinishReconcile,
             At, Holds, Creating, Reading
      <4>2. QED
        BY <4>1, GatewayCreatesKeepsKeys, FinishCreateKeepsKeys
    <3>4. QED
      BY <3>1, <3>2, <3>3
  <2>2. ASSUME NEW s \in Sessions, NEW k \in Keys, Begin(s, k)
        PROVE  KeyInv'
    BY <2>2, QuietBegins, QuietPreserves
  <2>3. QED
    BY <2>1, <2>2, CrashKeepsKeys, SettleKeepsKeys, StutterKeepsKeys DEF Next
<1>3. QED
  BY <1>1, <1>2 DEF IInv

\* No step reaches a state of a wrong type: every status, amount and identity
\* the operations write is one the tables can hold.
THEOREM TypeCorrect == Spec => []TypeOK
<1>1. IInv => TypeOK
  BY DEF IInv
<1>2. QED
  BY InitIInv, NextIInv, <1>1, PTL DEF Spec

\* Every provider payment whose id reached the service is in the row of its key
\* or with the session about to commit it, for any number of sessions.
THEOREM EveryChargeRecorded == Spec => []ChargesAreRecorded
<1>1. IInv => ChargesAreRecorded
  BY DEF IInv, KeyInv
<1>2. QED
  BY InitIInv, NextIInv, <1>1, PTL DEF Spec

\* Two known payments of a key would both be in its row, or with its one holder.
LEMMA OneChargeAKey == IInv => NoDoubleCharge
<1> SUFFICES ASSUME IInv, NEW i \in Intents, NEW j \in Intents,
                    Known(i), Known(j), intent[i].key = intent[j].key
             PROVE  i = j
  BY DEF NoDoubleCharge
<1> DEFINE k == intent[i].key
           ByRow(x) == row[k].gw = x
           BySession(x, s) == Holds(s) /\ sess[s].key = k /\ sess[s].intent = x
<1>1. k \in Keys /\ RowInv(k)
  BY DEF IInv, KeyInv, IntentInv, Known
<1>2. /\ ByRow(i) \/ \E s \in Sessions : BySession(i, s)
      /\ ByRow(j) \/ \E s \in Sessions : BySession(j, s)
  BY DEF IInv, KeyInv, ChargesAreRecorded
<1>3. \A x \in Intents : ByRow(x) => Exists(k)
  BY <1>1 DEF RowInv
<1>4. \A x \in Intents, s \in Sessions : BySession(x, s) => ~Exists(k)
  BY DEF IInv, KeyInv, HolderInv
<1>5. \A s, t \in Sessions : BySession(i, s) /\ BySession(j, t) => s = t
  BY DEF IInv, KeyInv, HolderInv
<1>6. QED
  BY <1>2, <1>3, <1>4, <1>5

\* However many requests with one key overlap, at most one payment of the key is
\* known to the service.
THEOREM NeverChargedTwice == Spec => []NoDoubleCharge
BY InitIInv, NextIInv, OneChargeAKey, PTL DEF Spec

----------------------------------------------------------------------------
(* Payment requests implement IdempotentCall                               *)

Claims == [k \in Keys |-> ClaimOf(k)]

KnownOf(k) == {i \in Intents : Known(i) /\ intent[i].key = k}

Knowns == [k \in Keys |-> KnownOf(k)]

Used == {i \in Intents : intent[i].state # "unused"}

\* Session s holds key k.
Holder(s, k) == Holds(s) /\ sess[s].key = k

\* How a key stands follows from its row and from the one session that holds it.
ClaimsRight ==
    \A k \in Keys :
        /\ Exists(k) => ClaimOf(k) = "recorded"
        /\ \A s \in Sessions : Holder(s, k) =>
              ClaimOf(k) = IF sess[s].pc = "calling" THEN "claimed" ELSE "answered"
        /\ ~Exists(k) /\ (\A s \in Sessions : ~Holder(s, k)) => ClaimOf(k) = "free"

KnownRight ==
    \A k \in Keys :
        /\ \A s \in Sessions : Holder(s, k) => KnownOf(k) = {sess[s].intent} \ {NoIntent}
        /\ ~Exists(k) /\ (\A s \in Sessions : ~Holder(s, k)) => KnownOf(k) = {}

LEMMA ClaimsAreRight == IInv => ClaimsRight
<1> SUFFICES ASSUME IInv, NEW k \in Keys
             PROVE  /\ Exists(k) => ClaimOf(k) = "recorded"
                    /\ \A s \in Sessions : Holder(s, k) =>
                          ClaimOf(k) = IF sess[s].pc = "calling" THEN "claimed" ELSE "answered"
                    /\ ~Exists(k) /\ (\A s \in Sessions : ~Holder(s, k)) => ClaimOf(k) = "free"
  BY DEF ClaimsRight
<1>1. ASSUME Exists(k)
      PROVE  ClaimOf(k) = "recorded"
  <2>1. \A s \in Sessions : ~Holder(s, k)
    BY <1>1 DEF IInv, KeyInv, HolderInv, Holder
  <2>2. QED
    BY <1>1, <2>1 DEF ClaimOf, Holder
<1>2. ASSUME NEW s \in Sessions, Holder(s, k)
      PROVE  ClaimOf(k) = IF sess[s].pc = "calling" THEN "claimed" ELSE "answered"
  <2>1. ~Exists(k)
    BY <1>2 DEF IInv, KeyInv, HolderInv, Holder
  <2>2. \A t \in Sessions : Holder(t, k) => t = s
    BY <1>2 DEF IInv, KeyInv, HolderInv, Holder
  <2>3. QED
    BY <1>2, <2>1, <2>2 DEF ClaimOf, Holder, Holds
<1>3. ASSUME ~Exists(k), \A s \in Sessions : ~Holder(s, k)
      PROVE  ClaimOf(k) = "free"
  BY <1>3 DEF ClaimOf, Holder
<1>4. QED
  BY <1>1, <1>2, <1>3

LEMMA KnownIsRight == IInv => KnownRight
<1> SUFFICES ASSUME IInv, NEW k \in Keys
             PROVE  /\ \A s \in Sessions : Holder(s, k) =>
                          KnownOf(k) = {sess[s].intent} \ {NoIntent}
                    /\ ~Exists(k) /\ (\A s \in Sessions : ~Holder(s, k)) => KnownOf(k) = {}
  BY DEF KnownRight
<1>1. ASSUME ~Exists(k), NEW i \in KnownOf(k)
      PROVE  \E t \in Sessions : Holder(t, k) /\ sess[t].intent = i
  <2>1. i \in Intents /\ Known(i) /\ intent[i].key = k /\ row[k].gw = NoIntent
    BY <1>1 DEF KnownOf, IInv, KeyInv, RowInv
  <2>2. QED
    BY <2>1 DEF IInv, KeyInv, ChargesAreRecorded, Holder
<1>2. ASSUME NEW s \in Sessions, Holder(s, k)
      PROVE  KnownOf(k) = {sess[s].intent} \ {NoIntent}
  <2>1. ~Exists(k) /\ HolderInv(s) /\ sess[s] \in Session
    BY <1>2 DEF IInv, KeyInv, TypeOK, HolderInv, Holder
  <2>2. \A t \in Sessions : Holder(t, k) => t = s
    BY <1>2, <2>1 DEF HolderInv, Holder
  <2>3. \A i \in KnownOf(k) : i = sess[s].intent /\ i # NoIntent
    BY <1>1, <2>1, <2>2 DEF KnownOf
  <2>4. sess[s].intent # NoIntent => sess[s].intent \in KnownOf(k)
    BY <1>2, <2>1 DEF HolderInv, Session, KnownOf, Holder
  <2>5. QED
    BY <2>3, <2>4
<1>3. ASSUME ~Exists(k), \A s \in Sessions : ~Holder(s, k)
      PROVE  KnownOf(k) = {}
  BY <1>1, <1>3
<1>4. QED
  BY <1>2, <1>3

\* The same of the state a step leads to.
LEMMA RightBeforeAndAfter ==
    ASSUME IInv, IInv'
    PROVE  ClaimsRight /\ KnownRight /\ ClaimsRight' /\ KnownRight'
<1>1. ClaimsRight /\ KnownRight
  BY ClaimsAreRight, KnownIsRight
<1>2. (IInv => ClaimsRight)' /\ (IInv => KnownRight)'
  BY ClaimsAreRight, KnownIsRight, PTL
<1>3. QED
  BY <1>1, <1>2

\* A key stands as before when its row and its holder do.
LEMMA ClaimKept ==
    ASSUME NEW k \in Keys, Exists(k)' <=> Exists(k),
           \A t \in Sessions : /\ Holder(t, k)' <=> Holder(t, k)
                               /\ Holder(t, k) => sess'[t].pc = sess[t].pc
    PROVE  ClaimOf(k)' = ClaimOf(k)
BY DEF ClaimOf, Holder

LEMMA AllKept ==
    ASSUME \A k \in Keys : ClaimOf(k)' = ClaimOf(k), KeepsIntents, orphan' = orphan
    PROVE  UNCHANGED Idempotent!vars
<1>1. Claims' = Claims
  BY DEF Claims
<1>2. \A i \in Intents : Known(i)' <=> Known(i)
  BY DEF KeepsIntents, Known
<1>3. \A k \in Keys : KnownOf(k)' = KnownOf(k)
  BY <1>2 DEF KnownOf, KeepsIntents
<1>4. Knowns' = Knowns
  BY <1>3 DEF Knowns
<1>5. Used' = Used
  BY DEF Used, KeepsIntents
<1>6. QED
  BY <1>1, <1>4, <1>5 DEF Idempotent!vars, Claims, Knowns, KnownOf, Used

LEMMA ClaimsChange ==
    ASSUME NEW k \in Keys, NEW c,
           \A j \in Keys : ClaimOf(j)' = IF j = k THEN c ELSE ClaimOf(j)
    PROVE  Claims' = [Claims EXCEPT ![k] = c]
BY DEF Claims

LEMMA KnownsChange ==
    ASSUME NEW k \in Keys, NEW e,
           \A j \in Keys : KnownOf(j)' = IF j = k THEN e ELSE KnownOf(j)
    PROVE  Knowns' = [Knowns EXCEPT ![k] = e]
BY DEF Knowns

\* The abstract actions, of what they read and write here.
LEMMA AbstractSteps ==
    ASSUME NEW k \in Keys
    PROVE  /\ /\ Claims[k] = "free"
              /\ Claims' = [Claims EXCEPT ![k] = "claimed"]
              /\ UNCHANGED <<Knowns, Used>>
              => Idempotent!Claim(k)
           /\ /\ Claims[k] = "claimed"
              /\ Claims' = [Claims EXCEPT ![k] = "answered"]
              /\ \/ UNCHANGED <<Knowns, Used>>
                 \/ \E e \in Intents \ Used :
                       /\ Used' = Used \cup {e}
                       /\ \/ Knowns' = [Knowns EXCEPT ![k] = {e}]
                          \/ UNCHANGED Knowns
              => Idempotent!Call(k)
           /\ /\ Claims[k] = "answered"
              /\ Claims' = [Claims EXCEPT ![k] = "recorded"]
              /\ UNCHANGED <<Knowns, Used>>
              => Idempotent!Record(k)
           /\ /\ Claims[k] \in {"claimed", "answered"}
              /\ Claims' = [Claims EXCEPT ![k] = "free"]
              /\ Knowns' = [Knowns EXCEPT ![k] = {}]
              /\ UNCHANGED Used
              => Idempotent!Abandon(k)
BY DEF Idempotent!Claim, Idempotent!Call, Idempotent!Record, Idempotent!Abandon,
       Claims, Knowns, KnownOf, Used

AbstractStep == Idempotent!Next \/ UNCHANGED Idempotent!vars

LEMMA QuietImplements ==
    ASSUME IInv, NEW s \in Sessions, Quiet(s)
    PROVE  AbstractStep
<1>1. \A k \in Keys, t \in Sessions : /\ Holder(t, k)' <=> Holder(t, k)
                                      /\ Holder(t, k) => sess'[t].pc = sess[t].pc
  <2> SUFFICES ASSUME NEW k \in Keys, NEW t \in Sessions
               PROVE  /\ Holder(t, k)' <=> Holder(t, k)
                      /\ Holder(t, k) => sess'[t].pc = sess[t].pc
    OBVIOUS
  <2>1. CASE t = s
    BY <2>1 DEF Quiet, Holder
  <2>2. CASE t # s
    BY <2>2 DEF Quiet, Holder, Holds
  <2>3. QED
    BY <2>1, <2>2
<1>2. \A k \in Keys : ClaimOf(k)' = ClaimOf(k)
  BY <1>1, ClaimKept DEF Quiet, KeepsRows
<1>3. QED
  BY <1>2, AllKept DEF Quiet, AbstractStep

\* A session that holds no key before the insert holds the one it inserts.
LEMMA InsertImplements ==
    ASSUME IInv, IInv', NEW s \in Sessions, Insert(s), Holds(s)'
    PROVE  AbstractStep
<1>1. TypeOK /\ ClaimsRight /\ ClaimsRight' /\ sess[s].key \in Keys
  BY RightBeforeAndAfter DEF IInv, KeyInv, CopyInv, Insert, At
<1>2. PICK k \in Keys : k = sess[s].key
  BY <1>1
<1>3. ~Exists(k) /\ sess' = [sess EXCEPT ![s].pc = "calling"] /\ sess[s].pc = "checked"
      /\ UNCHANGED <<row, intent, orphan>>
  BY <1>1, <1>2 DEF Insert, At, Holds, Idle, TypeOK
<1>4. /\ sess'[s].key = k /\ sess'[s].pc = "calling"
      /\ \A t \in Sessions \ {s} : sess'[t] = sess[t]
  BY <1>1, <1>2, <1>3 DEF TypeOK, Session
<1>5. \A t \in Sessions : ~Holder(t, k)
  BY <1>2 DEF Insert, Holder
<1>6. ClaimOf(k) = "free"
  BY <1>1, <1>3, <1>5 DEF ClaimsRight
<1>7. ClaimOf(k)' = "claimed"
  <2>1. Holder(s, k)'
    BY <1>4 DEF Holder
  <2>2. QED
    BY <1>1, <1>4, <2>1 DEF ClaimsRight
<1>8. ASSUME NEW j \in Keys, j # k
      PROVE  ClaimOf(j)' = ClaimOf(j)
  <2>1. \A t \in Sessions : /\ Holder(t, j)' <=> Holder(t, j)
                            /\ Holder(t, j) => sess'[t].pc = sess[t].pc
    BY <1>2, <1>4, <1>8 DEF Holder, Holds
  <2>2. Exists(j)' <=> Exists(j)
    BY <1>3 DEF Exists
  <2>3. QED
    BY <2>1, <2>2, ClaimKept
<1>9. Claims[k] = "free" /\ Claims' = [Claims EXCEPT ![k] = "claimed"]
  <2>1. \A j \in Keys : ClaimOf(j)' = IF j = k THEN "claimed" ELSE ClaimOf(j)
    BY <1>7, <1>8
  <2>2. QED
    BY <1>6, <2>1, ClaimsChange DEF Claims
<1>10. Knowns' = Knowns /\ Used' = Used
  BY <1>3 DEF Knowns, KnownOf, Known, Used
<1>11. Idempotent!Claim(k)
  BY <1>9, <1>10, AbstractSteps
<1>12. QED
  BY <1>11 DEF AbstractStep, Idempotent!Next

\* What the one call changes.
LEMMA CreateAnswered ==
    ASSUME IInv, NEW s \in Sessions, GatewayCreates(s)
    PROVE  /\ Holds(s) /\ sess[s].pc = "calling" /\ sess[s].key \in Keys
           /\ sess[s].intent = NoIntent /\ row' = row
           /\ sess'[s].pc = "replied" /\ sess'[s].op = sess[s].op /\ sess'[s].key = sess[s].key
           /\ \A t \in Sessions \ {s} : sess'[t] = sess[t]
           /\ \/ UNCHANGED <<intent, orphan>>
              \/ \E i \in Intents :
                    /\ intent[i].state = "unused" /\ intent'[i].state # "unused"
                    /\ intent'[i].key = sess[s].key
                    /\ \A j \in Intents \ {i} : intent'[j] = intent[j]
                    /\ \/ sess'[s].intent = i /\ orphan' = orphan
                       \/ sess'[s].intent = NoIntent /\ orphan' = orphan \cup {i}
<1>0. /\ sess \in [Sessions -> Session] /\ intent \in [Intents -> Intent] /\ sess[s] \in Session
      /\ Holds(s) /\ sess[s].pc = "calling" /\ sess[s].key \in Keys
      /\ sess[s].intent = NoIntent /\ row' = row
  BY DEF IInv, TypeOK, StoreTypeOK, GatewayCreates, At, Holds, KeyInv, CopyInv, HolderInv
<1>1. ASSUME NEW r, Replied(s, r)
      PROVE  /\ sess'[s].pc = "replied" /\ sess'[s].op = sess[s].op
             /\ sess'[s].key = sess[s].key /\ sess'[s].intent = NoIntent
             /\ \A t \in Sessions \ {s} : sess'[t] = sess[t]
  BY <1>0, <1>1 DEF Replied, Session
<1>2. CASE Replied(s, NoReply) /\ UNCHANGED <<intent, orphan>>
  BY <1>0, <1>1, <1>2
<1>3. CASE ~(Replied(s, NoReply) /\ UNCHANGED <<intent, orphan>>)
  <2>1. PICK i \in Intents, st \in OpeningStates(sess[s].copy.provider) :
           LET answer == [ok |-> TRUE, state |-> st,
                          captured |-> IF st = "succeeded" THEN Total ELSE 0]
           IN  /\ intent[i].state = "unused"
               /\ intent' = Opened(i, sess[s].key, sess[s].copy.provider, st)
               /\ \/ /\ sess' = [sess EXCEPT ![s].pc = "replied",
                                             ![s].intent = i,
                                             ![s].reply = answer]
                     /\ UNCHANGED orphan
                  \/ /\ \E r \in {answer, NoReply} : Replied(s, r)
                     /\ orphan' = orphan \cup {i}
    BY <1>3 DEF GatewayCreates
  <2> DEFINE answer == [ok |-> TRUE, state |-> st,
                        captured |-> IF st = "succeeded" THEN Total ELSE 0]
  <2>2. /\ intent[i].state = "unused"
        /\ intent' = Opened(i, sess[s].key, sess[s].copy.provider, st)
        /\ \/ /\ sess' = [sess EXCEPT ![s].pc = "replied", ![s].intent = i,
                                      ![s].reply = answer]
              /\ UNCHANGED orphan
           \/ /\ \E r \in {answer, NoReply} : Replied(s, r)
              /\ orphan' = orphan \cup {i}
    BY <2>1
  <2> HIDE DEF answer
  <2>3. st # "unused"
    BY DEF OpeningStates
  <2>4. /\ intent'[i].state # "unused" /\ intent'[i].key = sess[s].key
        /\ \A j \in Intents \ {i} : intent'[j] = intent[j]
    BY <1>0, <2>2, <2>3 DEF Opened
  <2>5. /\ sess'[s].pc = "replied" /\ sess'[s].op = sess[s].op /\ sess'[s].key = sess[s].key
        /\ \A t \in Sessions \ {s} : sess'[t] = sess[t]
        /\ \/ sess'[s].intent = i /\ orphan' = orphan
           \/ sess'[s].intent = NoIntent /\ orphan' = orphan \cup {i}
    <3>1. CASE sess' = [sess EXCEPT ![s].pc = "replied", ![s].intent = i, ![s].reply = answer]
               /\ UNCHANGED orphan
      BY <1>0, <3>1 DEF Session
    <3>2. CASE (\E r \in {answer, NoReply} : Replied(s, r)) /\ orphan' = orphan \cup {i}
      BY <1>1, <3>2
    <3>3. QED
      BY <2>2, <3>1, <3>2
  <2>6. QED
    BY <1>0, <2>2, <2>4, <2>5
<1>4. QED
  BY <1>2, <1>3

LEMMA CallImplements ==
    ASSUME IInv, IInv', NEW s \in Sessions, GatewayCreates(s)
    PROVE  AbstractStep
<1>1. ClaimsRight /\ KnownRight /\ ClaimsRight' /\ KnownRight'
  BY RightBeforeAndAfter
<1>2. /\ Holds(s) /\ sess[s].pc = "calling" /\ sess[s].key \in Keys
      /\ sess[s].intent = NoIntent /\ row' = row
      /\ sess'[s].pc = "replied" /\ sess'[s].op = sess[s].op /\ sess'[s].key = sess[s].key
      /\ \A t \in Sessions \ {s} : sess'[t] = sess[t]
  BY CreateAnswered
<1>3. PICK k \in Keys : k = sess[s].key
  BY <1>2
<1>4. Holder(s, k) /\ Holder(s, k)'
  BY <1>2, <1>3 DEF Holder, Holds
<1>5. ClaimOf(k) = "claimed" /\ KnownOf(k) = {}
  BY <1>1, <1>2, <1>4 DEF ClaimsRight, KnownRight
<1>6. ClaimOf(k)' = "answered" /\ KnownOf(k)' = {sess'[s].intent} \ {NoIntent}
  BY <1>1, <1>2, <1>4 DEF ClaimsRight, KnownRight
<1>7. ASSUME NEW j \in Keys, j # k
      PROVE  ClaimOf(j)' = ClaimOf(j)
  <2>1. \A t \in Sessions : /\ Holder(t, j)' <=> Holder(t, j)
                            /\ Holder(t, j) => sess'[t].pc = sess[t].pc
    BY <1>2, <1>3, <1>7 DEF Holder, Holds
  <2>2. Exists(j)' <=> Exists(j)
    BY <1>2 DEF Exists
  <2>3. QED
    BY <2>1, <2>2, ClaimKept
<1>8. Claims[k] = "claimed" /\ Claims' = [Claims EXCEPT ![k] = "answered"]
  <2>1. \A j \in Keys : ClaimOf(j)' = IF j = k THEN "answered" ELSE ClaimOf(j)
    BY <1>6, <1>7
  <2>2. QED
    BY <1>5, <2>1, ClaimsChange DEF Claims
<1>9. CASE UNCHANGED <<intent, orphan>>
  <2>1. Knowns' = Knowns /\ Used' = Used
    BY <1>9 DEF Knowns, KnownOf, Known, Used
  <2>2. Idempotent!Call(k)
    BY <1>8, <2>1, AbstractSteps
  <2>3. QED
    BY <2>2 DEF AbstractStep, Idempotent!Next
<1>10. ASSUME NEW i \in Intents,
              intent[i].state = "unused", intent'[i].state # "unused", intent'[i].key = sess[s].key,
              \A j \in Intents \ {i} : intent'[j] = intent[j],
              \/ sess'[s].intent = i /\ orphan' = orphan
              \/ sess'[s].intent = NoIntent /\ orphan' = orphan \cup {i}
       PROVE  AbstractStep
  <2>1. i \in Intents \ Used /\ Used' = Used \cup {i}
    BY <1>10 DEF Used
  <2>2. ASSUME NEW j \in Keys, j # k
        PROVE  KnownOf(j)' = KnownOf(j)
    <3>1. i \notin KnownOf(j) /\ i \notin KnownOf(j)'
      BY <1>3, <1>10, <2>2 DEF KnownOf, Known
    <3>2. \A x \in Intents \ {i} : Known(x)' <=> Known(x)
      BY <1>10 DEF Known
    <3>3. \A x \in Intents \ {i} : x \in KnownOf(j)' <=> x \in KnownOf(j)
      BY <1>10, <3>2 DEF KnownOf
    <3>4. KnownOf(j) \subseteq Intents /\ KnownOf(j)' \subseteq Intents
      BY DEF KnownOf
    <3>5. QED
      BY <3>1, <3>3, <3>4
  <2>3. Knowns' = [Knowns EXCEPT ![k] = {i}] \/ Knowns' = Knowns
    <3>1. CASE sess'[s].intent = i
      <4>1. \A j \in Keys : KnownOf(j)' = IF j = k THEN {i} ELSE KnownOf(j)
        BY <1>6, <2>2, <3>1
      <4>2. QED
        BY <4>1, KnownsChange
    <3>2. CASE sess'[s].intent = NoIntent
      BY <1>5, <1>6, <2>2, <3>2 DEF Knowns
    <3>3. QED
      BY <1>10, <3>1, <3>2
  <2>4. Idempotent!Call(k)
    BY <1>8, <2>1, <2>3, AbstractSteps
  <2>5. QED
    BY <2>4 DEF AbstractStep, Idempotent!Next
<1>11. QED
  BY <1>9, <1>10, CreateAnswered

\* What the commit of a new row changes.
LEMMA CreateCommitted ==
    ASSUME IInv, NEW s \in Sessions, FinishCreate(s)
    PROVE  /\ Holds(s) /\ sess[s].pc = "replied" /\ sess[s].key \in Keys
           /\ ~Holds(s)' /\ \A t \in Sessions \ {s} : sess'[t] = sess[t]
           /\ row'[sess[s].key].status # "absent"
           /\ \A j \in Keys \ {sess[s].key} : row'[j] = row[j]
           /\ UNCHANGED <<intent, orphan>>
<1> DEFINE k == sess[s].key
           word == NormalizeCreated(sess[s].copy.provider, sess[s].reply.state)
           status == ResolvePaymentStatus(word, sess[s].requiresCapture)
           new == IF sess[s].reply.ok
                    THEN [sess[s].copy EXCEPT !.status = status, !.gw = sess[s].intent,
                                              !.captured = sess[s].reply.captured]
                    ELSE [sess[s].copy EXCEPT !.status = "failed"]
<1>1. /\ sess \in [Sessions -> Session] /\ row \in [Keys -> Row] /\ sess[s].copy \in Row
      /\ At(s, "replied", Creating) /\ Holds(s) /\ sess[s].pc = "replied" /\ k \in Keys
      /\ UNCHANGED <<intent, orphan>>
  BY DEF IInv, TypeOK, StoreTypeOK, Session, FinishCreate, At, Holds, KeyInv, CopyInv
<1>2. /\ row' = [row EXCEPT ![k] = new]
      /\ \/ sess' = [sess EXCEPT ![s] = CaptureSession(k, new, Total)]
         \/ sess' = [sess EXCEPT ![s] = Idle]
  BY DEF FinishCreate, MarkedFailed
<1>3. new.status # "absent"
  <2>1. status # "absent"
    BY DEF ResolvePaymentStatus
  <2> HIDE DEF status
  <2>2. QED
    BY <1>1, <2>1 DEF Row
<1> HIDE DEF new
<1>4. row'[k] = new /\ \A j \in Keys \ {k} : row'[j] = row[j]
  BY <1>1, <1>2
<1>5. ~Holds(s)' /\ \A t \in Sessions \ {s} : sess'[t] = sess[t]
  <2>1. CaptureSession(k, new, Total).op = "capture" /\ Idle.op = "none"
    BY DEF CaptureSession, Calling, Idle
  <2>2. QED
    BY <1>1, <1>2, <2>1 DEF Holds, Creating
<1>6. QED
  BY <1>1, <1>3, <1>4, <1>5

LEMMA RecordImplements ==
    ASSUME IInv, IInv', NEW s \in Sessions, FinishCreate(s)
    PROVE  AbstractStep
<1>1. ClaimsRight /\ ClaimsRight'
  BY RightBeforeAndAfter
<1>2. /\ Holds(s) /\ sess[s].pc = "replied" /\ sess[s].key \in Keys
      /\ ~Holds(s)' /\ \A t \in Sessions \ {s} : sess'[t] = sess[t]
      /\ UNCHANGED <<intent, orphan>>
  BY CreateCommitted
<1>3. PICK k \in Keys : k = sess[s].key
  BY <1>2
<1>4. Exists(k)' /\ \A j \in Keys \ {k} : row'[j] = row[j]
  BY <1>3, CreateCommitted DEF Exists
<1>5. ClaimOf(k) = "answered" /\ ClaimOf(k)' = "recorded"
  BY <1>1, <1>2, <1>3, <1>4 DEF ClaimsRight, Holder
<1>6. ASSUME NEW j \in Keys, j # k
      PROVE  ClaimOf(j)' = ClaimOf(j)
  <2>1. \A t \in Sessions : /\ Holder(t, j)' <=> Holder(t, j)
                            /\ Holder(t, j) => sess'[t].pc = sess[t].pc
    BY <1>2, <1>3, <1>6 DEF Holder, Holds
  <2>2. Exists(j)' <=> Exists(j)
    BY <1>4, <1>6 DEF Exists
  <2>3. QED
    BY <2>1, <2>2, ClaimKept
<1>7. Claims[k] = "answered" /\ Claims' = [Claims EXCEPT ![k] = "recorded"]
  <2>1. \A j \in Keys : ClaimOf(j)' = IF j = k THEN "recorded" ELSE ClaimOf(j)
    BY <1>5, <1>6
  <2>2. QED
    BY <1>5, <2>1, ClaimsChange DEF Claims
<1>8. Knowns' = Knowns /\ Used' = Used
  BY <1>2 DEF Knowns, KnownOf, Known, Used
<1>9. Idempotent!Record(k)
  BY <1>7, <1>8, AbstractSteps
<1>10. QED
  BY <1>9 DEF AbstractStep, Idempotent!Next

LEMMA CrashImplements ==
    ASSUME IInv, IInv', NEW s \in Sessions, Crash(s)
    PROVE  AbstractStep
<1>1. TypeOK /\ ClaimsRight /\ KnownRight /\ ClaimsRight' /\ KnownRight'
      /\ HolderInv(s) /\ CopyInv(s)
  BY RightBeforeAndAfter DEF IInv, KeyInv
<1>2. ~Holds(s)' /\ \A t \in Sessions \ {s} : sess'[t] = sess[t]
  BY <1>1, IdleIsQuiet DEF Crash, TypeOK
<1>3. UNCHANGED <<row, intent>> /\ orphan' = orphan \cup ({sess[s].intent} \ {NoIntent})
  BY DEF Crash
<1>4. \A j \in Keys : Exists(j)' <=> Exists(j)
  BY <1>3 DEF Exists
<1>5. ASSUME NEW j \in Keys, ~Holder(s, j)
      PROVE  ClaimOf(j)' = ClaimOf(j)
  <2>1. \A t \in Sessions : /\ Holder(t, j)' <=> Holder(t, j)
                            /\ Holder(t, j) => sess'[t].pc = sess[t].pc
    BY <1>2, <1>5 DEF Holder, Holds
  <2>2. QED
    BY <1>4, <2>1, ClaimKept
<1>6. CASE ~Holds(s)
  <2>1. sess[s].intent = NoIntent
    BY <1>1, <1>6 DEF HolderInv
  <2>2. \A j \in Keys : ClaimOf(j)' = ClaimOf(j)
    BY <1>5, <1>6 DEF Holder
  <2>3. QED
    BY <1>3, <2>1, <2>2, AllKept DEF AbstractStep, KeepsIntents
<1>7. CASE Holds(s)
  <2>1. PICK k \in Keys : k = sess[s].key
    BY <1>1, <1>7 DEF CopyInv, Holds
  <2>2. /\ ~Exists(k) /\ Holder(s, k)
        /\ \A t \in Sessions : Holder(t, k) => t = s
    BY <1>1, <1>7, <2>1 DEF HolderInv, Holder
  <2>3. ClaimOf(k) \in {"claimed", "answered"}
    BY <1>1, <2>2 DEF ClaimsRight
  <2>4. ~Exists(k)' /\ \A t \in Sessions : ~Holder(t, k)'
    BY <1>2, <1>4, <2>2 DEF Holder, Holds
  <2>5. ClaimOf(k)' = "free" /\ KnownOf(k)' = {}
    BY <1>1, <2>4 DEF ClaimsRight, KnownRight
  <2>6. ASSUME NEW j \in Keys, j # k
        PROVE  ClaimOf(j)' = ClaimOf(j) /\ KnownOf(j)' = KnownOf(j)
    <3>1. ClaimOf(j)' = ClaimOf(j)
      BY <1>5, <2>1, <2>6 DEF Holder
    <3>2. \A i \in Intents : i = sess[s].intent => intent[i].key = k
      BY <1>1, <2>1 DEF HolderInv
    <3>3. \A i \in Intents : intent[i].key = j => (Known(i)' <=> Known(i))
      BY <1>3, <2>6, <3>2 DEF Known
    <3>4. QED
      BY <1>3, <3>1, <3>3 DEF KnownOf
  <2>7. Claims[k] \in {"claimed", "answered"} /\ Claims' = [Claims EXCEPT ![k] = "free"]
    <3>1. \A j \in Keys : ClaimOf(j)' = IF j = k THEN "free" ELSE ClaimOf(j)
      BY <2>5, <2>6
    <3>2. QED
      BY <2>3, <3>1, ClaimsChange DEF Claims
  <2>8. Knowns' = [Knowns EXCEPT ![k] = {}]
    <3>1. \A j \in Keys : KnownOf(j)' = IF j = k THEN {} ELSE KnownOf(j)
      BY <2>5, <2>6
    <3>2. QED
      BY <3>1, KnownsChange
  <2>9. Used' = Used
    BY <1>3 DEF Used
  <2>10. Idempotent!Abandon(k)
    BY <2>7, <2>8, <2>9, AbstractSteps
  <2>11. QED
    BY <2>10 DEF AbstractStep, Idempotent!Next
<1>8. QED
  BY <1>6, <1>7

LEMMA SettleImplements ==
    ASSUME IInv, NEW i \in Intents, Settle(i)
    PROVE  AbstractStep
<1>1. UNCHANGED <<row, sess, orphan>>
  BY DEF Settle, GatewaySettles
<1>2. KeepsIntents
  BY DEF Settle, GatewaySettles, KeepsIntents, IInv, TypeOK, StoreTypeOK, Intent
<1>3. \A k \in Keys : ClaimOf(k)' = ClaimOf(k)
  BY <1>1 DEF ClaimOf, Exists, Holds
<1>4. QED
  BY <1>1, <1>2, <1>3, AllKept DEF AbstractStep

LEMMA InitImplements == Init => Idempotent!Init
<1> SUFFICES ASSUME Init PROVE Idempotent!Init
  OBVIOUS
<1>1. /\ \A k \in Keys : ~Exists(k)
      /\ \A s \in Sessions : ~Holds(s)
      /\ \A i \in Intents : intent[i].state = "unused" /\ ~Known(i)
  BY DEF Init, StoreInit, NoRow, Exists, Idle, Holds, Creating, UnusedIntent, Known
<1>2. \A k \in Keys : ClaimOf(k) = "free"
  BY <1>1 DEF ClaimOf
<1>3. QED
  BY <1>1, <1>2 DEF Idempotent!Init

LEMMA NextImplements ==
    ASSUME IInv, [Next]_vars
    PROVE  AbstractStep
<1>0. IInv'
  BY NextIInv
<1>1. ASSUME NEW s \in Sessions, Step(s)
      PROVE  AbstractStep
  <2>1. CASE ~Holds(s) /\ ~Holds(s)'
    BY <1>1, <2>1, QuietSteps, QuietImplements
  <2>2. CASE ~Holds(s) /\ Holds(s)'
    BY <1>0, <1>1, <2>2, StartsHolding, InsertImplements
  <2>3. CASE Holds(s)
    <3>1. GatewayCreates(s) \/ FinishCreate(s)
      BY <1>1, <2>3 DEF Step, Insert, GatewayCaptures, CapturedBy, FinishCapture, Compensate,
           GatewayCancels, FinishCancel, GatewayReads, FinishProcess, FinishReconcile,
           At, Holds, Creating, Reading
    <3>2. QED
      BY <1>0, <3>1, CallImplements, RecordImplements
  <2>4. QED
    BY <2>1, <2>2, <2>3
<1>2. ASSUME NEW s \in Sessions, NEW k \in Keys, Begin(s, k)
      PROVE  AbstractStep
  BY <1>2, QuietBegins, QuietImplements
<1>3. ASSUME NEW s \in Sessions, Crash(s)
      PROVE  AbstractStep
  BY <1>0, <1>3, CrashImplements
<1>4. ASSUME NEW i \in Intents, Settle(i)
      PROVE  AbstractStep
  BY <1>4, SettleImplements
<1>5. CASE UNCHANGED vars
  BY <1>5 DEF vars, AbstractStep, Idempotent!vars, ClaimOf, Exists, Holds, Known
<1>6. QED
  BY <1>1, <1>2, <1>3, <1>4, <1>5 DEF Next

\* Payment requests implement the promise of the idempotency key
\* (IdempotentCall): the insert claims the key, the creation at the provider is
\* the one call, the commit records it and a rollback abandons it; captures,
\* cancellations, polls and the provider by itself leave every key as it is.
THEOREM ImplementsIdempotentCall == Spec => KeepsKeyPromise
<1>1. Init => Idempotent!Init
  BY InitImplements
<1>2. IInv /\ [Next]_vars => [Idempotent!Next]_(Idempotent!vars)
  BY NextImplements DEF AbstractStep
<1>3. QED
  BY <1>1, <1>2, InitIInv, NextIInv, PTL DEF Spec, KeepsKeyPromise, Idempotent!Spec
=============================================================================
