------------------------ MODULE PaymentOutcomeProofs ------------------------
(***************************************************************************)
(* Proofs that the outcomes PaymentService records are true: a payment     *)
(* recorded as captured or cancelled was captured or cancelled by the      *)
(* provider, with the amount the provider took, although sessions write    *)
(* what they learned from a copy of the row that others may have           *)
(* overtaken; that only such a copy overwrites an outcome; and that what   *)
(* PaymentRequests answers is true as well.                                *)
(*                                                                         *)
(* The argument: captured and cancelled are final at the provider, so what *)
(* a session learned of an outcome stays true until it writes it; and the  *)
(* provider id it learned it of is still the row's (KeyInv).               *)
(***************************************************************************)
EXTENDS PaymentServiceProofs, PaymentRequests

Final == {"succeeded", "canceled"}

\* What session s has learned from an answer that reports an outcome.
Learned(s) ==
    /\ At(s, "replied", {"capture"}) /\ sess[s].reply.ok =>
          intent[sess[s].copy.gw].state = "succeeded"
    /\ At(s, "replied", {"cancel"}) /\ sess[s].reply.ok =>
          intent[sess[s].copy.gw].state = "canceled"
    /\ At(s, "replied", Reading) /\ sess[s].reply.state \in Final =>
          /\ sess[s].copy.gw # NoIntent
          /\ intent[sess[s].copy.gw].state = sess[s].reply.state
    /\ Holds(s) /\ sess[s].intent # NoIntent /\ sess[s].reply.state = "succeeded" =>
          intent[sess[s].intent].state = "succeeded"

\* A capture or a cancellation is asked for by the provider's id.
Identified(s) ==
    At(s, "calling", {"capture", "cancel"}) \/ At(s, "replied", {"capture", "cancel"}) =>
        sess[s].copy.gw # NoIntent

OutcomeInv ==
    /\ \A s \in Sessions : Identified(s) /\ Learned(s)
    /\ OutcomesAreTrue

OInv == IInv /\ OutcomeInv

----------------------------------------------------------------------------
\* No step takes an outcome back at the provider.
FinalStays ==
    \A i \in Intents : intent[i].state \in Final => intent'[i].state = intent[i].state

LEMMA StepKeepsFinal ==
    ASSUME IInv, [Next]_vars
    PROVE  FinalStays
<1> USE DEF FinalStays, Final
<1>0. intent \in [Intents -> Intent]
  BY DEF IInv, TypeOK, StoreTypeOK
<1>1. intent' = intent => FinalStays
  OBVIOUS
<1>2. ASSUME NEW s \in Sessions, GatewayCreates(s)
      PROVE  FinalStays
  <2>1. CASE intent' = intent
    BY <2>1
  <2>2. CASE intent' # intent
    <3>1. PICK i \in Intents : /\ intent[i].state = "unused"
                               /\ \A j \in Intents \ {i} : intent'[j] = intent[j]
      BY <1>0, <1>2, <2>2 DEF GatewayCreates, Opened
    <3>2. QED
      BY <3>1
  <2>3. QED
    BY <2>1, <2>2
<1>3. ASSUME NEW s \in Sessions, GatewayCaptures(s)
      PROVE  FinalStays
  <2> DEFINE i == sess[s].copy.gw
  <2>1. CASE intent' = intent
    BY <2>1
  <2>2. CASE intent' # intent
    <3>1. intent[i].state \notin Final /\ \A j \in Intents \ {i} : intent'[j] = intent[j]
      BY <1>0, <1>3, <2>2 DEF GatewayCaptures, CapturedBy, MayCapture
    <3>2. QED
      BY <3>1
  <2>3. QED
    BY <2>1, <2>2
<1>4. ASSUME NEW s \in Sessions, GatewayCancels(s)
      PROVE  FinalStays
  BY <1>0, <1>4 DEF GatewayCancels, MayCancel
<1>5. ASSUME NEW i \in Intents, Settle(i)
      PROVE  FinalStays
  BY <1>0, <1>5 DEF Settle, GatewaySettles
<1>6. ASSUME NEW s \in Sessions, Step(s)
      PROVE  intent' = intent \/ GatewayCreates(s) \/ GatewayCaptures(s) \/ GatewayCancels(s)
  BY <1>6 DEF Step, Insert, FinishCreate, FinishCapture, Compensate, CancelPayment,
       FinishCancel, GatewayReads, FinishProcess, FinishReconcile
<1>7. ASSUME NEW s \in Sessions, NEW k \in Keys, Begin(s, k)
      PROVE  intent' = intent
  BY <1>7 DEF Begin, BeginCreate, BeginCapture, BeginCancel, CancelPayment, BeginProcess,
       BeginReconcile
<1>8. ASSUME NEW s \in Sessions, Crash(s)
      PROVE  intent' = intent
  BY <1>8 DEF Crash
<1>9. QED
  BY <1>1, <1>2, <1>3, <1>4, <1>5, <1>6, <1>7, <1>8 DEF Next, vars

\* The identities a session works with are payments, if they are not null.
LEMMA SessionIds ==
    ASSUME IInv, NEW s \in Sessions
    PROVE  /\ AtWork(s) /\ sess[s].copy.gw # NoIntent => sess[s].copy.gw \in Intents
           /\ sess[s].intent # NoIntent => sess[s].intent \in Intents
<1>1. sess[s].intent \in Intents \cup {NoIntent}
  BY DEF IInv, TypeOK, Session
<1>2. QED
  BY <1>1, CopyIsUsed

\* What a session that does nothing has learned stays true.
LEMMA LearnedStays ==
    ASSUME OInv, NEW s \in Sessions, FinalStays, sess'[s] = sess[s]
    PROVE  Identified(s)' /\ Learned(s)'
<1>1. Identified(s) /\ Learned(s)
  BY DEF OInv, OutcomeInv
<1>2. Identified(s)'
  BY <1>1 DEF Identified, At
<1>3. \A ops \in {{"capture"}, {"cancel"}, Reading} : At(s, "replied", ops) => AtWork(s)
  BY DEF At, AtWork, Holds, Creating, Reading
<1>4. At(s, "replied", {"capture", "cancel"}) => sess[s].copy.gw \in Intents
  BY <1>1, <1>3, SessionIds DEF OInv, Identified, At
<1>5. At(s, "replied", Reading) /\ sess[s].copy.gw # NoIntent => sess[s].copy.gw \in Intents
  BY <1>3, SessionIds DEF OInv
<1>6. sess[s].intent # NoIntent => sess[s].intent \in Intents
  BY SessionIds DEF OInv
<1>7. Learned(s)'
  BY <1>1, <1>4, <1>5, <1>6 DEF Learned, At, Holds, FinalStays, Final
<1>8. QED
  BY <1>2, <1>7

----------------------------------------------------------------------------
(* What the acting session learns                                          *)

LEMMA NothingLearned ==
    ASSUME NEW s \in Sessions, sess'[s].pc \notin {"calling", "replied"}
    PROVE  Identified(s)' /\ Learned(s)'
BY DEF Identified, Learned, At, Holds

LEMMA CallingLearnsNothing ==
    ASSUME NEW s \in Sessions, sess'[s].pc = "calling",
           sess'[s].op \in {"capture", "cancel"} => sess'[s].copy.gw # NoIntent,
           sess'[s].intent = NoIntent
    PROVE  Identified(s)' /\ Learned(s)'
BY DEF Identified, Learned, At, Holds

LEMMA RepliedFields ==
    ASSUME IInv, NEW s \in Sessions, NEW r, Replied(s, r)
    PROVE  /\ sess'[s].pc = "replied"
           /\ sess'[s].op = sess[s].op
           /\ sess'[s].copy = sess[s].copy
           /\ sess'[s].intent = sess[s].intent
           /\ sess'[s].reply = r
BY DEF IInv, TypeOK, Replied, Session

LEMMA CreateLearns ==
    ASSUME OInv, NEW s \in Sessions, GatewayCreates(s)
    PROVE  Identified(s)' /\ Learned(s)'
<1>0. IInv /\ sess \in [Sessions -> Session] /\ intent \in [Intents -> Intent]
  BY DEF OInv, IInv, TypeOK, StoreTypeOK
<1>1. sess[s].intent = NoIntent /\ sess[s].op \in Creating
  BY <1>0 DEF IInv, KeyInv, HolderInv, GatewayCreates, At
<1>2. sess[s].op \notin {"capture", "cancel"} \cup Reading
  BY <1>1 DEF Creating, Reading
<1>3. ASSUME NEW r, Replied(s, r)
      PROVE  Identified(s)' /\ Learned(s)'
  BY <1>0, <1>1, <1>2, <1>3, RepliedFields DEF Identified, Learned, At
<1>4. ASSUME NEW i \in Intents, NEW st, NEW p, NEW answer,
             intent' = Opened(i, sess[s].key, p, st), answer.state = st,
             sess' = [sess EXCEPT ![s].pc = "replied", ![s].intent = i, ![s].reply = answer]
      PROVE  Identified(s)' /\ Learned(s)'
  <2>1. /\ sess'[s].op = sess[s].op
        /\ sess'[s].intent = i
        /\ sess'[s].reply = answer
    BY <1>0, <1>4 DEF Session
  <2>2. intent'[i].state = st
    BY <1>0, <1>4 DEF Opened
  <2>3. QED
    BY <1>2, <1>4, <2>1, <2>2 DEF Identified, Learned, At
<1>5. CASE \E r : Replied(s, r)
  BY <1>3, <1>5
<1>6. CASE ~\E r : Replied(s, r)
  <2>1. PICK i \in Intents, st \in OpeningStates(sess[s].copy.provider) :
           LET answer == [ok |-> TRUE, state |-> st,
                          captured |-> IF st = "succeeded" THEN Total ELSE 0]
           IN  /\ intent' = Opened(i, sess[s].key, sess[s].copy.provider, st)
               /\ sess' = [sess EXCEPT ![s].pc = "replied",
                                       ![s].intent = i,
                                       ![s].reply = answer]
    BY <1>6 DEF GatewayCreates
  <2> DEFINE answer == [ok |-> TRUE, state |-> st,
                        captured |-> IF st = "succeeded" THEN Total ELSE 0]
  <2>2. /\ answer.state = st
        /\ intent' = Opened(i, sess[s].key, sess[s].copy.provider, st)
        /\ sess' = [sess EXCEPT ![s].pc = "replied", ![s].intent = i, ![s].reply = answer]
    BY <2>1
  <2> HIDE DEF answer
  <2>3. QED
    BY <1>4, <2>2
<1>7. QED
  BY <1>5, <1>6

LEMMA AnswerLearns ==
    ASSUME OInv, NEW s \in Sessions,
           GatewayCaptures(s) \/ GatewayCancels(s) \/ GatewayReads(s)
    PROVE  Identified(s)' /\ Learned(s)'
<1> DEFINE i == sess[s].copy.gw
<1>0. /\ IInv
      /\ intent \in [Intents -> Intent]
      /\ AtWork(s)
      /\ Identified(s)
      /\ i # NoIntent => i \in Intents
      /\ sess[s].intent = NoIntent
      /\ NoReply.ok = FALSE /\ NoReply.state = "unknown"
  BY SessionIds, AtWorkHoldsNothing
     DEF OInv, OutcomeInv, IInv, TypeOK, StoreTypeOK, GatewayCaptures, CapturedBy, GatewayCancels,
         GatewayReads, At, AtWork, Holds, Creating, Reading, NoReply
<1>1. CASE GatewayCaptures(s)
  <2>1. At(s, "calling", {"capture"}) /\ i \in Intents
    BY <1>0, <1>1 DEF GatewayCaptures, CapturedBy, Identified, At
  <2>2. PICK r : Replied(s, r) /\ (r.ok => intent'[i].state = "succeeded")
    BY <1>0, <1>1, <2>1 DEF GatewayCaptures, CapturedBy, Intent
  <2>3. QED
    BY <1>0, <2>1, <2>2, RepliedFields DEF Identified, Learned, At, Reading
<1>2. CASE GatewayCancels(s)
  <2>1. At(s, "calling", {"cancel"}) /\ i \in Intents
    BY <1>0, <1>2 DEF GatewayCancels, Identified, At
  <2>2. PICK r : Replied(s, r) /\ (r.ok => intent'[i].state = "canceled")
    <3>1. CASE Replied(s, NoReply)
      BY <1>0, <3>1
    <3>2. CASE ~Replied(s, NoReply)
      <4>1. \E ok \in BOOLEAN : Replied(s, [NoReply EXCEPT !.ok = ok])
        BY <1>2, <3>2 DEF GatewayCancels
      <4>2. intent'[i].state = "canceled"
        BY <1>0, <1>2, <2>1, <3>2 DEF GatewayCancels, Intent
      <4>3. QED
        BY <4>1, <4>2
    <3>3. QED
      BY <3>1, <3>2
  <2>3. QED
    BY <1>0, <2>1, <2>2, RepliedFields DEF Identified, Learned, At, Reading
<1>3. CASE GatewayReads(s)
  <2>1. At(s, "calling", Reading) /\ intent' = intent
    BY <1>3 DEF GatewayReads
  <2>2. PICK r : /\ Replied(s, r)
                 /\ r.state \in Final => i # NoIntent /\ intent[i].state = r.state
    <3>1. CASE \E ok \in BOOLEAN : Replied(s, [NoReply EXCEPT !.ok = ok])
      <4>1. PICK ok \in BOOLEAN : Replied(s, [NoReply EXCEPT !.ok = ok])
        BY <3>1
      <4>2. [NoReply EXCEPT !.ok = ok].state \notin Final
        BY DEF NoReply, Final
      <4>3. QED
        BY <4>1, <4>2
    <3>2. CASE Replied(s, NoReply)
      <4>1. NoReply.state \notin Final
        BY DEF NoReply, Final
      <4>2. QED
        BY <3>2, <4>1
    <3>3. CASE i # NoIntent /\ Replied(s, [ok |-> TRUE, state |-> intent[i].state,
                                           captured |-> intent[i].captured])
      BY <3>3
    <3>4. QED
      BY <1>3, <3>1, <3>2, <3>3 DEF GatewayReads
  <2>3. sess[s].op \notin {"capture", "cancel"}
    BY <2>1 DEF At, Reading
  <2>4. QED
    BY <1>0, <2>1, <2>2, <2>3, RepliedFields DEF Identified, Learned, At
<1>4. QED
  BY <1>1, <1>2, <1>3

\* Every other step of a session ends it, or leaves it about to call.
LEMMA OtherStepsLearnNothing ==
    ASSUME OInv, NEW s \in Sessions,
           \/ Insert(s) \/ FinishCreate(s) \/ FinishCapture(s) \/ Compensate(s)
           \/ FinishCancel(s) \/ FinishProcess(s) \/ FinishReconcile(s)
    PROVE  Identified(s)' /\ Learned(s)'
<1>0. /\ IInv
      /\ sess \in [Sessions -> Session]
      /\ Idle.pc = "idle"
  BY DEF OInv, IInv, TypeOK, Idle
<1>1. CASE sess' = [sess EXCEPT ![s] = Idle]
  BY <1>0, <1>1, NothingLearned
<1>2. CASE Insert(s)
  <2>1. CASE sess' = [sess EXCEPT ![s].pc = "calling"]
    <3>1. sess'[s].pc = "calling" /\ sess'[s].op = sess[s].op /\ sess'[s].intent = sess[s].intent
      BY <1>0, <2>1 DEF Session
    <3>2. sess[s].op \notin {"capture", "cancel"}
      BY <1>2 DEF Insert, At, Creating
    <3>3. sess[s].intent = NoIntent
      BY <1>0, <1>2, AtWorkHoldsNothing DEF Insert, At, Holds
    <3>4. QED
      BY <3>1, <3>2, <3>3, CallingLearnsNothing
  <2>2. QED
    BY <1>1, <1>2, <2>1 DEF Insert
<1>3. ASSUME NEW k, NEW r, NEW amount, sess' = [sess EXCEPT ![s] = CaptureSession(k, r, amount)]
      PROVE  Identified(s)' /\ Learned(s)'
  <2>1. /\ sess'[s].copy = r
        /\ sess'[s].intent = NoIntent
        /\ sess'[s].pc = IF r.gw = NoIntent THEN "compensating" ELSE "calling"
    BY <1>0, <1>3 DEF CaptureSession, Calling, Idle
  <2>2. QED
    BY <2>1, NothingLearned, CallingLearnsNothing
<1>4. ASSUME NEW k, NEW r, CancelPayment(s, k, r)
      PROVE  Identified(s)' /\ Learned(s)'
  <2>1. CASE r.gw # NoIntent
    <3>1. sess'[s].copy = r /\ sess'[s].intent = NoIntent /\ sess'[s].pc = "calling"
      BY <1>0, <1>4, <2>1 DEF CancelPayment, Calling, Idle
    <3>2. QED
      BY <2>1, <3>1, CallingLearnsNothing
  <2>2. QED
    BY <1>1, <1>4, <2>1 DEF CancelPayment
<1>5. CASE FinishCreate(s)
  BY <1>1, <1>3, <1>5 DEF FinishCreate
<1>6. CASE FinishCapture(s)
  <2>1. CASE sess'[s].pc = "compensating"
    BY <2>1, NothingLearned
  <2>2. QED
    BY <1>0, <1>1, <1>6, <2>1 DEF FinishCapture, Session
<1>7. CASE Compensate(s)
  BY <1>1, <1>4, <1>7 DEF Compensate
<1>8. QED
  BY <1>1, <1>2, <1>5, <1>6, <1>7 DEF FinishCancel, FinishProcess, FinishReconcile

LEMMA BeginLearnsNothing ==
    ASSUME OInv, NEW s \in Sessions, NEW k \in Keys, Begin(s, k)
    PROVE  Identified(s)' /\ Learned(s)'
<1>0. sess \in [Sessions -> Session] /\ Idle.pc = "idle"
  BY DEF OInv, IInv, TypeOK, Idle
<1>1. ASSUME NEW op \in Creating, NEW provider \in PaymentProvider,
             NEW requiresCapture \in BOOLEAN, BeginCreate(s, k, op, provider, requiresCapture)
      PROVE  Identified(s)' /\ Learned(s)'
  <2>1. sess'[s].pc = "checked"
    BY <1>0, <1>1 DEF BeginCreate, Idle
  <2>2. QED
    BY <2>1, NothingLearned
<1>2. ASSUME NEW amount \in 1..Total, BeginCapture(s, k, amount)
      PROVE  Identified(s)' /\ Learned(s)'
  <2>1. /\ sess'[s].copy = row[k]
        /\ sess'[s].intent = NoIntent
        /\ sess'[s].pc = IF row[k].gw = NoIntent THEN "compensating" ELSE "calling"
    BY <1>0, <1>2 DEF BeginCapture, CaptureSession, Calling, Idle
  <2>2. QED
    BY <2>1, NothingLearned, CallingLearnsNothing
<1>3. CASE BeginCancel(s, k)
  <2>1. CASE row[k].gw = NoIntent
    <3>1. sess'[s].pc = "idle"
      BY <1>0, <1>3, <2>1 DEF BeginCancel, CancelPayment
    <3>2. QED
      BY <3>1, NothingLearned
  <2>2. CASE row[k].gw # NoIntent
    <3>1. sess'[s].copy = row[k] /\ sess'[s].intent = NoIntent /\ sess'[s].pc = "calling"
      BY <1>0, <1>3, <2>2 DEF BeginCancel, CancelPayment, Calling, Idle
    <3>2. QED
      BY <2>2, <3>1, CallingLearnsNothing
  <2>3. QED
    BY <2>1, <2>2
<1>4. ASSUME NEW op \in Reading, sess' = [sess EXCEPT ![s] = Calling(op, k, row[k])]
      PROVE  Identified(s)' /\ Learned(s)'
  <2>1. sess'[s].op = op /\ sess'[s].intent = NoIntent /\ sess'[s].pc = "calling"
    BY <1>0, <1>4 DEF Calling, Idle
  <2>2. QED
    BY <2>1, CallingLearnsNothing DEF Reading
<1>5. CASE BeginProcess(s, k) \/ BeginReconcile(s, k)
  BY <1>4, <1>5 DEF BeginProcess, BeginReconcile, Reading
<1>6. QED
  BY <1>1, <1>2, <1>3, <1>5 DEF Begin

----------------------------------------------------------------------------
(* What the commits record                                                 *)

\* Row k tells the truth about the provider's payment.
TellsTruth(k) ==
    row[k].gw # NoIntent =>
        /\ row[k].status = "succeeded" => intent[row[k].gw].state = "succeeded"
        /\ row[k].status = "cancelled" => intent[row[k].gw].state = "canceled"

LEMMA RowStays ==
    ASSUME OInv, FinalStays, NEW k \in Keys,
           row'[k].gw = row[k].gw,
           row'[k].status \in {row[k].status, "failed", "processing", "authorized", "pending"}
    PROVE  TellsTruth(k)'
<1>1. TellsTruth(k) /\ row[k].gw \in Intents \cup {NoIntent}
  BY DEF OInv, OutcomeInv, OutcomesAreTrue, TellsTruth, IInv, TypeOK, StoreTypeOK, Row
<1>2. QED
  BY <1>1 DEF TellsTruth, FinalStays, Final

LEMMA CommitsAreTrue ==
    ASSUME OInv, FinalStays, NEW s \in Sessions, Step(s), NEW k \in Keys
    PROVE  TellsTruth(k)'
<1> DEFINE copy == sess[s].copy
           reply == sess[s].reply
<1>0. /\ IInv
      /\ row \in [Keys -> Row]
      /\ sess[s] \in Session
      /\ copy \in Row
      /\ Learned(s)
      /\ Identified(s)
      /\ AtWork(s) => copy.gw = row[sess[s].key].gw
  BY DEF OInv, OutcomeInv, IInv, TypeOK, StoreTypeOK, KeyInv, CopyInv, Session
<1>1. CASE row'[k] = row[k]
  BY <1>1, RowStays
<1>2. CASE FinishCreate(s)
  <2>1. CASE k = sess[s].key
    <3>1. /\ copy.gw = NoIntent
          /\ At(s, "replied", Creating)
          /\ Holds(s)
          /\ intent' = intent
      BY <1>0, <1>2 DEF FinishCreate, At, Holds, IInv, KeyInv, HolderInv
    <3>2. CASE reply.ok
      <4> DEFINE word == NormalizeCreated(copy.provider, reply.state)
      <4>1. /\ row'[k].status = ResolvePaymentStatus(word, sess[s].requiresCapture)
            /\ row'[k].gw = sess[s].intent
        BY <1>0, <1>2, <2>1, <3>2 DEF FinishCreate, Row
      <4>2. row'[k].status = "succeeded" => reply.state = "succeeded"
        BY <4>1 DEF ResolvePaymentStatus, NormalizeCreated
      <4>3. row'[k].status # "cancelled"
        BY <4>1 DEF ResolvePaymentStatus
      <4>4. QED
        BY <1>0, <3>1, <4>1, <4>2, <4>3 DEF TellsTruth, Learned
    <3>3. CASE ~reply.ok
      <4>1. row'[k].status = "failed" /\ row'[k].gw = NoIntent
        BY <1>0, <1>2, <2>1, <3>1, <3>3 DEF FinishCreate, MarkedFailed, Row
      <4>2. QED
        BY <4>1 DEF TellsTruth
    <3>4. QED
      BY <3>2, <3>3
  <2>2. CASE k # sess[s].key
    BY <1>0, <1>1, <1>2, <2>2 DEF FinishCreate
  <2>3. QED
    BY <2>1, <2>2
<1>3. CASE FinishCapture(s)
  <2>1. CASE k = sess[s].key
    <3>1. At(s, "replied", {"capture"}) /\ AtWork(s) /\ intent' = intent
      BY <1>3 DEF FinishCapture, At, AtWork, Holds, Creating
    <3>2. row'[k].gw = row[k].gw
      BY <1>0, <1>3, <2>1 DEF FinishCapture, Row
    <3>3. row'[k].status = IF reply.ok THEN "succeeded" ELSE "failed"
      BY <1>0, <1>3, <2>1 DEF FinishCapture, Row
    <3>4. QED
      BY <1>0, <2>1, <3>1, <3>2, <3>3 DEF TellsTruth, Learned
  <2>2. CASE k # sess[s].key
    BY <1>0, <1>1, <1>3, <2>2 DEF FinishCapture
  <2>3. QED
    BY <2>1, <2>2
<1>4. CASE Compensate(s)
  <2>1. CASE k = sess[s].key /\ row' # row
    <3>1. copy.gw = NoIntent /\ AtWork(s)
      BY <1>4, <2>1 DEF Compensate, CancelPayment, AtWork, Holds
    <3>2. row'[k].gw = row[k].gw
      BY <1>0, <1>4, <2>1 DEF Compensate, CancelPayment, Row
    <3>3. QED
      BY <1>0, <2>1, <3>1, <3>2 DEF TellsTruth
  <2>2. CASE k # sess[s].key \/ row' = row
    BY <1>0, <1>1, <1>4, <2>2 DEF Compensate, CancelPayment
  <2>3. QED
    BY <2>1, <2>2
<1>5. CASE FinishCancel(s)
  <2>1. CASE k = sess[s].key /\ reply.ok
    <3>1. At(s, "replied", {"cancel"}) /\ AtWork(s) /\ intent' = intent
      BY <1>5 DEF FinishCancel, At, AtWork, Holds, Creating
    <3>2. row'[k].gw = row[k].gw /\ row'[k].status = "cancelled"
      BY <1>0, <1>5, <2>1 DEF FinishCancel, Row
    <3>3. QED
      BY <1>0, <2>1, <3>1, <3>2 DEF TellsTruth, Learned
  <2>2. CASE k # sess[s].key \/ ~reply.ok
    BY <1>0, <1>1, <1>5, <2>2 DEF FinishCancel
  <2>3. QED
    BY <2>1, <2>2
<1>6. ASSUME NEW status, NEW withAmount,
             At(s, "replied", Reading), intent' = intent,
             status = "succeeded" => reply.state = "succeeded",
             status = "cancelled" => reply.state = "canceled",
             row' = row \/ row' = Synchronized(s, status, withAmount)
      PROVE  TellsTruth(k)'
  <2>1. CASE k = sess[s].key /\ row' = Synchronized(s, status, withAmount)
    <3>1. row'[k].gw = row[k].gw /\ row'[k].status \in {row[k].status, status}
      BY <1>0, <2>1 DEF Synchronized, Written, Row
    <3>2. AtWork(s)
      BY <1>6 DEF At, AtWork, Holds, Creating, Reading
    <3>3. CASE row'[k].status = row[k].status
      BY <3>1, <3>3, RowStays
    <3>4. CASE row'[k].status = status
      BY <1>0, <1>6, <2>1, <3>1, <3>2, <3>4 DEF TellsTruth, Learned, Final
    <3>5. QED
      BY <3>1, <3>3, <3>4
  <2>2. CASE k # sess[s].key \/ row' = row
    BY <1>0, <1>1, <1>6, <2>2 DEF Synchronized
  <2>3. QED
    BY <1>6, <2>1, <2>2
<1>7. \A word : /\ PolledStatus(word) = "succeeded" => word = "succeeded"
                /\ PolledStatus(word) = "cancelled" => word = "canceled"
                /\ NormalizeExternalStatus(word) = "succeeded" => word = "succeeded"
                /\ NormalizeExternalStatus(word) = "cancelled" => word = "canceled"
  BY DEF PolledStatus, NormalizeExternalStatus
<1>8. CASE FinishProcess(s)
  <2>1. At(s, "replied", Reading) /\ intent' = intent
    BY <1>8 DEF FinishProcess, At, Reading
  <2>2. QED
    BY <1>6, <1>7, <1>8, <2>1 DEF FinishProcess
<1>9. CASE FinishReconcile(s)
  <2>1. At(s, "replied", Reading) /\ intent' = intent
    BY <1>9 DEF FinishReconcile, At, Reading
  <2>2. QED
    BY <1>6, <1>7, <1>9, <2>1 DEF FinishReconcile
<1>10. QED
  BY <1>1, <1>2, <1>3, <1>4, <1>5, <1>8, <1>9
     DEF Step, Insert, GatewayCreates, GatewayCaptures, CapturedBy, GatewayCancels, GatewayReads

----------------------------------------------------------------------------
(* The theorem                                                             *)

LEMMA InitOInv == Init => OInv
<1> SUFFICES ASSUME Init PROVE OInv
  OBVIOUS
<1>1. IInv
  BY InitIInv
<1>2. \A s \in Sessions : Identified(s) /\ Learned(s)
  BY DEF Init, Identified, Learned, At, Holds, Idle
<1>3. OutcomesAreTrue
  BY DEF Init, StoreInit, NoRow, OutcomesAreTrue
<1>4. QED
  BY <1>1, <1>2, <1>3 DEF OInv, OutcomeInv

\* A session changes no other one.
LEMMA OthersRest ==
    ASSUME IInv, NEW s \in Sessions, NEW t \in Sessions \ {s},
           Step(t) \/ Crash(t) \/ \E k \in Keys : Begin(t, k)
    PROVE  sess'[s] = sess[s]
<1>0. sess \in [Sessions -> Session]
  BY DEF IInv, TypeOK
<1>1. CASE Crash(t)
  BY <1>0, <1>1 DEF Crash
<1>2. CASE \E k \in Keys : Begin(t, k)
  BY <1>2, QuietBegins DEF Quiet
<1>3. CASE Step(t)
  BY <1>0, <1>3
     DEF Step, Insert, GatewayCreates, FinishCreate, GatewayCaptures, CapturedBy, FinishCapture,
         Compensate, CancelPayment, GatewayCancels, FinishCancel, GatewayReads,
         FinishProcess, FinishReconcile, Replied
<1>4. QED
  BY <1>1, <1>2, <1>3

LEMMA NextOInv == OInv /\ [Next]_vars => OInv'
<1> SUFFICES ASSUME OInv, [Next]_vars PROVE OInv'
  OBVIOUS
<1>1. IInv /\ IInv'
  BY NextIInv DEF OInv
<1>2. FinalStays
  BY <1>1, StepKeepsFinal
<1>3. sess \in [Sessions -> Session]
  BY <1>1 DEF IInv, TypeOK
<1>4. ASSUME NEW s \in Sessions
      PROVE  Identified(s)' /\ Learned(s)'
  <2>1. CASE sess'[s] = sess[s]
    BY <1>2, <2>1, LearnedStays
  <2>2. CASE Step(s)
    BY <2>2, CreateLearns, AnswerLearns, OtherStepsLearnNothing DEF Step
  <2>3. ASSUME NEW k \in Keys, Begin(s, k)
        PROVE  Identified(s)' /\ Learned(s)'
    BY <2>3, BeginLearnsNothing
  <2>4. CASE Crash(s)
    BY <1>3, <2>4, NothingLearned DEF Crash, Idle
  <2>5. ASSUME NEW t \in Sessions \ {s}, Step(t) \/ Crash(t) \/ \E k \in Keys : Begin(t, k)
        PROVE  sess'[s] = sess[s]
    BY <1>1, <2>5, OthersRest
  <2>6. QED
    BY <2>1, <2>2, <2>3, <2>4, <2>5 DEF Next, Settle, vars
<1>5. ASSUME NEW k \in Keys
      PROVE  TellsTruth(k)'
  <2>1. ASSUME NEW s \in Sessions, Step(s)
        PROVE  TellsTruth(k)'
    BY <1>2, <2>1, CommitsAreTrue
  <2>2. CASE row' = row
    BY <1>2, <2>2, RowStays
  <2>3. ASSUME NEW s \in Sessions, NEW j \in Keys, Begin(s, j), row' # row
        PROVE  TellsTruth(k)'
    <3>1. BeginCancel(s, j) /\ row[j].gw = NoIntent
      BY <2>3 DEF Begin, BeginCreate, BeginCapture, BeginCancel, CancelPayment,
           BeginProcess, BeginReconcile
    <3>2. /\ row'[j].gw = NoIntent
          /\ j # k => row'[k] = row[k]
      BY <1>1, <3>1 DEF BeginCancel, CancelPayment, IInv, TypeOK, StoreTypeOK, Row
    <3>3. QED
      BY <1>2, <3>2, RowStays DEF TellsTruth
  <2>4. QED
    BY <2>1, <2>2, <2>3 DEF Next, Crash, Settle, GatewaySettles, vars
<1>6. OutcomesAreTrue'
  BY <1>5 DEF OutcomesAreTrue, TellsTruth
<1>7. QED
  BY <1>1, <1>4, <1>6 DEF OInv, OutcomeInv

\* A payment recorded as captured, or as cancelled with a provider id, was
\* captured or cancelled by the provider, however sessions overlap, die and
\* write back what they learned late.
THEOREM OutcomesTrue == Spec => []OutcomesAreTrue
<1>1. OInv => OutcomesAreTrue
  BY DEF OInv, OutcomeInv
<1>2. QED
  BY InitOInv, NextOInv, <1>1, PTL DEF Spec

----------------------------------------------------------------------------
(* What a session read before it called, and the amounts captured          *)

\* An operation was begun on a row that allowed it, and a payment without a
\* provider id is captured by none.
ReadInv(s) ==
    /\ At(s, "calling", {"capture"}) \/ At(s, "replied", {"capture"}) =>
          sess[s].copy.status = "authorized"
    /\ At(s, "calling", {"cancel"}) \/ At(s, "replied", {"cancel"}) =>
          sess[s].copy.status \in Cancellable
    /\ At(s, "calling", {"process"}) \/ At(s, "replied", {"process"}) =>
          sess[s].copy.status \notin {"succeeded", "cancelled"}
    /\ AtWork(s) /\ sess[s].copy.gw = NoIntent /\ row[sess[s].key].status = "succeeded" =>
          sess[s].copy.status = "succeeded"

\* Nothing is captured of a payment that has not succeeded.
IntentAmount(i) == intent[i].state # "succeeded" => intent[i].captured = 0

\* A row holds the provider's amount or none yet, and that amount once it says
\* "succeeded".
RowAmount(k) ==
    row[k].gw # NoIntent /\ row[k].provider = "stripe" =>
        /\ row[k].captured \in {0, intent[row[k].gw].captured}
        /\ row[k].status = "succeeded" => row[k].captured = intent[row[k].gw].captured

\* So the amount of a stale copy is the row's, or none.
CopyAmount(s) ==
    AtWork(s) =>
        /\ sess[s].copy.provider = row[sess[s].key].provider
        /\ sess[s].copy.gw # NoIntent /\ sess[s].copy.provider = "stripe" =>
              sess[s].copy.captured \in {0, row[sess[s].key].captured}

\* An answer that reports a capture carries its amount; one that does not
\* carries none, and nothing had been recorded when the row was read.  Without
\* an id nothing is reported.
ReplyAmount(s) ==
    /\ At(s, "replied", Reading) /\ sess[s].copy.gw = NoIntent =>
          sess[s].reply.state = "unknown"
    /\ At(s, "replied", {"capture"}) /\ sess[s].reply.ok =>
          sess[s].reply.captured = intent[sess[s].copy.gw].captured
    /\ At(s, "replied", Reading) /\ sess[s].copy.gw # NoIntent /\ sess[s].reply.ok =>
          IF sess[s].reply.state = "succeeded"
            THEN sess[s].reply.captured = intent[sess[s].copy.gw].captured
            ELSE /\ sess[s].reply.captured = 0
                 /\ sess[s].copy.provider = "stripe" => sess[s].copy.captured = 0
    /\ Holds(s) /\ sess[s].intent # NoIntent =>
          IF sess[s].reply.state = "succeeded"
            THEN sess[s].reply.captured = intent[sess[s].intent].captured
            ELSE sess[s].reply.captured = 0

AmountInv ==
    /\ \A s \in Sessions : ReadInv(s) /\ CopyAmount(s) /\ ReplyAmount(s)
    /\ \A i \in Intents : IntentAmount(i)
    /\ \A k \in Keys : RowAmount(k)

AInv == OInv /\ AmountInv

\* Everything session s knows of rows and amounts.
Informed(s) == ReadInv(s) /\ CopyAmount(s) /\ ReplyAmount(s)

----------------------------------------------------------------------------
\* What the provider has captured is final, and nothing else is captured.
AmountsFinal ==
    \A i \in Intents :
        /\ IntentAmount(i)'
        /\ intent[i].state = "succeeded" => intent'[i].captured = intent[i].captured

LEMMA StepKeepsAmounts ==
    ASSUME AInv, [Next]_vars
    PROVE  AmountsFinal
<1> USE DEF AmountsFinal, IntentAmount
<1>0. /\ intent \in [Intents -> Intent]
      /\ \A i \in Intents : IntentAmount(i)
  BY DEF AInv, AmountInv, OInv, IInv, TypeOK, StoreTypeOK
<1>1. intent' = intent => AmountsFinal
  BY <1>0
<1>2. ASSUME NEW s \in Sessions, GatewayCreates(s)
      PROVE  AmountsFinal
  <2>1. CASE intent' = intent
    BY <1>1, <2>1
  <2>2. CASE intent' # intent
    <3>1. PICK i \in Intents : \E st \in OpeningStates(sess[s].copy.provider) :
             /\ intent[i].state = "unused"
             /\ intent' = Opened(i, sess[s].key, sess[s].copy.provider, st)
      BY <1>2, <2>2 DEF GatewayCreates
    <3>2. intent'[i].state # "succeeded" => intent'[i].captured = 0
      BY <1>0, <3>1 DEF Opened
    <3>3. \A j \in Intents \ {i} : intent'[j] = intent[j]
      BY <1>0, <3>1 DEF Opened
    <3>4. QED
      BY <1>0, <3>1, <3>2, <3>3
  <2>3. QED
    BY <2>1, <2>2
<1>3. ASSUME NEW s \in Sessions, GatewayCaptures(s)
      PROVE  AmountsFinal
  <2> DEFINE i == sess[s].copy.gw
  <2>1. CASE intent' = intent
    BY <1>1, <2>1
  <2>2. CASE intent' # intent
    <3>1. /\ intent[i].state # "succeeded"
          /\ \E n : intent' = [intent EXCEPT ![i].state = "succeeded", ![i].captured = n]
      BY <1>3, <2>2 DEF GatewayCaptures, CapturedBy, MayCapture
    <3>2. i \in Intents => intent'[i].state = "succeeded"
      BY <1>0, <3>1 DEF Intent
    <3>3. \A j \in Intents \ {i} : intent'[j] = intent[j]
      BY <1>0, <3>1
    <3>4. QED
      BY <1>0, <3>1, <3>2, <3>3
  <2>3. QED
    BY <2>1, <2>2
<1>4. ASSUME NEW s \in Sessions, GatewayCancels(s)
      PROVE  AmountsFinal
  BY <1>0, <1>4 DEF GatewayCancels, MayCancel, Intent
<1>5. ASSUME NEW i \in Intents, Settle(i)
      PROVE  AmountsFinal
  BY <1>0, <1>5 DEF Settle, GatewaySettles, Intent
<1>6. ASSUME NEW s \in Sessions, Step(s)
      PROVE  intent' = intent \/ GatewayCreates(s) \/ GatewayCaptures(s) \/ GatewayCancels(s)
  BY <1>6 DEF Step, Insert, FinishCreate, FinishCapture, Compensate, CancelPayment,
       FinishCancel, GatewayReads, FinishProcess, FinishReconcile
<1>7. ASSUME NEW s \in Sessions, NEW k \in Keys, Begin(s, k)
      PROVE  intent' = intent
  BY <1>7 DEF Begin, BeginCreate, BeginCapture, BeginCancel, CancelPayment, BeginProcess,
       BeginReconcile
<1>8. ASSUME NEW s \in Sessions, Crash(s)
      PROVE  intent' = intent
  BY <1>8 DEF Crash
<1>9. QED
  BY <1>1, <1>2, <1>3, <1>4, <1>5, <1>6, <1>7, <1>8 DEF Next, vars

----------------------------------------------------------------------------
\* How the commits move a row that exists: its provider and its provider id
\* stay, and its amount is the one it had or the provider's.
RowMoves(k) ==
    Exists(k) =>
        /\ row'[k].provider = row[k].provider
        /\ row'[k].gw = row[k].gw
        /\ row[k].gw = NoIntent /\ row'[k].status = "succeeded" => row[k].status = "succeeded"
        /\ row[k].gw # NoIntent /\ row[k].provider = "stripe" =>
              /\ row'[k].captured \in {row[k].captured, intent[row[k].gw].captured}
              /\ row'[k].status = "succeeded" =>
                    row'[k].captured = intent[row[k].gw].captured

LEMMA RowUntouchedMoves ==
    ASSUME AInv, NEW k \in Keys,
           row'[k].provider = row[k].provider,
           row'[k].gw = row[k].gw,
           row'[k].captured = row[k].captured,
           row'[k].status \in {row[k].status, "failed", "processing", "authorized",
                               "pending", "cancelled"}
    PROVE  RowMoves(k)
BY DEF RowMoves, AInv, AmountInv, RowAmount

\* What is reported of a payment, written to its row.
LEMMA SynchronizedMoves ==
    ASSUME AInv, NEW s \in Sessions, NEW status, NEW withAmount,
           At(s, "replied", Reading), sess[s].reply.ok,
           row' = Synchronized(s, status, withAmount),
           status = "succeeded" => sess[s].reply.state = "succeeded" /\ withAmount,
           sess[s].copy.gw = NoIntent => status # "succeeded"
    PROVE  RowMoves(sess[s].key)
<1> DEFINE k == sess[s].key
           copy == sess[s].copy
           reply == sess[s].reply
<1>0. /\ row \in [Keys -> Row]
      /\ k \in Keys
      /\ AtWork(s)
      /\ copy.gw = row[k].gw
      /\ copy.provider = row[k].provider
      /\ RowAmount(k)
      /\ ReplyAmount(s)
      /\ CopyAmount(s)
  BY DEF AInv, AmountInv, OInv, IInv, TypeOK, StoreTypeOK, KeyInv, CopyInv, CopyAmount, At,
         AtWork, Holds, Creating, Reading
<1>1. /\ row'[k].provider = row[k].provider
      /\ row'[k].gw = row[k].gw
      /\ row'[k].status = Written(row[k].status, copy.status, status)
      /\ row'[k].captured = IF withAmount /\ ReportsCaptured(copy.provider)
                              THEN Written(row[k].captured, copy.captured, reply.captured)
                              ELSE row[k].captured
  BY <1>0 DEF Synchronized, Row
<1>2. row'[k].status = "succeeded" => row[k].status = "succeeded" \/ status = "succeeded"
  BY <1>1 DEF Written
<1>3. CASE row[k].gw # NoIntent /\ row[k].provider = "stripe"
  <2>1. copy.captured \in {0, row[k].captured}
    BY <1>0, <1>3 DEF CopyAmount
  <2>2. ReportsCaptured(copy.provider)
    BY <1>0, <1>3 DEF ReportsCaptured
  <2>3. CASE reply.state = "succeeded"
    <3>1. reply.captured = intent[row[k].gw].captured
      BY <1>0, <1>3, <2>3 DEF ReplyAmount
    <3>2. row[k].captured \in {0, intent[row[k].gw].captured}
      BY <1>0, <1>3 DEF RowAmount
    <3>3. withAmount => row'[k].captured = intent[row[k].gw].captured
      BY <1>1, <2>1, <2>2, <3>1, <3>2 DEF Written
    <3>4. ~withAmount => row'[k].captured = row[k].captured /\ status # "succeeded"
      BY <1>1
    <3>5. QED
      BY <1>0, <1>1, <1>2, <1>3, <3>3, <3>4 DEF RowMoves, RowAmount
  <2>4. CASE reply.state # "succeeded"
    <3>1. reply.captured = 0 /\ copy.captured = 0
      BY <1>0, <1>3, <2>4 DEF ReplyAmount
    <3>2. row'[k].captured = row[k].captured
      BY <1>1, <3>1 DEF Written
    <3>3. status # "succeeded"
      BY <2>4
    <3>4. QED
      BY <1>0, <1>1, <1>2, <1>3, <3>2, <3>3 DEF RowMoves, RowAmount
  <2>5. QED
    BY <2>3, <2>4
<1>4. CASE ~(row[k].gw # NoIntent /\ row[k].provider = "stripe")
  BY <1>0, <1>1, <1>2, <1>4 DEF RowMoves
<1>5. QED
  BY <1>3, <1>4

LEMMA CommitsMove ==
    ASSUME AInv, NEW s \in Sessions, Step(s), NEW k \in Keys
    PROVE  RowMoves(k)
<1> DEFINE copy == sess[s].copy
           reply == sess[s].reply
<1>0. /\ row \in [Keys -> Row]
      /\ RowAmount(k)
      /\ AtWork(s) => copy.gw = row[sess[s].key].gw
      /\ Identified(s) /\ ReadInv(s) /\ CopyAmount(s) /\ ReplyAmount(s)
  BY DEF AInv, AmountInv, OInv, OutcomeInv, IInv, TypeOK, StoreTypeOK, KeyInv, CopyInv
<1>1. CASE row'[k] = row[k]
  BY <1>1, RowUntouchedMoves
<1>2. CASE FinishCreate(s)
  <2>1. k = sess[s].key => ~Exists(k)
    BY <1>2 DEF FinishCreate, At, Holds, AInv, OInv, IInv, KeyInv, HolderInv
  <2>2. k # sess[s].key => row'[k] = row[k]
    BY <1>0, <1>2 DEF FinishCreate
  <2>3. QED
    BY <1>1, <2>1, <2>2 DEF RowMoves
<1>3. CASE FinishCapture(s)
  <2>1. CASE k = sess[s].key
    <3>1. At(s, "replied", {"capture"}) /\ AtWork(s)
      BY <1>3 DEF FinishCapture, At, AtWork, Holds, Creating
    <3>2. copy.gw # NoIntent /\ row[k].gw # NoIntent
      BY <1>0, <2>1, <3>1 DEF Identified, At
    <3>3. row'[k].gw = row[k].gw /\ row'[k].provider = row[k].provider
      BY <1>0, <1>3, <2>1 DEF FinishCapture, Row
    <3>4. CASE reply.ok
      <4>1. row'[k].captured = Written(row[k].captured, copy.captured, reply.captured)
        BY <1>0, <1>3, <2>1, <3>4 DEF FinishCapture, Row
      <4>2. reply.captured = intent[row[k].gw].captured
        BY <1>0, <2>1, <3>1, <3>4 DEF ReplyAmount
      <4>3. ASSUME row[k].provider = "stripe"
            PROVE  row'[k].captured = intent[row[k].gw].captured
        <5>1. copy.captured \in {0, row[k].captured}
          BY <1>0, <2>1, <3>1, <3>2, <4>3 DEF CopyAmount
        <5>2. row[k].captured \in {0, intent[row[k].gw].captured}
          BY <1>0, <3>2, <4>3 DEF RowAmount
        <5>3. QED
          BY <4>1, <4>2, <5>1, <5>2 DEF Written
      <4>4. QED
        BY <3>2, <3>3, <4>3 DEF RowMoves
    <3>5. CASE ~reply.ok
      <4>1. row'[k].status = "failed" /\ row'[k].captured = row[k].captured
        BY <1>0, <1>3, <2>1, <3>5 DEF FinishCapture, Row
      <4>2. QED
        BY <3>3, <4>1, RowUntouchedMoves
    <3>6. QED
      BY <3>4, <3>5
  <2>2. CASE k # sess[s].key
    BY <1>0, <1>1, <1>3, <2>2 DEF FinishCapture
  <2>3. QED
    BY <2>1, <2>2
<1>4. ASSUME NEW j, row' = [row EXCEPT ![j].status = "cancelled"]
      PROVE  RowMoves(k)
  <2>1. CASE j = k
    <3>1. /\ row'[k].provider = row[k].provider
          /\ row'[k].gw = row[k].gw
          /\ row'[k].captured = row[k].captured
          /\ row'[k].status = "cancelled"
      BY <1>0, <1>4, <2>1 DEF Row
    <3>2. QED
      BY <3>1, RowUntouchedMoves
  <2>2. CASE j # k
    BY <1>0, <1>1, <1>4, <2>2
  <2>3. QED
    BY <2>1, <2>2
<1>5. CASE Compensate(s) \/ FinishCancel(s)
  BY <1>1, <1>4, <1>5 DEF Compensate, CancelPayment, FinishCancel
<1>6. \A word : /\ PolledStatus(word) = "succeeded" => word = "succeeded"
                /\ NormalizeExternalStatus(word) = "succeeded" => word = "succeeded"
  BY DEF PolledStatus, NormalizeExternalStatus
<1>7. At(s, "replied", Reading) /\ copy.gw = NoIntent => reply.state # "succeeded"
  BY <1>0 DEF ReplyAmount
<1>8. ASSUME NEW status, NEW withAmount,
             At(s, "replied", Reading), reply.ok,
             row' = Synchronized(s, status, withAmount),
             status = "succeeded" => reply.state = "succeeded" /\ withAmount
      PROVE  RowMoves(k)
  <2>1. CASE k = sess[s].key
    <3>1. copy.gw = NoIntent => status # "succeeded"
      BY <1>7, <1>8
    <3>2. QED
      BY <1>8, <2>1, <3>1, SynchronizedMoves
  <2>2. CASE k # sess[s].key
    BY <1>0, <1>1, <1>8, <2>2 DEF Synchronized
  <2>3. QED
    BY <2>1, <2>2
<1>9. CASE FinishProcess(s)
  <2> DEFINE status == PolledStatus(reply.state)
  <2>1. At(s, "replied", Reading)
    BY <1>9 DEF FinishProcess, At, Reading
  <2>2. CASE row' = row
    BY <1>1, <2>2
  <2>3. CASE row' # row
    <3>1. reply.ok /\ row' = Synchronized(s, status, status = "succeeded")
      BY <1>9, <2>3 DEF FinishProcess
    <3>2. status = "succeeded" => reply.state = "succeeded"
      BY <1>6
    <3> HIDE DEF status
    <3>3. QED
      BY <1>8, <2>1, <3>1, <3>2
  <2>4. QED
    BY <2>2, <2>3
<1>10. CASE FinishReconcile(s)
  <2> DEFINE status == NormalizeExternalStatus(reply.state)
  <2>1. At(s, "replied", Reading)
    BY <1>10 DEF FinishReconcile, At, Reading
  <2>2. CASE row' = row
    BY <1>1, <2>2
  <2>3. CASE row' # row
    <3>1. reply.ok /\ row' = Synchronized(s, status, TRUE)
      BY <1>10, <2>3 DEF FinishReconcile
    <3>2. status = "succeeded" => reply.state = "succeeded"
      BY <1>6
    <3> HIDE DEF status
    <3>3. QED
      BY <1>8, <2>1, <3>1, <3>2
  <2>4. QED
    BY <2>2, <2>3
<1>11. QED
  BY <1>1, <1>2, <1>3, <1>5, <1>9, <1>10
     DEF Step, Insert, GatewayCreates, GatewayCaptures, CapturedBy, GatewayCancels, GatewayReads

\* The row that a request inserts has the amount of the answer.
LEMMA CreatedAmount ==
    ASSUME AInv, NEW s \in Sessions, FinishCreate(s), NEW k \in Keys, k = sess[s].key
    PROVE  RowAmount(k)'
<1> DEFINE copy == sess[s].copy
           reply == sess[s].reply
<1>0. /\ row \in [Keys -> Row]
      /\ copy \in Row
      /\ copy.gw = NoIntent
      /\ Holds(s)
      /\ ReplyAmount(s)
      /\ intent' = intent
  BY DEF AInv, AmountInv, OInv, IInv, TypeOK, StoreTypeOK, Session, KeyInv, CopyInv, HolderInv,
         FinishCreate, At, Holds
<1>1. CASE reply.ok
  <2> DEFINE word == NormalizeCreated(copy.provider, reply.state)
  <2>1. /\ row'[k].status = ResolvePaymentStatus(word, sess[s].requiresCapture)
        /\ row'[k].gw = sess[s].intent
        /\ row'[k].captured = reply.captured
    BY <1>0, <1>1 DEF FinishCreate, Row
  <2>2. row'[k].status = "succeeded" => reply.state = "succeeded"
    BY <2>1 DEF ResolvePaymentStatus, NormalizeCreated
  <2>3. sess[s].intent # NoIntent =>
            IF reply.state = "succeeded"
              THEN reply.captured = intent[sess[s].intent].captured
              ELSE reply.captured = 0
    BY <1>0 DEF ReplyAmount
  <2> HIDE DEF reply
  <2>4. QED
    BY <1>0, <2>1, <2>2, <2>3 DEF RowAmount
<1>2. CASE ~reply.ok
  <2>1. row'[k].gw = NoIntent
    BY <1>0, <1>2 DEF FinishCreate, MarkedFailed, Row
  <2>2. QED
    BY <2>1 DEF RowAmount
<1>3. QED
  BY <1>1, <1>2

\* An existing row that moves keeps a true amount.
LEMMA MovedAmount ==
    ASSUME AInv, FinalStays, AmountsFinal, NEW k \in Keys, Exists(k), RowMoves(k),
           row'[k] = row[k] \/ intent' = intent
    PROVE  RowAmount(k)'
<1> DEFINE i == row[k].gw
<1>1. /\ RowAmount(k)
      /\ i \in Intents \cup {NoIntent}
      /\ row'[k].gw = i
      /\ row'[k].provider = row[k].provider
  BY DEF AInv, AmountInv, OInv, IInv, TypeOK, StoreTypeOK, Row, RowMoves
<1>2. CASE i # NoIntent /\ row[k].provider = "stripe"
  <2>1. /\ row'[k].captured \in {row[k].captured, intent[i].captured}
        /\ row'[k].status = "succeeded" => row'[k].captured = intent[i].captured
        /\ row[k].captured \in {0, intent[i].captured}
    BY <1>1, <1>2 DEF RowMoves, RowAmount
  <2>2. CASE intent[i].state = "succeeded"
    <3>1. intent'[i].captured = intent[i].captured
      BY <1>1, <1>2, <2>2 DEF AmountsFinal
    <3>2. QED
      BY <1>1, <2>1, <3>1 DEF RowAmount
  <2>3. CASE intent[i].state # "succeeded"
    <3>1. intent[i].captured = 0
      BY <1>1, <1>2, <2>3 DEF AInv, AmountInv, IntentAmount
    <3>2. row'[k].captured = 0
      BY <2>1, <3>1
    <3>3. row'[k].status = "succeeded" => intent'[i].captured = 0
      <4>1. CASE row'[k] = row[k]
        BY <1>1, <1>2, <2>3, <4>1 DEF AInv, OInv, OutcomeInv, OutcomesAreTrue
      <4>2. CASE intent' = intent
        BY <3>1, <4>2
      <4>3. QED
        BY <4>1, <4>2
    <3>4. QED
      BY <1>1, <3>2, <3>3 DEF RowAmount
  <2>4. QED
    BY <2>2, <2>3
<1>3. CASE ~(i # NoIntent /\ row[k].provider = "stripe")
  BY <1>1, <1>3 DEF RowAmount
<1>4. QED
  BY <1>2, <1>3

----------------------------------------------------------------------------
(* What sessions know of rows and amounts, step by step                    *)

LEMMA InformedStays ==
    ASSUME AInv, AmountsFinal, NEW s \in Sessions, sess'[s] = sess[s],
           \A k \in Keys : RowMoves(k)
    PROVE  Informed(s)'
<1> DEFINE k == sess[s].key
           copy == sess[s].copy
<1>0. ReadInv(s) /\ CopyAmount(s) /\ ReplyAmount(s) /\ Learned(s) /\ Identified(s)
  BY DEF AInv, AmountInv, OInv, OutcomeInv
<1>1. AtWork(s) => k \in Keys /\ Exists(k) /\ copy.gw = row[k].gw
  BY DEF AInv, OInv, IInv, KeyInv, CopyInv, AtWork
<1>2. AtWork(s) => RowMoves(k) /\ RowAmount(k)
  BY <1>1 DEF AInv, AmountInv
<1>3. (AtWork(s)' <=> AtWork(s)) /\ (Holds(s)' <=> Holds(s))
  BY DEF AtWork, Holds
<1>4. AtWork(s) /\ copy.gw # NoIntent => copy.gw \in Intents
  BY SessionIds DEF AInv, OInv
<1>5. sess[s].intent # NoIntent => sess[s].intent \in Intents
  BY SessionIds DEF AInv, OInv
<1>6. \A ops \in {{"capture"}, Reading} : At(s, "replied", ops) => AtWork(s)
  BY DEF At, AtWork, Holds, Creating, Reading
<1>7. ReadInv(s)'
  <2>1. AtWork(s) /\ copy.gw = NoIntent /\ row'[k].status = "succeeded" =>
            copy.status = "succeeded"
    BY <1>0, <1>1, <1>2 DEF ReadInv, RowMoves
  <2>2. QED
    BY <1>0, <1>3, <2>1 DEF ReadInv, At
<1>8. CopyAmount(s)'
  <2>1. ASSUME AtWork(s)
        PROVE  copy.provider = row'[k].provider
    BY <1>0, <1>1, <1>2, <2>1 DEF CopyAmount, RowMoves
  <2>2. ASSUME AtWork(s), copy.gw # NoIntent, copy.provider = "stripe"
        PROVE  copy.captured \in {0, row'[k].captured}
    <3>1. /\ copy.captured \in {0, row[k].captured}
          /\ row[k].provider = "stripe"
      BY <1>0, <2>2 DEF CopyAmount
    <3>2. row[k].captured \in {0, intent[copy.gw].captured}
      BY <1>1, <1>2, <2>2, <3>1 DEF RowAmount
    <3>3. row'[k].captured \in {row[k].captured, intent[copy.gw].captured}
      BY <1>1, <1>2, <2>2, <3>1 DEF RowMoves
    <3>4. QED
      BY <3>1, <3>2, <3>3
  <2>3. QED
    BY <1>3, <2>1, <2>2 DEF CopyAmount
<1>9. ReplyAmount(s)'
  <2>1. ASSUME At(s, "replied", {"capture"}), sess[s].reply.ok
        PROVE  sess[s].reply.captured = intent'[copy.gw].captured
    <3>1. copy.gw \in Intents /\ intent[copy.gw].state = "succeeded"
      BY <1>0, <1>4, <1>6, <2>1 DEF Learned, Identified, At
    <3>2. QED
      BY <1>0, <2>1, <3>1 DEF ReplyAmount, AmountsFinal
  <2>2. ASSUME At(s, "replied", Reading), copy.gw # NoIntent, sess[s].reply.ok,
               sess[s].reply.state = "succeeded"
        PROVE  sess[s].reply.captured = intent'[copy.gw].captured
    <3>1. copy.gw \in Intents /\ intent[copy.gw].state = "succeeded"
      BY <1>0, <1>4, <1>6, <2>2 DEF Learned, Final
    <3>2. QED
      BY <1>0, <2>2, <3>1 DEF ReplyAmount, AmountsFinal
  <2>3. ASSUME Holds(s), sess[s].intent # NoIntent, sess[s].reply.state = "succeeded"
        PROVE  sess[s].reply.captured = intent'[sess[s].intent].captured
    <3>1. intent[sess[s].intent].state = "succeeded"
      BY <1>0, <2>3 DEF Learned
    <3>2. QED
      BY <1>0, <1>5, <2>3, <3>1 DEF ReplyAmount, AmountsFinal
  <2>4. QED
    BY <1>0, <1>3, <2>1, <2>2, <2>3 DEF ReplyAmount, At
<1>10. QED
  BY <1>7, <1>8, <1>9 DEF Informed

LEMMA NothingKnown ==
    ASSUME NEW s \in Sessions, sess'[s].pc \notin {"calling", "replied", "compensating"}
    PROVE  Informed(s)'
BY DEF Informed, ReadInv, CopyAmount, ReplyAmount, At, AtWork, Holds

\* An operation that has just read its row knows it as it is.
LEMMA InformedByRead ==
    ASSUME NEW s \in Sessions, NEW k,
           sess'[s].pc \in {"calling", "compensating"},
           sess'[s].key = k,
           sess'[s].copy = row'[k],
           sess'[s].pc = "calling" =>
              /\ sess'[s].op = "capture" => row'[k].status = "authorized"
              /\ sess'[s].op = "cancel" => row'[k].status \in Cancellable
              /\ sess'[s].op = "process" => row'[k].status \notin {"succeeded", "cancelled"},
           sess'[s].intent = NoIntent
    PROVE  Informed(s)'
<1>1. ReadInv(s)'
  BY DEF ReadInv, At
<1>2. CopyAmount(s)'
  BY DEF CopyAmount
<1>3. ReplyAmount(s)'
  BY DEF ReplyAmount, At, Holds
<1>4. QED
  BY <1>1, <1>2, <1>3 DEF Informed

\* The provider answers an operation on an existing payment.
LEMMA InformedByAnswer ==
    ASSUME AInv, NEW s \in Sessions, NEW r, Replied(s, r), row' = row,
           sess[s].pc = "calling", AtWork(s),
           sess[s].op = "capture" /\ r.ok =>
              r.captured = intent'[sess[s].copy.gw].captured,
           sess[s].op \in Reading /\ sess[s].copy.gw = NoIntent => r.state = "unknown",
           sess[s].op \in Reading /\ sess[s].copy.gw # NoIntent /\ r.ok =>
              IF r.state = "succeeded"
                THEN r.captured = intent'[sess[s].copy.gw].captured
                ELSE /\ r.captured = 0
                     /\ sess[s].copy.provider = "stripe" => sess[s].copy.captured = 0
    PROVE  Informed(s)'
<1>0. /\ ReadInv(s) /\ CopyAmount(s)
      /\ sess[s].intent = NoIntent
      /\ sess \in [Sessions -> Session]
  BY AtWorkHoldsNothing DEF AInv, AmountInv, OInv, AtWork, IInv, TypeOK
<1>1. /\ sess'[s].pc = "replied"
      /\ sess'[s].op = sess[s].op
      /\ sess'[s].copy = sess[s].copy
      /\ sess'[s].intent = NoIntent
      /\ sess'[s].reply = r
      /\ sess'[s].key = sess[s].key
  BY <1>0 DEF Replied, Session
<1>2. ReadInv(s)'
  BY <1>0, <1>1 DEF ReadInv, At
<1>3. CopyAmount(s)'
  BY <1>0, <1>1 DEF CopyAmount
<1>4. ReplyAmount(s)'
  BY <1>1 DEF ReplyAmount, At
<1>5. QED
  BY <1>2, <1>3, <1>4 DEF Informed

LEMMA CreateInforms ==
    ASSUME AInv, NEW s \in Sessions, GatewayCreates(s)
    PROVE  Informed(s)'
<1>0. sess \in [Sessions -> Session] /\ intent \in [Intents -> Intent]
  BY DEF AInv, OInv, IInv, TypeOK, StoreTypeOK
<1>1. sess[s].intent = NoIntent /\ sess[s].op \in Creating
  BY <1>0 DEF AInv, OInv, IInv, KeyInv, HolderInv, GatewayCreates, At
<1>2. sess[s].op \notin {"capture", "cancel", "process"} \cup Reading
  BY <1>1 DEF Creating, Reading
<1>3. ASSUME sess'[s].pc = "replied", sess'[s].op = sess[s].op,
             sess'[s].intent # NoIntent =>
                IF sess'[s].reply.state = "succeeded"
                  THEN sess'[s].reply.captured = intent'[sess'[s].intent].captured
                  ELSE sess'[s].reply.captured = 0
      PROVE  Informed(s)'
  <2>1. ~AtWork(s)'
    BY <1>1, <1>3 DEF AtWork, Holds
  <2>2. QED
    BY <1>2, <1>3, <2>1 DEF Informed, ReadInv, CopyAmount, ReplyAmount, At
<1>4. ASSUME NEW r, Replied(s, r)
      PROVE  Informed(s)'
  BY <1>1, <1>3, <1>4, RepliedFields DEF AInv, OInv
<1>5. ASSUME NEW i \in Intents, NEW st, NEW p, NEW answer,
             intent' = Opened(i, sess[s].key, p, st), answer.state = st,
             answer.captured = IF st = "succeeded" THEN Total ELSE 0,
             sess' = [sess EXCEPT ![s].pc = "replied", ![s].intent = i, ![s].reply = answer]
      PROVE  Informed(s)'
  <2>1. /\ sess'[s].pc = "replied"
        /\ sess'[s].op = sess[s].op
        /\ sess'[s].intent = i
        /\ sess'[s].reply = answer
    BY <1>0, <1>5 DEF Session
  <2>2. intent'[i].captured = answer.captured
    BY <1>0, <1>5 DEF Opened
  <2>3. QED
    BY <1>3, <1>5, <2>1, <2>2
<1>6. CASE \E r : Replied(s, r)
  BY <1>4, <1>6
<1>7. CASE ~\E r : Replied(s, r)
  <2>1. PICK i \in Intents, st \in OpeningStates(sess[s].copy.provider) :
           LET answer == [ok |-> TRUE, state |-> st,
                          captured |-> IF st = "succeeded" THEN Total ELSE 0]
           IN  /\ intent' = Opened(i, sess[s].key, sess[s].copy.provider, st)
               /\ sess' = [sess EXCEPT ![s].pc = "replied",
                                       ![s].intent = i,
                                       ![s].reply = answer]
    BY <1>7 DEF GatewayCreates
  <2> DEFINE answer == [ok |-> TRUE, state |-> st,
                        captured |-> IF st = "succeeded" THEN Total ELSE 0]
  <2>2. /\ answer.state = st
        /\ answer.captured = IF st = "succeeded" THEN Total ELSE 0
        /\ intent' = Opened(i, sess[s].key, sess[s].copy.provider, st)
        /\ sess' = [sess EXCEPT ![s].pc = "replied", ![s].intent = i, ![s].reply = answer]
    BY <2>1
  <2> HIDE DEF answer
  <2>3. QED
    BY <1>5, <2>2
<1>8. QED
  BY <1>6, <1>7

LEMMA AnswerInforms ==
    ASSUME AInv, NEW s \in Sessions,
           GatewayCaptures(s) \/ GatewayCancels(s) \/ GatewayReads(s)
    PROVE  Informed(s)'
<1> DEFINE i == sess[s].copy.gw
<1>0. /\ intent \in [Intents -> Intent]
      /\ sess[s].pc = "calling" /\ AtWork(s)
      /\ row' = row
      /\ i # NoIntent => i \in Intents
      /\ Identified(s)
      /\ NoReply.ok = FALSE /\ NoReply.state = "unknown"
      /\ [NoReply EXCEPT !.ok = TRUE].state = "unknown"
  BY SessionIds DEF AInv, OInv, OutcomeInv, IInv, TypeOK, StoreTypeOK, GatewayCaptures, CapturedBy,
       GatewayCancels, GatewayReads, At, AtWork, Holds, Creating, Reading, NoReply
<1>1. CASE GatewayCaptures(s)
  <2>1. sess[s].op = "capture" /\ i \in Intents
    BY <1>0, <1>1 DEF GatewayCaptures, CapturedBy, Identified, At
  <2>2. PICK r : Replied(s, r) /\ (r.ok => r.captured = intent'[i].captured)
    BY <1>0, <1>1, <2>1 DEF GatewayCaptures, Intent
  <2>3. QED
    BY <1>0, <2>1, <2>2, InformedByAnswer DEF Reading
<1>2. CASE GatewayCancels(s)
  <2>1. sess[s].op = "cancel" /\ \E r : Replied(s, r)
    BY <1>2 DEF GatewayCancels, At
  <2>2. QED
    BY <1>0, <2>1, InformedByAnswer DEF Reading
<1>3. CASE GatewayReads(s)
  <2>1. sess[s].op \in Reading /\ sess[s].op # "capture" /\ intent' = intent
    BY <1>3 DEF GatewayReads, At, Reading
  <2>2. ASSUME i # NoIntent, intent[i].state # "succeeded", sess[s].copy.provider = "stripe"
        PROVE  sess[s].copy.captured = 0 /\ intent[i].captured = 0
    <3>1. /\ sess[s].key \in Keys
          /\ row[sess[s].key].gw = i
      BY <1>0 DEF AInv, OInv, IInv, KeyInv, CopyInv, AtWork
    <3>2. CopyAmount(s) /\ RowAmount(sess[s].key) /\ IntentAmount(i)
      BY <1>0, <2>2, <3>1 DEF AInv, AmountInv
    <3>3. QED
      BY <1>0, <2>2, <3>1, <3>2 DEF CopyAmount, RowAmount, IntentAmount
  <2>3. ASSUME i # NoIntent, intent[i].state # "succeeded"
        PROVE  intent[i].captured = 0
    BY <1>0, <2>3 DEF AInv, AmountInv, IntentAmount
  <2>4. CASE i = NoIntent
    <3>1. PICK r : Replied(s, r) /\ r.state = "unknown"
      BY <1>0, <1>3, <2>4 DEF GatewayReads
    <3>2. QED
      BY <1>0, <2>1, <2>4, <3>1, InformedByAnswer
  <2>5. CASE i # NoIntent
    <3>1. CASE Replied(s, NoReply)
      BY <1>0, <2>1, <2>5, <3>1, InformedByAnswer
    <3>2. CASE ~Replied(s, NoReply)
      <4> DEFINE r == [ok |-> TRUE, state |-> intent[i].state, captured |-> intent[i].captured]
      <4>1. Replied(s, r)
        BY <1>3, <2>5, <3>2 DEF GatewayReads
      <4>2. r.state = intent[i].state /\ r.captured = intent[i].captured
        OBVIOUS
      <4> HIDE DEF r
      <4>3. QED
        BY <1>0, <2>1, <2>2, <2>3, <2>5, <4>1, <4>2, InformedByAnswer
    <3>3. QED
      BY <3>1, <3>2
  <2>6. QED
    BY <2>4, <2>5
<1>4. QED
  BY <1>1, <1>2, <1>3

\* Every other step of a session ends it, or leaves it with the row it wrote,
\* or with the copy it had.
LEMMA OtherStepsInform ==
    ASSUME AInv, NEW s \in Sessions,
           \/ Insert(s) \/ FinishCreate(s) \/ FinishCapture(s) \/ Compensate(s)
           \/ FinishCancel(s) \/ FinishProcess(s) \/ FinishReconcile(s)
    PROVE  Informed(s)'
<1> DEFINE k == sess[s].key
           copy == sess[s].copy
<1>0. /\ sess \in [Sessions -> Session]
      /\ row \in [Keys -> Row]
      /\ Idle.pc = "idle"
      /\ ReadInv(s) /\ CopyAmount(s)
      /\ sess[s].pc # "idle" => k \in Keys
  BY DEF AInv, AmountInv, OInv, IInv, TypeOK, StoreTypeOK, Idle, KeyInv, CopyInv
<1>1. CASE sess' = [sess EXCEPT ![s] = Idle]
  BY <1>0, <1>1, NothingKnown
<1>2. CASE Insert(s)
  <2>1. CASE sess' = [sess EXCEPT ![s].pc = "calling"]
    <3>1. sess'[s].pc = "calling" /\ sess'[s].op = sess[s].op /\ sess'[s].intent = sess[s].intent
      BY <1>0, <2>1 DEF Session
    <3>2. sess[s].op \in Creating /\ sess[s].intent = NoIntent
      BY <1>2, AtWorkHoldsNothing DEF Insert, At, Holds, AInv, OInv
    <3>3. ~AtWork(s)'
      BY <3>1, <3>2 DEF AtWork, Holds
    <3>4. ReadInv(s)'
      BY <3>1, <3>2, <3>3 DEF ReadInv, At, Creating
    <3>5. CopyAmount(s)'
      BY <3>3 DEF CopyAmount
    <3>6. ReplyAmount(s)'
      BY <3>1, <3>2 DEF ReplyAmount, At
    <3>7. QED
      BY <3>4, <3>5, <3>6 DEF Informed
  <2>2. QED
    BY <1>1, <1>2, <2>1 DEF Insert
<1>3. CASE FinishCreate(s)
  <2>1. CASE sess' = [sess EXCEPT ![s] = Idle]
    BY <1>1, <2>1
  <2>2. CASE ~(sess' = [sess EXCEPT ![s] = Idle])
    <3>0. k \in Keys
      BY <1>0, <1>3 DEF FinishCreate, At
    <3>1. PICK new : /\ row' = [row EXCEPT ![k] = new]
                     /\ new.status = "authorized"
                     /\ sess' = [sess EXCEPT ![s] = CaptureSession(k, new, Total)]
      BY <1>3, <2>2 DEF FinishCreate
    <3>2. /\ sess'[s].copy = new
          /\ sess'[s].key = k
          /\ sess'[s].op = "capture"
          /\ sess'[s].intent = NoIntent
          /\ sess'[s].pc \in {"calling", "compensating"}
      BY <1>0, <3>1 DEF CaptureSession, Calling, Idle
    <3>3. row'[k] = new
      BY <1>0, <3>0, <3>1
    <3> HIDE DEF k
    <3>4. QED
      BY <3>1, <3>2, <3>3, InformedByRead
  <2>3. QED
    BY <2>1, <2>2
<1>4. CASE FinishCapture(s)
  <2>1. CASE sess' = [sess EXCEPT ![s] = Idle]
    BY <1>1, <2>1
  <2>2. CASE ~(sess' = [sess EXCEPT ![s] = Idle])
    <3>1. /\ sess'[s].copy = row'[k]
          /\ sess'[s].key = k
          /\ sess'[s].pc = "compensating"
          /\ sess'[s].intent = sess[s].intent
      BY <1>0, <1>4, <2>2 DEF FinishCapture, Session
    <3>2. sess[s].intent = NoIntent
      BY <1>4, AtWorkHoldsNothing DEF FinishCapture, At, Holds, Creating, AInv, OInv
    <3> HIDE DEF k
    <3>3. QED
      BY <3>1, <3>2, InformedByRead
  <2>3. QED
    BY <2>1, <2>2
<1>5. CASE Compensate(s)
  <2>1. CASE sess' = [sess EXCEPT ![s] = Idle]
    BY <1>1, <2>1
  <2>2. CASE ~(sess' = [sess EXCEPT ![s] = Idle])
    <3>1. /\ sess' = [sess EXCEPT ![s] = Calling("cancel", k, copy)]
          /\ copy.status = "authorized"
          /\ copy.gw # NoIntent
          /\ row' = row
      BY <1>5, <2>2 DEF Compensate, CancelPayment
    <3>2. /\ sess'[s].copy = copy
          /\ sess'[s].key = k
          /\ sess'[s].op = "cancel"
          /\ sess'[s].pc = "calling"
          /\ sess'[s].intent = NoIntent
      BY <1>0, <3>1 DEF Calling, Idle
    <3>3. AtWork(s)
      BY <1>5 DEF Compensate, AtWork, Holds
    <3>4. ReadInv(s)'
      BY <3>1, <3>2 DEF ReadInv, At, Cancellable
    <3>5. CopyAmount(s)'
      BY <1>0, <3>1, <3>2, <3>3 DEF CopyAmount
    <3>6. ReplyAmount(s)'
      BY <3>2 DEF ReplyAmount, At
    <3>7. QED
      BY <3>4, <3>5, <3>6 DEF Informed
  <2>3. QED
    BY <2>1, <2>2
<1>6. QED
  BY <1>1, <1>2, <1>3, <1>4, <1>5 DEF FinishCancel, FinishProcess, FinishReconcile

LEMMA BeginInforms ==
    ASSUME AInv, NEW s \in Sessions, NEW k \in Keys, Begin(s, k)
    PROVE  Informed(s)'
<1>0. sess \in [Sessions -> Session] /\ Idle.pc = "idle"
  BY DEF AInv, OInv, IInv, TypeOK, Idle
<1>1. ASSUME NEW op \in Creating, NEW provider \in PaymentProvider,
             NEW requiresCapture \in BOOLEAN, BeginCreate(s, k, op, provider, requiresCapture)
      PROVE  Informed(s)'
  <2>1. sess'[s].pc = "checked"
    BY <1>0, <1>1 DEF BeginCreate, Idle
  <2>2. QED
    BY <2>1, NothingKnown
<1>2. ASSUME NEW amount \in 1..Total, BeginCapture(s, k, amount)
      PROVE  Informed(s)'
  <2>1. /\ sess'[s].copy = row'[k]
        /\ sess'[s].key = k
        /\ sess'[s].op = "capture"
        /\ sess'[s].intent = NoIntent
        /\ sess'[s].pc \in {"calling", "compensating"}
        /\ row'[k].status = "authorized"
    BY <1>0, <1>2 DEF BeginCapture, CaptureSession, Calling, Idle
  <2>2. QED
    BY <2>1, InformedByRead
<1>3. ASSUME NEW op \in {"cancel"} \cup Reading, sess' = [sess EXCEPT ![s] = Calling(op, k, row[k])],
             row' = row,
             op = "cancel" => row[k].status \in Cancellable,
             op = "process" => row[k].status \notin {"succeeded", "cancelled"}
      PROVE  Informed(s)'
  <2>1. /\ sess'[s].copy = row'[k]
        /\ sess'[s].key = k
        /\ sess'[s].op = op
        /\ sess'[s].op # "capture"
        /\ sess'[s].intent = NoIntent
        /\ sess'[s].pc = "calling"
    BY <1>0, <1>3 DEF Calling, Idle, Reading
  <2>2. QED
    BY <1>3, <2>1, InformedByRead
<1>4. CASE BeginCancel(s, k)
  <2>1. CASE row[k].gw = NoIntent
    <3>1. sess'[s].pc = "idle"
      BY <1>0, <1>4, <2>1 DEF BeginCancel, CancelPayment
    <3>2. QED
      BY <3>1, NothingKnown
  <2>2. CASE row[k].gw # NoIntent
    BY <1>3, <1>4, <2>2 DEF BeginCancel, CancelPayment, Reading
  <2>3. QED
    BY <2>1, <2>2
<1>5. CASE BeginProcess(s, k) \/ BeginReconcile(s, k)
  BY <1>3, <1>5 DEF BeginProcess, BeginReconcile, Reading
<1>6. QED
  BY <1>1, <1>2, <1>4, <1>5 DEF Begin

----------------------------------------------------------------------------
(* The invariant and its theorems                                          *)

LEMMA InitAInv == Init => AInv
<1> SUFFICES ASSUME Init PROVE AInv
  OBVIOUS
<1>1. OInv
  BY InitOInv
<1>2. \A s \in Sessions : ReadInv(s) /\ CopyAmount(s) /\ ReplyAmount(s)
  BY DEF Init, ReadInv, CopyAmount, ReplyAmount, At, AtWork, Holds, Idle
<1>3. \A i \in Intents : IntentAmount(i)
  BY DEF Init, StoreInit, UnusedIntent, IntentAmount
<1>4. \A k \in Keys : RowAmount(k)
  BY DEF Init, StoreInit, NoRow, RowAmount
<1>5. QED
  BY <1>1, <1>2, <1>3, <1>4 DEF AInv, AmountInv

\* Rows change only by commits, and those ask no provider.
LEMMA RowsChangeAlone ==
    ASSUME AInv, [Next]_vars
    PROVE  row' = row \/ intent' = intent
<1>1. ASSUME NEW s \in Sessions, Step(s)
      PROVE  row' = row \/ intent' = intent
  BY <1>1 DEF Step, Insert, GatewayCreates, FinishCreate, GatewayCaptures, CapturedBy,
       FinishCapture, Compensate, CancelPayment, GatewayCancels, FinishCancel, GatewayReads,
       FinishProcess, FinishReconcile
<1>2. ASSUME NEW s \in Sessions, NEW k \in Keys, Begin(s, k)
      PROVE  intent' = intent
  BY <1>2 DEF Begin, BeginCreate, BeginCapture, BeginCancel, CancelPayment, BeginProcess,
       BeginReconcile
<1>3. QED
  BY <1>1, <1>2 DEF Next, Crash, Settle, GatewaySettles, vars

LEMMA BeginsMove ==
    ASSUME AInv, NEW s \in Sessions, NEW j \in Keys, Begin(s, j), NEW k \in Keys
    PROVE  RowMoves(k)
<1>0. row \in [Keys -> Row]
  BY DEF AInv, OInv, IInv, TypeOK, StoreTypeOK
<1>1. CASE row' = row
  BY <1>1, RowUntouchedMoves
<1>2. CASE row' # row
  <2>1. row' = [row EXCEPT ![j].status = "cancelled"]
    BY <1>2 DEF Begin, BeginCreate, BeginCapture, BeginCancel, CancelPayment,
         BeginProcess, BeginReconcile
  <2>2. /\ row'[k].provider = row[k].provider
        /\ row'[k].gw = row[k].gw
        /\ row'[k].captured = row[k].captured
        /\ row'[k].status \in {row[k].status, "cancelled"}
    BY <1>0, <2>1 DEF Row
  <2>3. QED
    BY <2>2, RowUntouchedMoves
<1>3. QED
  BY <1>1, <1>2

\* A provider id comes to a row with the commit that creates it.
LEMMA OnlyCreationIdentifies ==
    ASSUME AInv, NEW s \in Sessions, Step(s), NEW k \in Keys, ~Exists(k), row'[k].gw # row[k].gw
    PROVE  FinishCreate(s) /\ k = sess[s].key
<1>0. IInv /\ row \in [Keys -> Row]
  BY DEF AInv, OInv, IInv, TypeOK, StoreTypeOK
<1>1. CASE FinishCreate(s)
  BY <1>0, <1>1 DEF FinishCreate
<1>2. CASE ~FinishCreate(s)
  <2>1. CASE row' = row
    BY <2>1
  <2>2. CASE FinishCapture(s)
    BY <1>0, <2>2 DEF FinishCapture, Row
  <2>3. CASE Compensate(s) \/ FinishCancel(s)
    BY <1>0, <2>3 DEF Compensate, CancelPayment, FinishCancel, Row
  <2>4. ASSUME NEW status, NEW withAmount, row' = Synchronized(s, status, withAmount)
        PROVE  row'[k].gw = row[k].gw
    BY <1>0, <2>4 DEF Synchronized, Row
  <2>5. CASE FinishProcess(s) \/ FinishReconcile(s)
    BY <2>1, <2>4, <2>5 DEF FinishProcess, FinishReconcile
  <2>6. QED
    BY <1>2, <2>1, <2>2, <2>3, <2>5
       DEF Step, Insert, GatewayCreates, GatewayCaptures, CapturedBy, GatewayCancels, GatewayReads
<1>3. QED
  BY <1>1, <1>2

LEMMA NextAInv == AInv /\ [Next]_vars => AInv'
<1> SUFFICES ASSUME AInv, [Next]_vars PROVE AInv'
  OBVIOUS
<1>0. /\ OInv /\ OInv'
      /\ IInv
      /\ FinalStays /\ AmountsFinal
      /\ sess \in [Sessions -> Session]
      /\ row' = row \/ intent' = intent
  BY NextOInv, StepKeepsFinal, StepKeepsAmounts, RowsChangeAlone DEF AInv, OInv, IInv, TypeOK
<1>1. ASSUME NEW k \in Keys
      PROVE  RowMoves(k)
  <2>1. ASSUME NEW s \in Sessions, Step(s)
        PROVE  RowMoves(k)
    BY <2>1, CommitsMove
  <2>2. ASSUME NEW s \in Sessions, NEW j \in Keys, Begin(s, j)
        PROVE  RowMoves(k)
    BY <2>2, BeginsMove
  <2>3. CASE row' = row
    BY <2>3, RowUntouchedMoves
  <2>4. QED
    BY <2>1, <2>2, <2>3 DEF Next, Crash, Settle, GatewaySettles, vars
<1>2. ASSUME NEW s \in Sessions
      PROVE  Informed(s)'
  <2>1. CASE sess'[s] = sess[s]
    BY <1>0, <1>1, <2>1, InformedStays
  <2>2. CASE Step(s)
    BY <2>2, CreateInforms, AnswerInforms, OtherStepsInform DEF Step
  <2>3. ASSUME NEW k \in Keys, Begin(s, k)
        PROVE  Informed(s)'
    BY <2>3, BeginInforms
  <2>4. CASE Crash(s)
    BY <1>0, <2>4, NothingKnown DEF Crash, Idle
  <2>5. ASSUME NEW t \in Sessions \ {s}, Step(t) \/ Crash(t) \/ \E k \in Keys : Begin(t, k)
        PROVE  sess'[s] = sess[s]
    BY <1>0, <2>5, OthersRest
  <2>6. QED
    BY <2>1, <2>2, <2>3, <2>4, <2>5 DEF Next, Settle, vars
<1>3. ASSUME NEW k \in Keys
      PROVE  RowAmount(k)'
  <2>1. CASE Exists(k)
    BY <1>0, <1>1, <2>1, MovedAmount
  <2>2. CASE ~Exists(k)
    <3>1. RowInv(k) /\ row[k].gw = NoIntent
      BY <2>2 DEF AInv, OInv, IInv, KeyInv, RowInv
    <3>2. ASSUME NEW s \in Sessions, Step(s), row'[k].gw # NoIntent
          PROVE  FinishCreate(s) /\ k = sess[s].key
      BY <2>2, <3>1, <3>2, OnlyCreationIdentifies
    <3>3. ASSUME NEW s \in Sessions, NEW j \in Keys, Begin(s, j)
          PROVE  row'[k].gw = NoIntent
      BY <1>0, <3>1, <3>3, QuietBegins DEF Quiet, KeepsRows
    <3>4. row'[k].gw = NoIntent \/ \E s \in Sessions : FinishCreate(s) /\ k = sess[s].key
      BY <3>1, <3>2, <3>3 DEF Next, Crash, Settle, GatewaySettles, vars
    <3>5. QED
      BY <3>4, CreatedAmount DEF RowAmount
  <2>3. QED
    BY <2>1, <2>2
<1>4. \A i \in Intents : IntentAmount(i)'
  BY <1>0 DEF AmountsFinal
<1>5. AmountInv'
  BY <1>2, <1>3, <1>4 DEF AmountInv, Informed
<1>6. QED
  BY <1>0, <1>5 DEF AInv

\* The captured amount of a Stripe payment recorded as succeeded is what Stripe
\* captured of it, partial captures and late writes of stale copies included.
THEOREM AmountsTrue == Spec => []CapturedAmountIsTrue
<1>1. AInv => CapturedAmountIsTrue
  BY DEF AInv, AmountInv, RowAmount, CapturedAmountIsTrue
<1>2. QED
  BY InitAInv, NextAInv, <1>1, PTL DEF Spec

----------------------------------------------------------------------------
(* Outcomes are lost to stale reads only                                   *)

LEMMA StepOverwrites ==
    ASSUME AInv, NEW s \in Sessions, Step(s), NEW k \in Keys,
           row[k].status \in {"succeeded", "cancelled"}, row'[k].status # row[k].status
    PROVE  /\ sess[s].key = k
           /\ sess[s].pc = "replied"
           /\ sess[s].copy.status # row[k].status
<1> DEFINE copy == sess[s].copy
<1>0. /\ row \in [Keys -> Row]
      /\ Exists(k)
      /\ ReadInv(s)
      /\ AtWork(s) => copy.gw = row[sess[s].key].gw
  BY DEF AInv, AmountInv, OInv, IInv, TypeOK, StoreTypeOK, KeyInv, CopyInv, Exists
<1>1. CASE FinishCreate(s)
  <2>1. k # sess[s].key
    BY <1>0, <1>1 DEF FinishCreate, At, Holds, AInv, OInv, IInv, KeyInv, HolderInv
  <2>2. row'[k] = row[k]
    BY <1>0, <1>1, <2>1 DEF FinishCreate
  <2>3. QED
    BY <2>2
<1>2. CASE FinishCapture(s)
  <2>1. At(s, "replied", {"capture"}) /\ copy.status = "authorized"
    BY <1>0, <1>2 DEF FinishCapture, ReadInv
  <2>2. k # sess[s].key => row'[k] = row[k]
    BY <1>0, <1>2 DEF FinishCapture
  <2>3. QED
    BY <2>1, <2>2 DEF At
<1>3. CASE FinishCancel(s)
  <2>1. At(s, "replied", {"cancel"}) /\ copy.status \in Cancellable
    BY <1>0, <1>3 DEF FinishCancel, ReadInv
  <2>2. k # sess[s].key => row'[k] = row[k]
    BY <1>0, <1>3 DEF FinishCancel
  <2>3. QED
    BY <2>1, <2>2 DEF At, Cancellable
<1>4. CASE Compensate(s)
  \* Without an id, an authorised payment cannot have been captured since.
  <2>1. /\ row' = [row EXCEPT ![sess[s].key].status = "cancelled"]
        /\ copy.status = "authorized" /\ copy.gw = NoIntent /\ AtWork(s)
    BY <1>4 DEF Compensate, CancelPayment, AtWork, Holds
  <2>2. row[sess[s].key].status # "succeeded"
    BY <1>0, <2>1 DEF ReadInv
  <2>3. row'[k].status \in {row[k].status, "cancelled"} /\ (k # sess[s].key => row'[k] = row[k])
    BY <1>0, <2>1 DEF Row
  <2>4. QED
    BY <2>2, <2>3
<1>5. ASSUME NEW status, NEW withAmount, row' = Synchronized(s, status, withAmount)
      PROVE  /\ k = sess[s].key
             /\ row'[k].status = Written(row[k].status, copy.status, status)
  <2>1. k = sess[s].key
    BY <1>0, <1>5 DEF Synchronized
  <2>2. QED
    BY <1>0, <1>5, <2>1 DEF Synchronized, Row
<1>6. CASE FinishProcess(s)
  <2>1. At(s, "replied", {"process"}) /\ copy.status \notin {"succeeded", "cancelled"}
    BY <1>0, <1>6 DEF FinishProcess, ReadInv
  <2>2. k = sess[s].key
    BY <1>5, <1>6 DEF FinishProcess
  <2>3. QED
    BY <2>1, <2>2 DEF At
<1>7. CASE FinishReconcile(s)
  <2> DEFINE status == NormalizeExternalStatus(sess[s].reply.state)
  <2>1. At(s, "replied", {"reconcile"}) /\ row' = Synchronized(s, status, TRUE)
        /\ ~Discrepancy(copy.status, status)
    BY <1>7 DEF FinishReconcile
  <2> HIDE DEF status
  <2>2. k = sess[s].key /\ row'[k].status = Written(row[k].status, copy.status, status)
    BY <1>5, <2>1
  <2>3. copy.status # row[k].status
    BY <2>1, <2>2 DEF Discrepancy, Written
  <2>4. QED
    BY <2>1, <2>2, <2>3 DEF At
<1>8. QED
  BY <1>1, <1>2, <1>3, <1>4, <1>6, <1>7
     DEF Step, Insert, GatewayCreates, GatewayCaptures, CapturedBy, GatewayCancels, GatewayReads

\* A captured or cancelled payment is overwritten only by a session that read
\* the row before that outcome was committed.
THEOREM OutcomesOverwritten == Spec => OutcomeLostOnlyToStaleRead
<1> DEFINE Stale ==
        \A k \in Keys :
          row[k].status \in {"succeeded", "cancelled"} /\ row'[k].status # row[k].status
          => \E s \in Sessions : /\ sess[s].key = k
                               /\ sess[s].pc = "replied"
                               /\ sess[s].copy.status # row[k].status
<1>1. AInv /\ [Next]_vars => [Stale]_vars
  <2> SUFFICES ASSUME AInv, Next,
                      NEW k \in Keys,
                      row[k].status \in {"succeeded", "cancelled"},
                      row'[k].status # row[k].status
               PROVE  \E s \in Sessions : /\ sess[s].key = k
                                        /\ sess[s].pc = "replied"
                                        /\ sess[s].copy.status # row[k].status
    OBVIOUS
  <2>1. ASSUME NEW s \in Sessions, NEW j \in Keys, Begin(s, j)
        PROVE  FALSE
    <3>1. row' = [row EXCEPT ![j].status = "cancelled"] /\ row[j].status \in Cancellable
      BY <2>1 DEF Begin, BeginCreate, BeginCapture, BeginCancel, CancelPayment,
           BeginProcess, BeginReconcile
    <3>2. k # j
      BY <3>1 DEF Cancellable
    <3>3. row'[k] = row[k]
      BY <3>1, <3>2 DEF AInv, OInv, IInv, TypeOK, StoreTypeOK
    <3>4. QED
      BY <3>3
  <2>2. PICK s \in Sessions : Step(s)
    BY <2>1 DEF Next, Crash, Settle, GatewaySettles
  <2>3. QED
    BY <2>2, StepOverwrites
<1>2. QED
  BY InitAInv, NextAInv, <1>1, PTL DEF Spec, OutcomeLostOnlyToStaleRead

----------------------------------------------------------------------------
(* What requests ask for, and what they are told                           *)

Creations     == {"create", "reservation.created"}
Captures      == {"capture", "reservation.confirmed"}
Cancellations == {"cancel", "reservation.cancelled"}

\* A session at work does what its request asked for.  A capture that has
\* failed never goes on to cancel the payment at the provider.
Serves(s) ==
    sess[s].pc # "idle" =>
        /\ \/ request[s].kind \in Creations /\ sess[s].op = "execute"
           \/ request[s].kind \in Captures /\ sess[s].op = "capture"
           \/ request[s].kind \in Cancellations /\ sess[s].op = "cancel"
           \/ request[s].kind = "process" /\ sess[s].op = "process"
           \/ request[s].kind = "reconciliation" /\ sess[s].op = "reconcile"
        /\ sess[s].key \in request[s].found
        /\ sess[s].key \notin request[s].todo
        /\ request[s].kind = "reservation.created" => sess[s].requiresCapture
        /\ sess[s].pc = "compensating" =>
              /\ sess[s].op = "capture"
              /\ ~sess[s].reply.ok
              /\ sess[s].copy.gw = NoIntent \/ sess[s].copy.status # "authorized"

\* A request that lists no payments has one, and a session at work on it; what
\* is still to be cancelled has the provider id that was listed.
Lists(s) ==
    /\ request[s].todo \subseteq request[s].found
    /\ request[s].kind \in Creations \cup Captures \cup {"cancel", "process"} =>
          sess[s].pc # "idle" /\ request[s].found = {sess[s].key}
    /\ request[s].kind \notin Creations => \A k \in request[s].found : Exists(k)
    /\ request[s].kind = "reservation.cancelled" =>
          \A k \in request[s].todo : request[s].copies[k].gw = row[k].gw

CapturedAt(k)  == row[k].gw # NoIntent => intent[row[k].gw].state = "succeeded"
CancelledAt(k) == row[k].gw # NoIntent => intent[row[k].gw].state = "canceled"

\* What a cancellation has dealt with is cancelled, or in hand.
CancelsAll(s) ==
    request[s].kind \in Cancellations =>
        \A k \in request[s].found \ request[s].todo :
            CancelledAt(k) \/ (sess[s].pc # "idle" /\ sess[s].key = k)

RequestOK(s) == Serves(s) /\ Lists(s) /\ CancelsAll(s)

\* What was answered stays true.
Told ==
    /\ \A k \in captured \cup released \cup created \cup confirmed : Exists(k)
    /\ \A k \in captured : CapturedAt(k)
    /\ \A k \in released : CancelledAt(k)

RequestsTyped ==
    /\ request \in [Sessions -> Request]
    /\ created \in SUBSET Keys
    /\ confirmed \in SUBSET Keys
    /\ captured \in SUBSET Keys
    /\ released \in SUBSET Keys

RequestInv ==
    /\ OInv
    /\ RequestsTyped
    /\ Told
    /\ ConfirmationSettles
    /\ \A s \in Sessions : RequestOK(s)

----------------------------------------------------------------------------
(* The steps of requests as steps of sessions                              *)

\* A cancellation of payment k from copy c, which was read before.
CancelFrom(s, k, c) ==
    /\ sess[s].pc = "idle"
    /\ Exists(k)
    /\ c.gw = row[k].gw
    /\ CancelPayment(s, k, c)

\* Rows that exist stay, with the provider id they have.
RowsStay ==
    \A k \in Keys : Exists(k) => Exists(k)' /\ row'[k].gw = row[k].gw

LEMMA NextKeepsRows ==
    ASSUME IInv, [Next]_vars
    PROVE  RowsStay
<1>1. KeepsRows => RowsStay
  BY DEF KeepsRows, RowsStay
<1>2. row' = row => RowsStay
  BY DEF RowsStay, Exists
<1>3. ASSUME NEW s \in Sessions, Step(s)
      PROVE  RowsStay
  <2>1. CASE ~Holds(s) /\ ~Holds(s)'
    BY <1>1, <1>3, <2>1, QuietSteps DEF Quiet
  <2>2. CASE ~Holds(s) /\ Holds(s)'
    BY <1>2, <1>3, <2>2, StartsHolding DEF Insert
  <2>3. CASE Holds(s)
    <3>1. GatewayCreates(s) \/ FinishCreate(s)
      BY <1>3, <2>3 DEF Step, Insert, GatewayCaptures, CapturedBy, FinishCapture, Compensate,
           GatewayCancels, FinishCancel, GatewayReads, FinishProcess, FinishReconcile,
           At, Holds, Creating, Reading
    <3>2. CASE FinishCreate(s)
      <4>1. ~Exists(sess[s].key)
        BY <2>3 DEF IInv, KeyInv, HolderInv
      <4>2. \A j \in Keys \ {sess[s].key} : row'[j] = row[j]
        BY <3>2, CreateCommitted
      <4>3. QED
        BY <4>1, <4>2 DEF RowsStay, Exists
    <3>3. QED
      BY <1>2, <3>1, <3>2 DEF GatewayCreates
  <2>4. QED
    BY <2>1, <2>2, <2>3
<1>4. ASSUME NEW s \in Sessions, NEW k \in Keys, Begin(s, k)
      PROVE  RowsStay
  BY <1>1, <1>4, QuietBegins DEF Quiet
<1>5. QED
  BY <1>2, <1>3, <1>4 DEF Next, Crash, Settle, GatewaySettles, vars

LEMMA CancelFromKeeps ==
    ASSUME OInv, NEW s \in Sessions, NEW k \in Keys, NEW c \in Row, CancelFrom(s, k, c)
    PROVE  /\ OInv'
           /\ FinalStays
           /\ RowsStay
           /\ \A t \in Sessions \ {s} : sess'[t] = sess[t]
<1>1. IInv /\ ~Holds(s) /\ CancelPayment(s, k, c)
  BY DEF OInv, CancelFrom, Holds
<1>2. Quiet(s) /\ CopyInv(s)'
  BY <1>1, CancelPaymentIsQuiet DEF CancelFrom
<1>3. IInv'
  BY <1>1, <1>2, CancelPaymentType, QuietPreserves DEF IInv
<1>4. FinalStays /\ intent' = intent
  BY <1>1 DEF FinalStays, CancelPayment
<1>5. RowsStay /\ \A t \in Sessions \ {s} : sess'[t] = sess[t]
  BY <1>2 DEF Quiet, KeepsRows, RowsStay
<1>6. Identified(s)' /\ Learned(s)'
  <2>0. sess \in [Sessions -> Session] /\ Idle.pc = "idle"
    BY <1>1 DEF IInv, TypeOK, Idle
  <2>1. CASE c.gw = NoIntent
    <3>1. sess'[s].pc = "idle"
      BY <1>1, <2>0, <2>1 DEF CancelPayment
    <3>2. QED
      BY <3>1, NothingLearned
  <2>2. CASE c.gw # NoIntent
    <3>1. sess'[s].copy = c /\ sess'[s].intent = NoIntent /\ sess'[s].pc = "calling"
      BY <1>1, <2>0, <2>2 DEF CancelPayment, Calling, Idle
    <3>2. QED
      BY <2>2, <3>1, CallingLearnsNothing
  <2>3. QED
    BY <2>1, <2>2
<1>7. \A t \in Sessions : Identified(t)' /\ Learned(t)'
  BY <1>4, <1>5, <1>6, LearnedStays
<1>8. ASSUME NEW j \in Keys
      PROVE  TellsTruth(j)'
  <2>0. row \in [Keys -> Row]
    BY <1>1 DEF IInv, TypeOK, StoreTypeOK
  <2>1. CASE row'[j] = row[j]
    BY <1>4, <2>1, RowStays
  <2>2. CASE row'[j] # row[j]
    <3>1. j = k /\ row[k].gw = NoIntent /\ row' = [row EXCEPT ![k].status = "cancelled"]
      BY <1>1, <2>0, <2>2 DEF CancelPayment, CancelFrom
    <3>2. row'[j].gw = NoIntent
      BY <2>0, <3>1 DEF Row
    <3>3. QED
      BY <3>2 DEF TellsTruth
  <2>3. QED
    BY <2>1, <2>2
<1>9. OutcomesAreTrue'
  BY <1>8 DEF OutcomesAreTrue, TellsTruth
<1>10. QED
  BY <1>3, <1>4, <1>5, <1>7, <1>9 DEF OInv, OutcomeInv

\* What every step of the sessions keeps, under requests as without them.
LEMMA SessionsKeep ==
    ASSUME OInv, [Next]_vars
    PROVE  OInv' /\ FinalStays /\ RowsStay
<1>1. IInv
  BY DEF OInv
<1>2. QED
  BY <1>1, NextOInv, StepKeepsFinal, NextKeepsRows

\* What was true of a payment that exists stays true.
LEMMA AnswerStays ==
    ASSUME OInv, FinalStays, RowsStay, NEW k \in Keys, Exists(k)
    PROVE  /\ Exists(k)'
           /\ CapturedAt(k) => CapturedAt(k)'
           /\ CancelledAt(k) => CancelledAt(k)'
<1>1. row[k].gw \in Intents \cup {NoIntent}
  BY DEF OInv, IInv, TypeOK, StoreTypeOK, Row
<1>2. Exists(k)' /\ row'[k].gw = row[k].gw
  BY DEF RowsStay
<1>3. QED
  BY <1>1, <1>2 DEF CapturedAt, CancelledAt, FinalStays, Final

\* A request whose session rests stays as it is.
LEMMA RequestRests ==
    ASSUME RequestInv, FinalStays, RowsStay, NEW s \in Sessions,
           sess'[s] = sess[s], request'[s] = request[s]
    PROVE  RequestOK(s)'
<1>1. OInv /\ Serves(s) /\ Lists(s) /\ CancelsAll(s)
  BY DEF RequestInv, RequestOK
<1>2. request[s].found \subseteq Keys /\ request[s].todo \subseteq Keys
  BY DEF RequestInv, RequestsTyped, Request
<1>3. Serves(s)'
  BY <1>1 DEF Serves
<1>4. Lists(s)'
  BY <1>1, <1>2 DEF Lists, RowsStay, Creations
<1>5. CancelsAll(s)'
  <2> SUFFICES ASSUME request[s].kind \in Cancellations,
                      NEW k \in request[s].found \ request[s].todo
               PROVE  CancelledAt(k)' \/ (sess[s].pc # "idle" /\ sess[s].key = k)
    BY DEF CancelsAll
  <2>1. k \in Keys /\ Exists(k)
    BY <1>1, <1>2 DEF Lists, Cancellations, Creations
  <2>2. QED
    BY <1>1, <2>1, AnswerStays DEF CancelsAll
<1>6. QED
  BY <1>3, <1>4, <1>5 DEF RequestOK

\* A payment that exists is not authorised again.
LEMMA CommitsNeverAuthorize ==
    ASSUME OInv, NEW s \in Sessions, Step(s), NEW k \in Keys,
           Exists(k), row[k].status # "authorized"
    PROVE  row'[k].status # "authorized"
<1>0. IInv /\ row \in [Keys -> Row]
  BY DEF OInv, IInv, TypeOK, StoreTypeOK
<1>1. CASE FinishCreate(s)
  <2>1. Holds(s) /\ \A j \in Keys \ {sess[s].key} : row'[j] = row[j]
    BY <1>0, <1>1, CreateCommitted
  <2>2. k # sess[s].key
    BY <1>0, <2>1 DEF IInv, KeyInv, HolderInv
  <2>3. QED
    BY <2>1, <2>2
<1>2. CASE FinishCapture(s) \/ Compensate(s) \/ FinishCancel(s)
  <2>1. row'[k].status \in {row[k].status, "succeeded", "failed", "cancelled"}
    BY <1>0, <1>2 DEF FinishCapture, Compensate, CancelPayment, FinishCancel, Row
  <2>2. QED
    BY <2>1
<1>3. ASSUME NEW status, NEW withAmount, row' = Synchronized(s, status, withAmount),
             status = "authorized" => sess[s].copy.status = "authorized"
      PROVE  row'[k].status # "authorized"
  <2>1. row'[k].status \in {row[k].status, Written(row[k].status, sess[s].copy.status, status)}
    BY <1>0, <1>3 DEF Synchronized, Row
  <2>2. QED
    BY <1>3, <2>1 DEF Written
<1>4. CASE FinishProcess(s)
  <2>1. PolledStatus(sess[s].reply.state) # "authorized"
    BY DEF PolledStatus
  <2>2. QED
    BY <1>3, <1>4, <2>1 DEF FinishProcess
<1>5. CASE FinishReconcile(s)
  <2> DEFINE status == NormalizeExternalStatus(sess[s].reply.state)
  <2>1. row' = row \/ (row' = Synchronized(s, status, TRUE)
                       /\ ~Discrepancy(sess[s].copy.status, status))
    BY <1>5 DEF FinishReconcile
  <2> HIDE DEF status
  <2>2. QED
    BY <1>3, <2>1 DEF Discrepancy
<1>6. QED
  BY <1>1, <1>2, <1>4, <1>5
     DEF Step, Insert, GatewayCreates, GatewayCaptures, CapturedBy, GatewayCancels, GatewayReads

----------------------------------------------------------------------------
(* A session at work for a request                                         *)

\* The steps a session takes once a request has begun.
SagaStep(s) ==
    \/ Insert(s) \/ GatewayCreates(s) \/ FinishCreate(s)
    \/ GatewayCaptures(s) \/ FinishCapture(s) \/ Compensate(s)
    \/ GatewayCancels(s) \/ FinishCancel(s)
    \/ GatewayReads(s) \/ FinishReconcile(s)

\* A session that goes on stays about its payment and its operation.
LEMMA SagaGoesOn ==
    ASSUME RequestInv, NEW s \in Sessions, SagaStep(s), sess'[s].pc # "idle"
    PROVE  /\ sess[s].pc # "idle"
           /\ sess'[s].op = sess[s].op
           /\ sess'[s].key = sess[s].key
           /\ sess'[s].requiresCapture = sess[s].requiresCapture
           /\ sess'[s].pc = "compensating" =>
                 /\ sess'[s].op = "capture"
                 /\ ~sess'[s].reply.ok
                 /\ sess'[s].copy.gw = NoIntent \/ sess'[s].copy.status # "authorized"
<1>0. sess \in [Sessions -> Session] /\ sess[s] \in Session /\ row \in [Keys -> Row]
      /\ Idle.pc = "idle" /\ Serves(s) /\ IInv
  BY DEF RequestInv, RequestOK, OInv, IInv, TypeOK, StoreTypeOK, Idle
<1>1. ASSUME NEW r, Replied(s, r), sess[s].pc = "calling"
      PROVE  /\ sess'[s].op = sess[s].op
             /\ sess'[s].key = sess[s].key
             /\ sess'[s].requiresCapture = sess[s].requiresCapture
             /\ sess'[s].pc = "replied"
  BY <1>0, <1>1 DEF Replied, Session
<1>2. CASE Insert(s)
  BY <1>0, <1>2 DEF Insert, At, Session
<1>3. CASE GatewayCreates(s)
  <2>1. CASE \E r : Replied(s, r)
    BY <1>1, <1>3, <2>1 DEF GatewayCreates, At
  <2>2. CASE ~\E r : Replied(s, r)
    <3>1. ASSUME NEW i, NEW answer,
                 sess' = [sess EXCEPT ![s].pc = "replied", ![s].intent = i,
                                      ![s].reply = answer]
          PROVE  /\ sess'[s].pc = "replied"
                 /\ sess'[s].op = sess[s].op
                 /\ sess'[s].key = sess[s].key
                 /\ sess'[s].requiresCapture = sess[s].requiresCapture
      BY <1>0, <3>1 DEF Session
    <3>2. PICK i \in Intents, st \in OpeningStates(sess[s].copy.provider) :
             LET answer == [ok |-> TRUE, state |-> st,
                            captured |-> IF st = "succeeded" THEN Total ELSE 0]
             IN  sess' = [sess EXCEPT ![s].pc = "replied", ![s].intent = i, ![s].reply = answer]
      BY <1>3, <2>2 DEF GatewayCreates
    <3> DEFINE answer == [ok |-> TRUE, state |-> st,
                          captured |-> IF st = "succeeded" THEN Total ELSE 0]
    <3>3. sess' = [sess EXCEPT ![s].pc = "replied", ![s].intent = i, ![s].reply = answer]
      BY <3>2
    <3> HIDE DEF answer
    <3>4. sess[s].pc = "calling"
      BY <1>3 DEF GatewayCreates, At
    <3>5. QED
      BY <3>1, <3>3, <3>4
  <2>3. QED
    BY <2>1, <2>2
<1>4. CASE FinishCreate(s)
  <2>1. sess[s].op = "execute"
    BY <1>0, <1>4 DEF FinishCreate, At, Creating, Serves
  <2>2. sess' = [sess EXCEPT ![s] = Idle]
    BY <1>4, <2>1 DEF FinishCreate
  <2>3. QED
    BY <1>0, <2>2
<1>5. CASE GatewayCaptures(s)
  <2>1. \E r : Replied(s, r)
    BY <1>5 DEF GatewayCaptures, CapturedBy
  <2>2. QED
    BY <1>1, <1>5, <2>1 DEF GatewayCaptures, CapturedBy, At
<1>6. CASE FinishCapture(s)
  <2>1. ~sess[s].reply.ok
    BY <1>0, <1>6 DEF FinishCapture
  <2>2. /\ row' = [row EXCEPT ![sess[s].key].status = "failed"]
        /\ sess' = [sess EXCEPT ![s].pc = "compensating", ![s].copy = row'[sess[s].key]]
        /\ sess[s].pc = "replied" /\ sess[s].op = "capture"
    BY <1>6, <2>1 DEF FinishCapture, At
  <2>3. sess[s].key \in Keys
    BY <1>0, <2>2 DEF IInv, KeyInv, CopyInv
  <2>4. row'[sess[s].key].status = "failed"
    BY <1>0, <2>2, <2>3 DEF Row
  <2>5. /\ sess'[s].op = "capture" /\ sess'[s].key = sess[s].key
        /\ sess'[s].requiresCapture = sess[s].requiresCapture
        /\ sess'[s].reply = sess[s].reply
        /\ sess'[s].copy = row'[sess[s].key]
    BY <1>0, <2>2 DEF Session
  <2>6. QED
    BY <2>1, <2>2, <2>4, <2>5
<1>7. CASE Compensate(s)
  <2>1. sess' = [sess EXCEPT ![s] = Idle]
    BY <1>0, <1>7 DEF Compensate, CancelPayment, Serves
  <2>2. QED
    BY <1>0, <2>1
<1>8. CASE GatewayCancels(s)
  <2>1. \E r : Replied(s, r)
    BY <1>8 DEF GatewayCancels
  <2>2. QED
    BY <1>1, <1>8, <2>1 DEF GatewayCancels, At
<1>9. CASE GatewayReads(s)
  <2>1. \E r : Replied(s, r)
    BY <1>9 DEF GatewayReads
  <2>2. QED
    BY <1>1, <1>9, <2>1 DEF GatewayReads, At
<1>10. CASE FinishCancel(s) \/ FinishReconcile(s)
  BY <1>0, <1>10 DEF FinishCancel, FinishReconcile
<1>11. QED
  BY <1>2, <1>3, <1>4, <1>5, <1>6, <1>7, <1>8, <1>9, <1>10 DEF SagaStep

\* A session that ends with a good answer has done what it says.
LEMMA SagaEndsWell ==
    ASSUME RequestInv, NEW s \in Sessions, SagaStep(s), sess'[s].pc = "idle", sess[s].reply.ok,
           NEW k \in Keys, k = sess[s].key
    PROVE  /\ sess[s].pc # "idle"
           /\ sess[s].op = "capture" => CapturedAt(k)' /\ row'[k].status = "succeeded"
           /\ sess[s].op = "cancel" => CancelledAt(k)'
           /\ sess[s].op = "execute" => Exists(k)'
<1>0. /\ sess \in [Sessions -> Session] /\ row \in [Keys -> Row]
      /\ Serves(s) /\ Learned(s) /\ Identified(s) /\ IInv /\ CopyInv(s)
  BY DEF RequestInv, RequestOK, OInv, OutcomeInv, IInv, KeyInv, TypeOK, StoreTypeOK
<1>1. ASSUME NEW r, Replied(s, r)
      PROVE  FALSE
  BY <1>0, <1>1 DEF Replied
<1>2. CASE GatewayCreates(s)
  BY <1>0, <1>2, CreateAnswered
<1>3. CASE Insert(s)
  <2>1. /\ sess[s].pc = "checked" /\ sess[s].op \in Creating /\ row' = row
        /\ Exists(k) \/ sess' = [sess EXCEPT ![s].pc = "calling"]
    BY <1>3 DEF Insert, At
  <2>2. Exists(k)'
    BY <1>0, <2>1 DEF Exists, Session
  <2>3. QED
    BY <2>1, <2>2 DEF Creating
<1>4. CASE FinishCreate(s)
  <2>1. sess[s].pc = "replied" /\ sess[s].op \in Creating
    BY <1>4 DEF FinishCreate, At
  <2>2. Exists(k)'
    BY <1>0, <1>4, CreateCommitted DEF Exists
  <2>3. QED
    BY <2>1, <2>2 DEF Creating
<1>5. CASE FinishCapture(s)
  <2>1. /\ sess[s].pc = "replied" /\ sess[s].op = "capture" /\ AtWork(s)
    BY <1>5 DEF FinishCapture, At, AtWork, Holds, Creating
  <2>2. row[k].gw = sess[s].copy.gw /\ intent[row[k].gw].state = "succeeded"
    BY <1>0, <2>1 DEF CopyInv, Learned, At
  <2>3. row'[k].gw = row[k].gw /\ row'[k].status = "succeeded" /\ intent' = intent
    BY <1>0, <1>5 DEF FinishCapture, Row
  <2>4. QED
    BY <2>1, <2>2, <2>3 DEF CapturedAt
<1>6. CASE FinishCancel(s)
  <2>1. /\ sess[s].pc = "replied" /\ sess[s].op = "cancel" /\ AtWork(s)
    BY <1>6 DEF FinishCancel, At, AtWork, Holds, Creating
  <2>2. row[k].gw = sess[s].copy.gw /\ intent[row[k].gw].state = "canceled"
    BY <1>0, <2>1 DEF CopyInv, Learned, At
  <2>3. row'[k].gw = row[k].gw /\ intent' = intent
    BY <1>0, <1>6 DEF FinishCancel, Row
  <2>4. QED
    BY <2>1, <2>2, <2>3 DEF CancelledAt
<1>7. CASE FinishReconcile(s)
  BY <1>7 DEF FinishReconcile, At
<1>8. CASE Compensate(s)
  BY <1>0, <1>8 DEF Compensate, Serves
<1>9. CASE GatewayCaptures(s) \/ GatewayCancels(s) \/ GatewayReads(s)
  BY <1>1, <1>9 DEF GatewayCaptures, CapturedBy, GatewayCancels, GatewayReads
<1>10. QED
  BY <1>2, <1>3, <1>4, <1>5, <1>6, <1>7, <1>8, <1>9 DEF SagaStep

----------------------------------------------------------------------------
(* The requests                                                            *)

\* What this step answers is true.
AnswersRight ==
    \A k \in Keys :
        /\ k \in created' => k \in created \/ Exists(k)'
        /\ k \in confirmed' => k \in confirmed \/ (Exists(k)' /\ row'[k].status # "authorized")
        /\ k \in captured' => k \in captured \/ (Exists(k)' /\ CapturedAt(k)')
        /\ k \in released' => k \in released \/ (Exists(k)' /\ CancelledAt(k)')

\* No payment becomes authorised again.
NoneAuthorized ==
    \A k \in Keys : Exists(k) /\ row[k].status # "authorized" => row'[k].status # "authorized"

\* Only session s and its request change, and both are as they should be.
Acts(s) ==
    /\ \A t \in Sessions \ {s} : sess'[t] = sess[t] /\ request'[t] = request[t]
    /\ RequestOK(s)'
    /\ AnswersRight

LEMMA RequestInvKept ==
    ASSUME RequestInv, OInv', FinalStays, RowsStay, NoneAuthorized, RequestsTyped',
           \A t \in Sessions : RequestOK(t)', AnswersRight
    PROVE  RequestInv'
<1>1. ASSUME NEW k \in Keys
      PROVE  /\ k \in captured' \cup released' \cup created' \cup confirmed' => Exists(k)'
             /\ k \in captured' => CapturedAt(k)'
             /\ k \in released' => CancelledAt(k)'
             /\ k \in confirmed' => row'[k].status # "authorized"
  <2>1. /\ k \in captured \cup released \cup created \cup confirmed => Exists(k)
        /\ k \in captured => CapturedAt(k)
        /\ k \in released => CancelledAt(k)
        /\ k \in confirmed => row[k].status # "authorized"
    BY DEF RequestInv, Told, ConfirmationSettles
  <2>2. OInv
    BY DEF RequestInv
  <2>3. Exists(k) => /\ Exists(k)'
                     /\ CapturedAt(k) => CapturedAt(k)'
                     /\ CancelledAt(k) => CancelledAt(k)'
                     /\ row[k].status # "authorized" => row'[k].status # "authorized"
    BY <2>2, AnswerStays DEF NoneAuthorized
  <2>4. /\ k \in created' => k \in created \/ Exists(k)'
        /\ k \in confirmed' => k \in confirmed \/ (Exists(k)' /\ row'[k].status # "authorized")
        /\ k \in captured' => k \in captured \/ (Exists(k)' /\ CapturedAt(k)')
        /\ k \in released' => k \in released \/ (Exists(k)' /\ CancelledAt(k)')
    BY DEF AnswersRight
  <2>5. QED
    BY <2>1, <2>3, <2>4
<1>2. captured' \cup released' \cup created' \cup confirmed' \subseteq Keys
  BY DEF RequestsTyped
<1>3. Told' /\ ConfirmationSettles'
  BY <1>1, <1>2 DEF Told, ConfirmationSettles
<1>4. QED
  BY <1>3 DEF RequestInv

LEMMA NothingAnswered ==
    ASSUME UNCHANGED history
    PROVE  AnswersRight
BY DEF history, AnswersRight

LEMMA RequestOver ==
    ASSUME NEW s \in Sessions, sess'[s].pc = "idle", request'[s] = NoRequest
    PROVE  RequestOK(s)'
BY DEF RequestOK, Serves, Lists, CancelsAll, NoRequest, Creations, Captures, Cancellations

\* A session that goes on, or has ended well and is to take the next payment.
LEMMA RequestContinues ==
    ASSUME RequestInv, FinalStays, RowsStay, NEW s \in Sessions, SagaStep(s),
           request'[s] = request[s],
           \/ sess'[s].pc # "idle"
           \/ /\ request[s].todo # {}
              /\ sess[s].reply.ok \/ request[s].kind = "reconciliation"
    PROVE  RequestOK(s)'
<1>0. /\ OInv /\ CopyInv(s)
      /\ request[s].found \subseteq Keys /\ request[s].todo \subseteq Keys
      /\ Serves(s) /\ Lists(s) /\ CancelsAll(s)
  BY DEF RequestInv, RequestOK, RequestsTyped, Request, OInv, IInv, KeyInv
<1>1. ASSUME NEW k \in request[s].found, request[s].kind \notin Creations
      PROVE  k \in Keys /\ Exists(k) /\ row'[k].gw = row[k].gw /\ Exists(k)'
             /\ (CancelledAt(k) => CancelledAt(k)')
  <2>1. k \in Keys /\ Exists(k)
    BY <1>0, <1>1 DEF Lists
  <2>2. QED
    BY <1>0, <2>1, AnswerStays DEF RowsStay
<1>2. CASE sess'[s].pc # "idle"
  <2>1. /\ sess[s].pc # "idle"
        /\ sess'[s].op = sess[s].op
        /\ sess'[s].key = sess[s].key
        /\ sess'[s].requiresCapture = sess[s].requiresCapture
        /\ sess'[s].pc = "compensating" =>
              /\ sess'[s].op = "capture"
              /\ ~sess'[s].reply.ok
              /\ sess'[s].copy.gw = NoIntent \/ sess'[s].copy.status # "authorized"
    BY <1>2, SagaGoesOn
  <2>2. Serves(s)'
    BY <1>0, <2>1 DEF Serves
  <2>3. Lists(s)'
    BY <1>0, <1>1, <1>2, <2>1 DEF Lists, Creations
  <2>4. CancelsAll(s)'
    BY <1>0, <1>1, <1>2, <2>1 DEF CancelsAll, Creations, Cancellations
  <2>5. QED
    BY <2>2, <2>3, <2>4 DEF RequestOK
<1>3. CASE sess'[s].pc = "idle"
  <2>1. sess[s].pc # "idle"
    BY DEF SagaStep, Insert, GatewayCreates, FinishCreate, GatewayCaptures, CapturedBy,
       FinishCapture, Compensate, GatewayCancels, FinishCancel, GatewayReads,
       FinishReconcile, At
  <2>2. request[s].kind \in {"reservation.cancelled", "reconciliation"}
    <3>1. sess[s].key \in request[s].found \ request[s].todo /\ request[s].todo # {}
          /\ request[s].todo \subseteq request[s].found
      BY <1>0, <1>3, <2>1 DEF Serves, Lists
    <3>2. request[s].found # {sess[s].key}
      BY <3>1
    <3>3. QED
      BY <1>0, <2>1, <3>2 DEF Lists, Serves, Creations, Captures, Cancellations
  <2>3. Serves(s)'
    BY <1>3 DEF Serves
  <2>4. Lists(s)'
    BY <1>0, <1>1, <2>2 DEF Lists, Creations, Captures
  <2>5. CancelsAll(s)'
    <3> SUFFICES ASSUME request[s].kind \in Cancellations,
                        NEW k \in request[s].found \ request[s].todo
                 PROVE  CancelledAt(k)'
      BY <1>3 DEF CancelsAll
    <3>1. request[s].kind \notin Creations /\ k \in Keys
      BY <1>0 DEF Cancellations, Creations
    <3>2. CASE k = sess[s].key
      <4>1. sess[s].reply.ok /\ sess[s].op = "cancel"
        BY <1>0, <1>3, <2>1 DEF Serves, Cancellations, Creations, Captures
      <4>2. QED
        BY <1>3, <3>1, <3>2, <4>1, SagaEndsWell
    <3>3. CASE k # sess[s].key
      BY <1>0, <1>1, <3>1, <3>3 DEF CancelsAll
    <3>4. QED
      BY <3>2, <3>3
  <2>6. QED
    BY <2>3, <2>4, <2>5 DEF RequestOK
<1>4. QED
  BY <1>2, <1>3

\* What a request that ends well answers.
LEMMA GoodAnswer ==
    ASSUME RequestInv, FinalStays, RowsStay, NEW s \in Sessions, SagaStep(s),
           sess'[s].pc = "idle", sess[s].reply.ok, request[s].todo = {}, Succeeds(s)
    PROVE  AnswersRight
<1>0. /\ OInv /\ CopyInv(s)
      /\ request[s].found \subseteq Keys
      /\ Serves(s) /\ Lists(s) /\ CancelsAll(s)
  BY DEF RequestInv, RequestOK, RequestsTyped, Request, OInv, IInv, KeyInv
<1>1. sess[s].pc # "idle"
  BY DEF SagaStep, Insert, GatewayCreates, FinishCreate, GatewayCaptures, CapturedBy,
     FinishCapture, Compensate, GatewayCancels, FinishCancel, GatewayReads,
     FinishReconcile, At
<1> SUFFICES ASSUME NEW k \in Keys
             PROVE  /\ k \in created' => k \in created \/ Exists(k)'
                    /\ k \in confirmed' =>
                          k \in confirmed \/ (Exists(k)' /\ row'[k].status # "authorized")
                    /\ k \in captured' => k \in captured \/ (Exists(k)' /\ CapturedAt(k)')
                    /\ k \in released' => k \in released \/ (Exists(k)' /\ CancelledAt(k)')
  BY DEF AnswersRight
<1>2. ASSUME request[s].kind = "reservation.created", k \in request[s].found
      PROVE  Exists(k)'
  <2>1. k = sess[s].key /\ sess[s].op = "execute"
    BY <1>0, <1>1, <1>2 DEF Lists, Serves, Creations, Captures, Cancellations
  <2>2. QED
    BY <2>1, SagaEndsWell
<1>3. ASSUME request[s].kind \in Captures, k \in request[s].found
      PROVE  Exists(k)' /\ CapturedAt(k)' /\ row'[k].status # "authorized"
  <2>1. k = sess[s].key /\ sess[s].op = "capture" /\ Exists(k)
    BY <1>0, <1>1, <1>3 DEF Lists, Serves, Creations, Captures, Cancellations
  <2>2. CapturedAt(k)' /\ row'[k].status = "succeeded"
    BY <2>1, SagaEndsWell
  <2>3. Exists(k)'
    BY <1>0, <2>1, AnswerStays
  <2>4. QED
    BY <2>2, <2>3
<1>4. ASSUME request[s].kind \in Cancellations, k \in request[s].found
      PROVE  Exists(k)' /\ CancelledAt(k)'
  <2>1. Exists(k)
    BY <1>0, <1>4 DEF Lists, Creations, Cancellations
  <2>2. Exists(k)' /\ (CancelledAt(k) => CancelledAt(k)')
    BY <1>0, <2>1, AnswerStays
  <2>3. CASE k = sess[s].key
    <3>1. sess[s].op = "cancel"
      BY <1>0, <1>1, <1>4 DEF Serves, Creations, Captures, Cancellations
    <3>2. QED
      BY <2>2, <2>3, <3>1, SagaEndsWell
  <2>4. CASE k # sess[s].key
    BY <1>0, <1>4, <2>2, <2>4 DEF CancelsAll
  <2>5. QED
    BY <2>3, <2>4
<1>5. /\ k \in created' => k \in created
                           \/ (request[s].kind = "reservation.created" /\ k \in request[s].found)
      /\ k \in confirmed' => k \in confirmed \/ (request[s].kind \in Captures /\ k \in request[s].found)
      /\ k \in captured' => k \in captured \/ (request[s].kind \in Captures /\ k \in request[s].found)
      /\ k \in released' => k \in released
                            \/ (request[s].kind \in Cancellations /\ k \in request[s].found)
  BY DEF Succeeds, Captures, Cancellations
<1>6. QED
  BY <1>2, <1>3, <1>4, <1>5

----------------------------------------------------------------------------
(* The actions                                                             *)

LEMMA NoRequestType == NoRequest \in Request
<1>1. NoRow \in Row
  BY StoreAssumption DEF NoRow, Row
<1>2. QED
  BY <1>1 DEF NoRequest, Request

LEMMA AboutType ==
    ASSUME RequestsTyped, NEW s \in Sessions, NEW k \in Keys,
           NEW kind \in Creations \cup Captures \cup {"process"}, About(s, kind, k)
    PROVE  request' \in [Sessions -> Request]
<1>1. [NoRequest EXCEPT !.kind = kind, !.found = {k},
                        !.inOrder = kind = "reservation.confirmed" /\ k \in created] \in Request
  <2> DEFINE order == kind = "reservation.confirmed" /\ k \in created
  <2>2. order \in BOOLEAN
    OBVIOUS
  <2> HIDE DEF order
  <2>3. [NoRequest EXCEPT !.kind = kind, !.found = {k}, !.inOrder = order] \in Request
    BY <2>2, NoRequestType DEF Request, Creations, Captures
  <2>4. QED
    BY <2>3 DEF order
<1>2. QED
  BY <1>1 DEF About, RequestsTyped

LEMMA ListingType ==
    ASSUME OInv, NEW ks \in SUBSET Keys, NEW kind \in Cancellations
    PROVE  Listing(kind, ks) \in Request
<1>1. [k \in Keys |-> IF k \in ks THEN row[k] ELSE NoRow] \in [Keys -> Row]
  BY StoreAssumption DEF OInv, IInv, TypeOK, StoreTypeOK, NoRow, Row
<1>2. QED
  BY <1>1, NoRequestType DEF Listing, Request, Cancellations

LEMMA TodoType ==
    ASSUME NEW r \in Request, NEW k
    PROVE  [r EXCEPT !.todo = @ \ {k}] \in Request
BY DEF Request

LEMMA CancelsType ==
    ASSUME RequestsTyped, NEW s \in Sessions, NEW r \in Request, NEW k, Cancels(s, r, k)
    PROVE  RequestsTyped'
<1>1. [r EXCEPT !.todo = @ \ {k}] \in Request /\ r.found \in SUBSET Keys
  BY TodoType DEF Request
<1>2. QED
  BY <1>1, NoRequestType DEF Cancels, RequestsTyped

LEMMA SucceedsType ==
    ASSUME RequestsTyped, NEW s \in Sessions, Succeeds(s) \/ Raises(s)
    PROVE  RequestsTyped'
<1>1. request[s].found \in SUBSET Keys
  BY DEF RequestsTyped, Request
<1>2. request' \in [Sessions -> Request]
  BY NoRequestType DEF Succeeds, Raises, RequestsTyped
<1>3. CASE Succeeds(s)
  BY <1>1, <1>2, <1>3 DEF Succeeds, RequestsTyped
<1>4. CASE Raises(s)
  BY <1>2, <1>4 DEF Raises, RequestsTyped, history
<1>5. QED
  BY <1>3, <1>4

LEMMA UntouchedType ==
    ASSUME RequestsTyped, UNCHANGED <<request, history>>
    PROVE  RequestsTyped'
BY DEF RequestsTyped, history

\* PaymentSaga runs, and its last step ends the request or goes on to the next
\* payment.
LEMMA WorksActs ==
    ASSUME RequestInv, FinalStays, RowsStay, NEW s \in Sessions, Works(s)
    PROVE  RequestsTyped' /\ Acts(s)
<1>0. SagaStep(s) /\ Step(s) /\ OInv /\ IInv /\ RequestsTyped
  BY DEF Works, SagaStep, Step, RequestInv, OInv
<1>1. \A t \in Sessions \ {s} : sess'[t] = sess[t]
  BY <1>0, OthersRest
<1>2. CASE Raises(s)
  <2>1. request' = [request EXCEPT ![s] = NoRequest] /\ UNCHANGED history
    BY <1>2 DEF Raises
  <2>2. /\ request'[s] = NoRequest
        /\ \A t \in Sessions \ {s} : request'[t] = request[t]
    BY <1>0, <2>1 DEF RequestsTyped
  <2>3. QED
    BY <1>0, <1>1, <1>2, <2>1, <2>2, SucceedsType, NothingAnswered, RequestOver,
       RequestContinues DEF Acts, Works, Ends
<1>3. CASE /\ sess'[s].pc = "idle" /\ sess[s].reply.ok
           /\ request[s].todo = {} /\ Succeeds(s)
  <2>1. request' = [request EXCEPT ![s] = NoRequest]
    BY <1>3 DEF Succeeds
  <2>2. /\ request'[s] = NoRequest
        /\ \A t \in Sessions \ {s} : request'[t] = request[t]
    BY <1>0, <2>1 DEF RequestsTyped
  <2>3. AnswersRight
    BY <1>0, <1>3, GoodAnswer
  <2>4. QED
    BY <1>0, <1>1, <1>3, <2>2, <2>3, SucceedsType, RequestOver DEF Acts
<1>4. CASE /\ UNCHANGED <<request, history>>
           /\ \/ sess'[s].pc # "idle"
              \/ request[s].todo # {} /\ sess[s].reply.ok
  BY <1>0, <1>1, <1>4, UntouchedType, NothingAnswered, RequestContinues DEF Acts
<1>5. QED
  BY <1>2, <1>3, <1>4 DEF Works, Ends

LEMMA DiesActs ==
    ASSUME RequestInv, NEW s \in Sessions, Dies(s)
    PROVE  RequestsTyped' /\ Acts(s)
<1>0. IInv /\ RequestsTyped /\ Crash(s) /\ Raises(s) /\ sess \in [Sessions -> Session]
  BY DEF RequestInv, OInv, IInv, TypeOK, Dies
<1>1. /\ \A t \in Sessions \ {s} : sess'[t] = sess[t]
      /\ sess'[s].pc = "idle"
  BY <1>0 DEF Crash, Idle
<1>2. /\ request'[s] = NoRequest
      /\ \A t \in Sessions \ {s} : request'[t] = request[t]
      /\ UNCHANGED history
  BY <1>0 DEF Raises, RequestsTyped
<1>3. QED
  BY <1>0, <1>1, <1>2, SucceedsType, NothingAnswered, RequestOver DEF Acts

\* reconcile_transaction runs; what it has left to do, it goes on with.
LEMMA ReconcilesActs ==
    ASSUME RequestInv, FinalStays, RowsStay, NEW s \in Sessions, Reconciles(s)
    PROVE  RequestsTyped' /\ Acts(s)
<1>0. /\ SagaStep(s) /\ Step(s) /\ OInv /\ IInv /\ RequestsTyped /\ UNCHANGED history
      /\ sess[s].pc # "idle" /\ Serves(s) /\ sess \in [Sessions -> Session]
  BY DEF Reconciles, SagaStep, Step, RequestInv, RequestOK, OInv, IInv, TypeOK,
     GatewayReads, FinishReconcile, At
<1>1. \A t \in Sessions \ {s} : sess'[t] = sess[t]
  BY <1>0, OthersRest
<1>2. CASE sess'[s].pc = "idle" /\ request[s].todo = {}
  <2>1. request' = [request EXCEPT ![s] = NoRequest]
    BY <1>2 DEF Reconciles
  <2>2. /\ request'[s] = NoRequest
        /\ \A t \in Sessions \ {s} : request'[t] = request[t]
    BY <1>0, <2>1 DEF RequestsTyped
  <2>3. Raises(s)
    BY <1>0, <2>1 DEF Raises
  <2>4. QED
    BY <1>0, <1>1, <1>2, <2>2, <2>3, SucceedsType, NothingAnswered, RequestOver DEF Acts
<1>3. CASE ~(sess'[s].pc = "idle" /\ request[s].todo = {})
  <2>1. UNCHANGED <<request, history>>
    BY <1>0, <1>3 DEF Reconciles
  <2>2. sess'[s].pc # "idle" \/ request[s].kind = "reconciliation"
    <3>1. CASE FinishReconcile(s)
      BY <1>0, <3>1 DEF FinishReconcile, At, Serves
    <3>2. CASE GatewayReads(s)
      <4>1. PICK r : Replied(s, r)
        BY <3>2 DEF GatewayReads
      <4>2. QED
        BY <1>0, <4>1 DEF Replied
    <3>3. QED
      BY <3>1, <3>2 DEF Reconciles
  <2>3. QED
    BY <1>0, <1>1, <1>3, <2>1, <2>2, UntouchedType, NothingAnswered, RequestContinues DEF Acts
<1>4. QED
  BY <1>2, <1>3

\* A payment is asked for, or a capture, or a poll.
LEMMA AsksActs ==
    ASSUME RequestInv, OInv', NEW s \in Sessions, NEW k \in Keys,
           NEW kind \in Creations \cup Captures \cup {"process"},
           About(s, kind, k), UNCHANGED <<row, history>>,
           \A t \in Sessions \ {s} : sess'[t] = sess[t],
           sess'[s].pc # "idle", sess'[s].key = k,
           kind \in Creations => sess'[s].op = "execute" /\ sess'[s].pc = "checked",
           kind = "reservation.created" => sess'[s].requiresCapture,
           kind \in Captures => /\ sess'[s].op = "capture"
                                /\ Exists(k)
                                /\ ~sess'[s].reply.ok
                                /\ sess'[s].pc = "compensating" => sess'[s].copy.gw = NoIntent,
           kind = "process" => sess'[s].op = "process" /\ sess'[s].pc = "calling" /\ Exists(k)
    PROVE  RequestsTyped' /\ Acts(s)
<1>0. RequestsTyped
  BY DEF RequestInv
<1>1. /\ request'[s].kind = kind
      /\ request'[s].found = {k}
      /\ request'[s].todo = {}
      /\ \A t \in Sessions \ {s} : request'[t] = request[t]
  BY <1>0 DEF About, RequestsTyped, NoRequest
<1>2. RequestsTyped'
  BY <1>0, AboutType DEF RequestsTyped, history
<1>3. kind \in Creations \/ kind \in Captures \/ kind = "process"
  OBVIOUS
<1>4. Serves(s)'
  BY <1>1, <1>3 DEF Serves, Creations, Captures
<1>5. Lists(s)'
  BY <1>1, <1>3 DEF Lists, Creations, Captures, Exists
<1>6. CancelsAll(s)'
  BY <1>1 DEF CancelsAll, Creations, Captures, Cancellations
<1>7. QED
  BY <1>1, <1>2, <1>4, <1>5, <1>6, NothingAnswered DEF Acts, RequestOK

LEMMA CreationActs ==
    ASSUME RequestInv, OInv', NEW s \in Sessions, NEW k \in Keys, NEW provider, NEW requiresCapture,
           \/ CreateRequested(s, k, provider, requiresCapture)
           \/ ReservationCreated(s, k, provider)
    PROVE  RequestsTyped' /\ Acts(s)
<1>0. sess \in [Sessions -> Session]
  BY DEF RequestInv, OInv, IInv, TypeOK
<1>1. ASSUME NEW taken, BeginCreate(s, k, "execute", provider, taken)
      PROVE  /\ sess'[s].pc = "checked" /\ sess'[s].key = k /\ sess'[s].op = "execute"
             /\ sess'[s].requiresCapture = taken
             /\ row' = row
             /\ \A t \in Sessions \ {s} : sess'[t] = sess[t]
  BY <1>0, <1>1 DEF BeginCreate, Idle
<1>2. CASE CreateRequested(s, k, provider, requiresCapture)
  BY <1>1, <1>2, AsksActs DEF CreateRequested, Creations, Captures
<1>3. CASE ReservationCreated(s, k, provider)
  BY <1>1, <1>3, AsksActs DEF ReservationCreated, Creations, Captures
<1>4. QED
  BY <1>2, <1>3

LEMMA CaptureActs ==
    ASSUME RequestInv, OInv', NEW s \in Sessions, NEW k \in Keys, NEW amount,
           NEW kind \in Captures, BeginCapture(s, k, amount), About(s, kind, k), UNCHANGED history
    PROVE  RequestsTyped' /\ Acts(s)
<1>0. sess \in [Sessions -> Session]
  BY DEF RequestInv, OInv, IInv, TypeOK
<1>1. /\ sess'[s].pc \in {"calling", "compensating"}
      /\ sess'[s].key = k /\ sess'[s].op = "capture"
      /\ sess'[s].reply = NoReply
      /\ sess'[s].pc = "compensating" => sess'[s].copy.gw = NoIntent
      /\ \A t \in Sessions \ {s} : sess'[t] = sess[t]
  BY <1>0 DEF BeginCapture, CaptureSession, Calling, Idle
<1>2. Exists(k) /\ ~sess'[s].reply.ok /\ UNCHANGED <<row, history>>
  BY <1>1 DEF BeginCapture, Exists, NoReply
<1>3. /\ kind \notin Creations /\ kind # "reservation.created" /\ kind # "process"
      /\ kind \in Creations \cup Captures \cup {"process"}
  BY DEF Creations, Captures
<1>4. QED
  BY <1>1, <1>2, <1>3, AsksActs

\* process_payment begins to poll.
LEMMA ProcessActs ==
    ASSUME RequestInv, OInv', NEW s \in Sessions, NEW k \in Keys, ProcessPayment(s, k)
    PROVE  RequestsTyped' /\ Acts(s)
<1>0. sess \in [Sessions -> Session]
  BY DEF RequestInv, OInv, IInv, TypeOK
<1>1. /\ sess'[s].pc = "calling" /\ sess'[s].key = k /\ sess'[s].op = "process"
      /\ Exists(k) /\ UNCHANGED <<row, history>> /\ About(s, "process", k)
      /\ \A t \in Sessions \ {s} : sess'[t] = sess[t]
  BY <1>0 DEF ProcessPayment, BeginProcess, Calling, Idle
<1>2. PICK kind : kind = "process"
  OBVIOUS
<1>3. kind \notin Creations /\ kind \notin Captures /\ kind # "reservation.created"
      /\ kind \in Creations \cup Captures \cup {"process"}
  BY <1>2 DEF Creations, Captures
<1>4. About(s, kind, k) /\ sess'[s].pc # "idle"
  BY <1>1, <1>2
<1>5. QED
  BY <1>1, <1>3, <1>4, AsksActs

\* A poll ends, and what it says of the payment is so.
LEMMA ProcessesActs ==
    ASSUME RequestInv, OInv', FinalStays, RowsStay, NEW s \in Sessions, Processes(s)
    PROVE  RequestsTyped' /\ Acts(s)
<1>0. /\ RequestsTyped /\ OInv /\ CopyInv(s) /\ Learned(s) /\ Serves(s) /\ Lists(s)
      /\ sess \in [Sessions -> Session]
      /\ request[s].found \subseteq Keys
  BY DEF RequestInv, RequestOK, RequestsTyped, Request, OInv, OutcomeInv, IInv, KeyInv, TypeOK
<1>1. PICK k : k = sess[s].key
  OBVIOUS
<1>2. PICK status : status = PolledStatus(sess[s].reply.state)
  OBVIOUS
<1>3. /\ FinishProcess(s)
      /\ request' = [request EXCEPT ![s] = NoRequest]
      /\ \/ sess[s].reply.ok /\ TellsStatus(k, status)
         \/ UNCHANGED history
  BY <1>1, <1>2 DEF Processes
<1>4. /\ sess[s].pc = "replied" /\ sess[s].op = "process"
      /\ sess' = [sess EXCEPT ![s] = Idle] /\ intent' = intent
  BY <1>3 DEF FinishProcess, At
<1>5. /\ sess'[s].pc = "idle" /\ request'[s] = NoRequest
      /\ \A t \in Sessions \ {s} : sess'[t] = sess[t] /\ request'[t] = request[t]
  BY <1>0, <1>3, <1>4 DEF Idle, RequestsTyped
<1>6. request[s].kind = "process" /\ k \in request[s].found /\ k \in Keys
  BY <1>0, <1>4, <1>1 DEF Serves, CopyInv, Creations, Captures, Cancellations
<1>7. Exists(k) /\ Exists(k)' /\ row'[k].gw = row[k].gw
  BY <1>0, <1>6 DEF Lists, Creations, RowsStay
<1>8. row[k].gw = sess[s].copy.gw
  BY <1>0, <1>4, <1>1 DEF CopyInv, AtWork, Holds, Creating
<1>9. /\ status = "succeeded" => CapturedAt(k)'
      /\ status = "cancelled" => CancelledAt(k)'
  <2>1. /\ status = "succeeded" => sess[s].reply.state = "succeeded"
        /\ status = "cancelled" => sess[s].reply.state = "canceled"
    BY <1>2 DEF PolledStatus
  <2>2. sess[s].reply.state \in {"succeeded", "canceled"} =>
            intent[sess[s].copy.gw].state = sess[s].reply.state
    BY <1>0, <1>4 DEF Learned, At, Reading, Final
  <2>3. QED
    BY <1>4, <1>7, <1>8, <2>1, <2>2 DEF CapturedAt, CancelledAt
<1>10. AnswersRight
  <2>1. CASE UNCHANGED history
    BY <2>1, NothingAnswered
  <2>2. CASE TellsStatus(k, status)
    <3>1. /\ \A j \in captured' : j \in captured \/ (j = k /\ status = "succeeded")
          /\ \A j \in released' : j \in released \/ (j = k /\ status = "cancelled")
          /\ UNCHANGED <<created, confirmed>>
      BY <2>2 DEF TellsStatus
    <3>2. QED
      BY <1>7, <1>9, <3>1 DEF AnswersRight
  <2>3. QED
    BY <1>3, <2>1, <2>2
<1>11. RequestsTyped'
  <2>1. request' \in [Sessions -> Request]
    BY <1>0, <1>3, NoRequestType DEF RequestsTyped
  <2>2. CASE UNCHANGED history
    BY <1>0, <2>1, <2>2 DEF RequestsTyped, history
  <2>3. CASE TellsStatus(k, status)
    BY <1>0, <1>6, <2>1, <2>3 DEF RequestsTyped, TellsStatus
  <2>4. QED
    BY <1>3, <2>2, <2>3
<1>12. QED
  BY <1>5, <1>10, <1>11, RequestOver DEF Acts

\* A confirmation is dropped, and GET /payments answers.
LEMMA AnswerOnly ==
    ASSUME RequestInv, NEW s \in Sessions, NEW k \in Keys,
           \/ ConfirmationDropped(s, k)
           \/ GetPayment(s, k)
    PROVE  RequestsTyped' /\ Acts(s)
<1>0. /\ RequestsTyped /\ OInv /\ OutcomesAreTrue /\ Told
      /\ UNCHANGED <<row, intent, sess, request, created>>
  BY DEF RequestInv, OInv, OutcomeInv, ConfirmationDropped, GetPayment, TellsStatus, vars
<1>1. RequestsTyped'
  BY <1>0 DEF RequestsTyped, ConfirmationDropped, GetPayment, TellsStatus
<1>2. RequestOK(s)'
  <2>1. RequestOK(s) /\ FinalStays /\ RowsStay
    BY <1>0 DEF RequestInv, FinalStays, RowsStay, Exists
  <2>2. QED
    BY <1>0, <2>1, RequestRests
<1>3. AnswersRight
  <2>1. CASE ConfirmationDropped(s, k)
    BY <1>0, <2>1 DEF ConfirmationDropped, AnswersRight, Told, Exists
  <2>2. CASE GetPayment(s, k)
    <3>1. /\ row[k].status = "succeeded" => CapturedAt(k)
          /\ row[k].status = "cancelled" => CancelledAt(k)
          /\ Exists(k)
      BY <1>0, <2>2 DEF GetPayment, OutcomesAreTrue, CapturedAt, CancelledAt, Exists
    <3>2. /\ row[k].status = "succeeded" => CapturedAt(k)'
          /\ row[k].status = "cancelled" => CancelledAt(k)'
          /\ Exists(k)'
      BY <1>0, <3>1 DEF CapturedAt, CancelledAt, Exists
    <3>3. /\ \A j \in captured' : j \in captured \/ (j = k /\ row[k].status = "succeeded")
          /\ \A j \in released' : j \in released \/ (j = k /\ row[k].status = "cancelled")
          /\ confirmed' = confirmed
      BY <2>2 DEF GetPayment, TellsStatus
    <3>4. QED
      BY <1>0, <3>2, <3>3 DEF AnswersRight
  <2>3. QED
    BY <2>1, <2>2
<1>4. QED
  BY <1>0, <1>1, <1>2, <1>3 DEF Acts

\* One of the payments of a cancellation is cancelled, from the copy the
\* request has of it; what is left to do stays as it was listed.
LEMMA CancelsActs ==
    ASSUME RequestInv, FinalStays, RowsStay, NEW s \in Sessions, NEW r \in Request, NEW k \in r.todo,
           Cancels(s, r, k),
           r.kind \in Cancellations,
           r.todo \subseteq r.found,
           r.kind = "cancel" => r.found = {k},
           \A j \in r.found : Exists(j),
           \A j \in r.todo : r.copies[j].gw = row[j].gw,
           \A j \in r.found \ r.todo : CancelledAt(j)
    PROVE  RequestsTyped' /\ Acts(s)
<1> DEFINE rest == [r EXCEPT !.todo = @ \ {k}]
           local == r.copies[k].gw = NoIntent
<1>0. /\ RequestsTyped /\ OInv
      /\ sess \in [Sessions -> Session] /\ row \in [Keys -> Row]
      /\ r.found \subseteq Keys /\ k \in Keys /\ k \in r.found
      /\ Idle.pc = "idle"
  BY DEF RequestInv, OInv, IInv, TypeOK, StoreTypeOK, Request, Idle
<1>1. RequestsTyped'
  BY <1>0, CancelsType
<1>2. /\ rest.kind = r.kind /\ rest.found = r.found /\ rest.copies = r.copies
      /\ rest.todo = r.todo \ {k}
  BY DEF Request
<1>3. /\ CancelPayment(s, k, r.copies[k])
      /\ request' = [request EXCEPT ![s] = IF local /\ rest.todo = {} THEN NoRequest ELSE rest]
      /\ released' = IF local /\ rest.todo = {} THEN released \cup r.found ELSE released
      /\ UNCHANGED <<created, confirmed, captured>>
  BY DEF Cancels
<1>4. /\ request'[s] = IF local /\ rest.todo = {} THEN NoRequest ELSE rest
      /\ \A t \in Sessions \ {s} : request'[t] = request[t]
  BY <1>0, <1>3 DEF RequestsTyped
<1>5. \A t \in Sessions \ {s} : sess'[t] = sess[t]
  BY <1>0, <1>3 DEF CancelPayment
<1>6. ASSUME NEW j \in r.found
      PROVE  Exists(j)' /\ row'[j].gw = row[j].gw /\ (CancelledAt(j) => CancelledAt(j)')
  BY <1>0, <1>6, AnswerStays DEF RowsStay
<1>7. r.kind \notin Creations /\ r.kind \notin Captures /\ r.kind \in {"cancel", "reservation.cancelled"}
  BY DEF Creations, Captures, Cancellations
<1> HIDE DEF rest
<1>8. CASE local
  <2>1. sess'[s].pc = "idle"
    BY <1>0, <1>3, <1>8 DEF CancelPayment
  <2>2. row'[k].gw = NoIntent
    BY <1>0, <1>6, <1>8
  <2>3. \A j \in r.found : j \notin rest.todo => CancelledAt(j)'
    BY <1>2, <1>6, <2>2 DEF CancelledAt
  <2>4. CASE rest.todo = {}
    <3>1. AnswersRight
      BY <1>3, <1>6, <1>8, <2>3, <2>4 DEF AnswersRight
    <3>2. RequestOK(s)'
      BY <1>4, <1>8, <2>1, <2>4, RequestOver
    <3>3. QED
      BY <1>1, <1>4, <1>5, <3>1, <3>2 DEF Acts
  <2>5. CASE rest.todo # {}
    <3>1. request'[s] = rest /\ UNCHANGED history
      BY <1>3, <1>4, <2>5 DEF history
    <3>2. r.kind = "reservation.cancelled"
      BY <1>2, <1>7, <2>5
    <3>3. Serves(s)'
      BY <2>1 DEF Serves
    <3>4. Lists(s)'
      BY <1>2, <1>6, <3>1, <3>2 DEF Lists, Creations, Captures
    <3>5. CancelsAll(s)'
      BY <1>2, <2>3, <3>1 DEF CancelsAll
    <3>6. QED
      BY <1>1, <1>4, <1>5, <3>1, <3>3, <3>4, <3>5, NothingAnswered DEF Acts, RequestOK
  <2>6. QED
    BY <2>4, <2>5
<1>9. CASE ~local
  <2>1. sess'[s].pc = "calling" /\ sess'[s].key = k /\ sess'[s].op = "cancel"
    BY <1>0, <1>3, <1>9 DEF CancelPayment, Calling, Idle
  <2>2. request'[s] = rest /\ UNCHANGED history
    BY <1>3, <1>4, <1>9 DEF history
  <2>3. Serves(s)'
    BY <1>0, <1>2, <1>7, <2>1, <2>2 DEF Serves, Cancellations
  <2>4. Lists(s)'
    BY <1>2, <1>6, <1>7, <2>1, <2>2 DEF Lists
  <2>5. CancelsAll(s)'
    BY <1>2, <1>6, <2>1, <2>2 DEF CancelsAll
  <2>6. QED
    BY <1>1, <1>4, <1>5, <2>2, <2>3, <2>4, <2>5, NothingAnswered DEF Acts, RequestOK
<1>10. QED
  BY <1>8, <1>9

\* A session whose request is none, or has payments left, is idle.
LEMMA FreeIsIdle ==
    ASSUME RequestInv, NEW s \in Sessions, Free(s)
    PROVE  sess[s].pc = "idle"
BY DEF RequestInv, RequestOK, Serves, Free, Creations, Captures, Cancellations

LEMMA CancelListed ==
    ASSUME RequestInv, NEW s \in Sessions, NEW k \in Keys, CancelRequested(s, k)
    PROVE  /\ Cancels(s, Listing("cancel", {k}), k)
           /\ Listing("cancel", {k}) \in Request
           /\ Listing("cancel", {k}).kind = "cancel"
           /\ Listing("cancel", {k}).found = {k}
           /\ Listing("cancel", {k}).todo = {k}
           /\ Listing("cancel", {k}).copies[k] = row[k]
           /\ CancelFrom(s, k, row[k])
           /\ Exists(k)
<1>1. Listing("cancel", {k}) \in Request
  BY ListingType DEF RequestInv, Cancellations
<1>2. /\ Listing("cancel", {k}).kind = "cancel"
      /\ Listing("cancel", {k}).found = {k}
      /\ Listing("cancel", {k}).todo = {k}
      /\ Listing("cancel", {k}).copies[k] = row[k]
  BY DEF Listing, NoRequest
<1>3. Exists(k) /\ sess[s].pc = "idle"
  BY FreeIsIdle DEF CancelRequested, Cancellable, Exists
<1>4. CancelPayment(s, k, row[k])
  BY <1>2 DEF CancelRequested, Cancels
<1>5. QED
  BY <1>1, <1>2, <1>3, <1>4 DEF CancelRequested, CancelFrom

LEMMA NextListed ==
    ASSUME RequestInv, NEW s \in Sessions, CancelsNext(s)
    PROVE  \E k \in request[s].todo : /\ k \in Keys
                                      /\ request[s].copies[k] \in Row
                                      /\ CancelFrom(s, k, request[s].copies[k])
                                      /\ Cancels(s, request[s], k)
<1>1. PICK k \in request[s].todo : Cancels(s, request[s], k)
  BY DEF CancelsNext
<1>2. /\ request[s].kind = "reservation.cancelled" /\ sess[s].pc = "idle"
      /\ request[s] \in Request /\ Lists(s)
  BY DEF CancelsNext, RequestInv, RequestsTyped, RequestOK
<1>3. k \in Keys /\ request[s].copies[k] \in Row
  BY <1>2 DEF Request
<1>4. Exists(k) /\ request[s].copies[k].gw = row[k].gw
  BY <1>2 DEF Lists, Creations
<1>5. QED
  BY <1>1, <1>2, <1>3, <1>4 DEF CancelFrom, Cancels

LEMMA CancelRequestedActs ==
    ASSUME RequestInv, FinalStays, RowsStay, NEW s \in Sessions, NEW k \in Keys, CancelRequested(s, k)
    PROVE  RequestsTyped' /\ Acts(s)
<1> DEFINE r == Listing("cancel", {k})
<1>1. /\ Cancels(s, r, k) /\ r \in Request /\ r.kind = "cancel" /\ r.found = {k} /\ r.todo = {k}
      /\ r.copies[k] = row[k] /\ Exists(k)
  BY CancelListed
<1> HIDE DEF r
<1>2. QED
  BY <1>1, CancelsActs DEF Cancellations

LEMMA CancelsNextActs ==
    ASSUME RequestInv, FinalStays, RowsStay, NEW s \in Sessions, CancelsNext(s)
    PROVE  RequestsTyped' /\ Acts(s)
<1>1. PICK k \in request[s].todo : Cancels(s, request[s], k)
  BY NextListed
<1>2. /\ request[s].kind = "reservation.cancelled" /\ sess[s].pc = "idle"
      /\ request[s] \in Request /\ Lists(s) /\ CancelsAll(s)
  BY DEF CancelsNext, RequestInv, RequestsTyped, RequestOK
<1>3. /\ request[s].kind \in Cancellations /\ request[s].kind # "cancel"
      /\ request[s].todo \subseteq request[s].found
      /\ \A j \in request[s].found : Exists(j)
      /\ \A j \in request[s].todo : request[s].copies[j].gw = row[j].gw
      /\ \A j \in request[s].found \ request[s].todo : CancelledAt(j)
  BY <1>2 DEF Lists, CancelsAll, Cancellations, Creations
<1>4. QED
  BY <1>1, <1>2, <1>3, CancelsActs

\* The payments that have no outcome are listed, to cancel or to reconcile them.
LEMMA ListsActs ==
    ASSUME RequestInv, NEW s \in Sessions, ReservationCancelled(s) \/ ReconciliationDue(s)
    PROVE  RequestsTyped' /\ Acts(s)
<1> DEFINE ks == {k \in Keys : row[k].status \in Cancellable}
<1>0. /\ RequestsTyped /\ OInv /\ UNCHANGED <<vars, history>>
      /\ Free(s) /\ sess[s].pc = "idle"
  BY FreeIsIdle DEF RequestInv, ReservationCancelled, ReconciliationDue
<1>1. ks \in SUBSET Keys /\ \A k \in ks : Exists(k)
  BY DEF Cancellable, Exists
<1>2. PICK r \in Request :
         /\ request' = [request EXCEPT ![s] = r]
         /\ r.found = ks /\ r.todo = ks
         /\ r.kind \in {"reservation.cancelled", "reconciliation"}
         /\ r.kind = "reservation.cancelled" => \A k \in ks : r.copies[k] = row[k]
  <2> HIDE DEF ks
  <2>1. CASE ReservationCancelled(s)
    <3>1. Listing("reservation.cancelled", ks) \in Request
      BY <1>0, <1>1, ListingType DEF Cancellations
    <3>2. /\ Listing("reservation.cancelled", ks).kind = "reservation.cancelled"
          /\ Listing("reservation.cancelled", ks).found = ks
          /\ Listing("reservation.cancelled", ks).todo = ks
          /\ \A k \in ks : Listing("reservation.cancelled", ks).copies[k] = row[k]
      BY <1>1 DEF Listing, NoRequest
    <3>3. request' = [request EXCEPT ![s] = Listing("reservation.cancelled", ks)]
      BY <2>1 DEF ReservationCancelled, ks
    <3>4. QED
      BY <3>1, <3>2, <3>3
  <2>2. CASE ReconciliationDue(s)
    <3> DEFINE r == [NoRequest EXCEPT !.kind = "reconciliation", !.found = ks, !.todo = ks]
    <3>1. r \in Request
      BY <1>1, NoRequestType DEF Request
    <3>2. r.kind = "reconciliation" /\ r.found = ks /\ r.todo = ks
      BY DEF NoRequest
    <3>3. request' = [request EXCEPT ![s] = r]
      BY <2>2 DEF ReconciliationDue, ks
    <3> HIDE DEF r
    <3>4. QED
      BY <3>1, <3>2, <3>3
  <2>3. QED
    BY <2>1, <2>2
<1> HIDE DEF ks
<1>3. request'[s] = r /\ \A t \in Sessions \ {s} : request'[t] = request[t]
  BY <1>0, <1>2 DEF RequestsTyped
<1>4. RequestsTyped'
  BY <1>0, <1>2 DEF RequestsTyped, history
<1>5. sess' = sess /\ row' = row
  BY <1>0 DEF vars
<1>6. Serves(s)'
  BY <1>0, <1>5 DEF Serves
<1>7. Lists(s)'
  BY <1>1, <1>2, <1>3, <1>5 DEF Lists, Creations, Captures, Exists
<1>8. CancelsAll(s)'
  BY <1>2, <1>3 DEF CancelsAll
<1>9. QED
  BY <1>0, <1>3, <1>4, <1>5, <1>6, <1>7, <1>8, NothingAnswered DEF Acts, RequestOK

LEMMA ReconcilesNextActs ==
    ASSUME RequestInv, RowsStay, NEW s \in Sessions, ReconcilesNext(s)
    PROVE  RequestsTyped' /\ Acts(s)
<1>0. /\ RequestsTyped /\ request[s] \in Request
      /\ sess \in [Sessions -> Session] /\ sess[s].pc = "idle"
      /\ UNCHANGED history /\ request[s].kind = "reconciliation"
      /\ Lists(s)
  BY DEF RequestInv, RequestsTyped, RequestOK, OInv, IInv, TypeOK, ReconcilesNext
<1>1. PICK k \in request[s].todo :
         /\ BeginReconcile(s, k) \/ (row[k].gw = NoIntent /\ UNCHANGED vars)
         /\ request' = IF row[k].gw = NoIntent /\ request[s].todo = {k}
                         THEN [request EXCEPT ![s] = NoRequest]
                         ELSE [request EXCEPT ![s].todo = @ \ {k}]
  BY DEF ReconcilesNext
<1>2. \A t \in Sessions \ {s} : sess'[t] = sess[t] /\ request'[t] = request[t]
  BY <1>0, <1>1 DEF BeginReconcile, vars, RequestsTyped
<1>3. CASE row[k].gw = NoIntent /\ request[s].todo = {k}
  <2>1. request'[s] = NoRequest /\ sess'[s].pc = "idle"
    BY <1>0, <1>1, <1>3 DEF BeginReconcile, vars, RequestsTyped
  <2>2. RequestsTyped'
    BY <1>0, <1>1, <1>3, NoRequestType DEF RequestsTyped, history
  <2>3. QED
    BY <1>0, <1>2, <2>1, <2>2, NothingAnswered, RequestOver DEF Acts
<1>4. CASE ~(row[k].gw = NoIntent /\ request[s].todo = {k})
  <2> DEFINE r == [request[s] EXCEPT !.todo = @ \ {k}]
  <2>1. request' = [request EXCEPT ![s] = r]
    BY <1>1, <1>4
  <2>2. /\ r \in Request /\ r.kind = "reconciliation" /\ r.found = request[s].found
        /\ r.todo = request[s].todo \ {k}
    BY <1>0, TodoType DEF Request
  <2> HIDE DEF r
  <2>3. RequestsTyped' /\ request'[s] = r
    BY <1>0, <2>1, <2>2 DEF RequestsTyped, history
  <2>4. \/ sess'[s].pc = "idle"
        \/ sess'[s].op = "reconcile" /\ sess'[s].key = k /\ sess'[s].pc = "calling"
    BY <1>0, <1>1 DEF BeginReconcile, Calling, Idle, vars
  <2>5. Serves(s)'
    BY <1>0, <2>2, <2>3, <2>4 DEF Serves, Lists
  <2>6. Lists(s)'
    <3>1. \A j \in request[s].found : Exists(j)'
      BY <1>0 DEF Lists, Creations, RowsStay, Request
    <3>2. QED
      BY <1>0, <2>2, <2>3, <3>1 DEF Lists, Creations, Captures
  <2>7. CancelsAll(s)'
    BY <2>2, <2>3 DEF CancelsAll, Cancellations
  <2>8. QED
    BY <1>0, <1>2, <2>3, <2>5, <2>6, <2>7, NothingAnswered DEF Acts, RequestOK
<1>5. QED
  BY <1>3, <1>4

----------------------------------------------------------------------------
(* The invariant and its theorems                                          *)

\* Every step is one of PaymentService, or a cancellation from a listed copy.
LEMMA RequestSteps ==
    ASSUME RequestInv, RequestNext
    PROVE  \/ [Next]_vars
           \/ \E s \in Sessions, k \in Keys, c \in Row : CancelFrom(s, k, c)
<1>1. ASSUME NEW s \in Sessions, Works(s) \/ Dies(s) \/ Reconciles(s) \/ Processes(s)
      PROVE  Next
  BY <1>1 DEF Works, Dies, Reconciles, Processes, Next, Step
<1>2. ASSUME NEW s \in Sessions, CancelsNext(s)
      PROVE  \E k \in Keys, c \in Row : CancelFrom(s, k, c)
  BY <1>2, NextListed
<1>3. ASSUME NEW s \in Sessions, ReservationCancelled(s) \/ ReconciliationDue(s)
      PROVE  UNCHANGED vars
  BY <1>3 DEF ReservationCancelled, ReconciliationDue
<1>4. ASSUME NEW s \in Sessions, ReconcilesNext(s)
      PROVE  [Next]_vars
  <2>1. PICK k \in request[s].todo : BeginReconcile(s, k) \/ UNCHANGED vars
    BY <1>4 DEF ReconcilesNext
  <2>2. k \in Keys
    BY DEF RequestInv, RequestsTyped, Request
  <2>3. QED
    BY <2>1, <2>2 DEF Next, Begin
<1>5. ASSUME NEW s \in Sessions, NEW k \in Keys, NEW provider \in Providers, NEW taken \in BOOLEAN,
             CreateRequested(s, k, provider, taken) \/ ReservationCreated(s, k, provider)
      PROVE  Next
  <2>1. provider \in PaymentProvider /\ "execute" \in Creating
    BY ProvidersAssumption DEF ProvidersAssumption, Creating
  <2>2. \E requiresCapture \in BOOLEAN : BeginCreate(s, k, "execute", provider, requiresCapture)
    BY <1>5 DEF CreateRequested, ReservationCreated
  <2>3. QED
    BY <2>1, <2>2 DEF Next, Begin
<1>6. ASSUME NEW s \in Sessions, NEW k \in Keys,
             \/ CaptureRequested(s, k) \/ ReservationConfirmed(s, k) \/ GetPayment(s, k)
             \/ ProcessPayment(s, k)
      PROVE  [Next]_vars
  <2>1. Total \in 1..Total
    BY StoreAssumption
  <2>2. (\E amount \in 1..Total : BeginCapture(s, k, amount)) \/ BeginProcess(s, k) \/ UNCHANGED vars
    BY <1>6, <2>1 DEF CaptureRequested, ReservationConfirmed, ConfirmationDropped, GetPayment,
                      ProcessPayment
  <2>3. QED
    BY <2>2 DEF Next, Begin
<1>7. ASSUME NEW s \in Sessions, NEW k \in Keys, CancelRequested(s, k)
      PROVE  \E c \in Row : CancelFrom(s, k, c)
  <2>1. row[k] \in Row
    BY DEF RequestInv, OInv, IInv, TypeOK, StoreTypeOK
  <2>2. QED
    BY <1>7, <2>1, CancelListed
<1>8. ASSUME NEW i \in Intents, ProviderSettles(i)
      PROVE  Next
  BY <1>8 DEF ProviderSettles, Next
<1>9. QED
  BY <1>1, <1>2, <1>3, <1>4, <1>5, <1>6, <1>7, <1>8
     DEF RequestNext, CaptureAuthorizedPayment, CancelPendingPayment

LEMMA NoneAuthorizedAgain ==
    ASSUME OInv,
           \/ [Next]_vars
           \/ \E s \in Sessions, k \in Keys, c \in Row : CancelFrom(s, k, c)
    PROVE  NoneAuthorized
<1> SUFFICES ASSUME NEW k \in Keys, Exists(k), row[k].status # "authorized"
             PROVE  row'[k].status # "authorized"
  BY DEF NoneAuthorized
<1>0. row \in [Keys -> Row]
  BY DEF OInv, IInv, TypeOK, StoreTypeOK
<1>1. ASSUME NEW s \in Sessions, Step(s)
      PROVE  row'[k].status # "authorized"
  BY <1>1, CommitsNeverAuthorize
<1>2. ASSUME NEW s \in Sessions, NEW j \in Keys, NEW c, CancelPayment(s, j, c)
      PROVE  row'[k].status # "authorized"
  BY <1>0, <1>2 DEF CancelPayment, Row
<1>3. ASSUME NEW s \in Sessions, NEW j \in Keys, Begin(s, j)
      PROVE  row'[k].status # "authorized"
  <2>1. row' = row \/ CancelPayment(s, j, row[j])
    BY <1>3 DEF Begin, BeginCreate, BeginCapture, BeginCancel, BeginProcess, BeginReconcile
  <2>2. QED
    BY <1>2, <2>1
<1>4. CASE row' = row
  BY <1>4
<1>5. QED
  BY <1>1, <1>2, <1>3, <1>4 DEF Next, Crash, Settle, GatewaySettles, vars, CancelFrom

LEMMA RequestKeeps ==
    ASSUME RequestInv, RequestNext
    PROVE  OInv' /\ FinalStays /\ RowsStay /\ NoneAuthorized
<1>0. OInv
  BY DEF RequestInv
<1>1. CASE [Next]_vars
  BY <1>0, <1>1, SessionsKeep, NoneAuthorizedAgain
<1>2. ASSUME NEW s \in Sessions, NEW k \in Keys, NEW c \in Row, CancelFrom(s, k, c)
      PROVE  OInv' /\ FinalStays /\ RowsStay /\ NoneAuthorized
  BY <1>0, <1>2, CancelFromKeeps, NoneAuthorizedAgain
<1>3. QED
  BY <1>1, <1>2, RequestSteps

LEMMA InitRequestInv == RequestInit => RequestInv
<1> SUFFICES ASSUME RequestInit PROVE RequestInv
  OBVIOUS
<1>1. OInv
  BY InitOInv DEF RequestInit
<1>2. RequestsTyped
  BY NoRequestType DEF RequestInit, RequestsTyped
<1>3. Told /\ ConfirmationSettles
  BY DEF RequestInit, Told, ConfirmationSettles
<1>4. \A s \in Sessions : RequestOK(s)
  BY DEF RequestInit, Init, Idle, NoRequest, RequestOK, Serves, Lists, CancelsAll,
     Creations, Captures, Cancellations
<1>5. QED
  BY <1>1, <1>2, <1>3, <1>4 DEF RequestInv

\* Every step but the provider's own is taken for one request.
LEMMA SomeoneActs ==
    ASSUME RequestInv, RequestNext
    PROVE  \/ \E s \in Sessions : RequestsTyped' /\ Acts(s)
           \/ UNCHANGED <<sess, request, history>>
<1>0. OInv' /\ FinalStays /\ RowsStay
  BY RequestKeeps
<1>1. ASSUME NEW s \in Sessions,
             \/ Works(s) \/ Dies(s) \/ CancelsNext(s) \/ ReservationCancelled(s)
             \/ ReconciliationDue(s) \/ ReconcilesNext(s) \/ Reconciles(s) \/ Processes(s)
      PROVE  RequestsTyped' /\ Acts(s)
  BY <1>0, <1>1, WorksActs, DiesActs, CancelsNextActs, ListsActs, ReconcilesNextActs, ReconcilesActs,
     ProcessesActs
<1>2. ASSUME NEW s \in Sessions, NEW k \in Keys, CaptureRequested(s, k) \/ ReservationConfirmed(s, k)
      PROVE  RequestsTyped' /\ Acts(s)
  <2>1. CASE CaptureRequested(s, k)
    <3>1. PICK amount : BeginCapture(s, k, amount)
      BY <2>1 DEF CaptureRequested
    <3>2. QED
      BY <1>0, <2>1, <3>1, CaptureActs DEF CaptureRequested, Captures
  <2>2. CASE ReservationConfirmed(s, k)
    BY <1>0, <2>2, CaptureActs, AnswerOnly DEF ReservationConfirmed, Captures
  <2>3. QED
    BY <1>2, <2>1, <2>2
<1>3. ASSUME NEW s \in Sessions, NEW k \in Keys, NEW provider, NEW taken,
             CreateRequested(s, k, provider, taken) \/ ReservationCreated(s, k, provider)
      PROVE  RequestsTyped' /\ Acts(s)
  BY <1>0, <1>3, CreationActs
<1>4. ASSUME NEW s \in Sessions, NEW k \in Keys,
             CancelRequested(s, k) \/ GetPayment(s, k) \/ ProcessPayment(s, k)
      PROVE  RequestsTyped' /\ Acts(s)
  BY <1>0, <1>4, CancelRequestedActs, AnswerOnly, ProcessActs
<1>5. ASSUME NEW i \in Intents, ProviderSettles(i)
      PROVE  UNCHANGED <<sess, request, history>>
  BY <1>5 DEF ProviderSettles, Settle
<1>6. QED
  BY <1>1, <1>2, <1>3, <1>4, <1>5
     DEF RequestNext, CaptureAuthorizedPayment, CancelPendingPayment

LEMMA NextRequestInv == RequestInv /\ [RequestNext]_requestVars => RequestInv'
<1> SUFFICES ASSUME RequestInv, [RequestNext]_requestVars PROVE RequestInv'
  OBVIOUS
<1>1. CASE RequestNext
  <2>1. OInv' /\ FinalStays /\ RowsStay /\ NoneAuthorized
    BY <1>1, RequestKeeps
  <2>2. ASSUME NEW s \in Sessions, RequestsTyped', Acts(s)
        PROVE  RequestInv'
    <3>1. \A t \in Sessions : RequestOK(t)'
      BY <2>1, <2>2, RequestRests DEF Acts
    <3>2. QED
      BY <2>1, <2>2, <3>1, RequestInvKept DEF Acts
  <2>3. CASE UNCHANGED <<sess, request, history>>
    <3>1. \A t \in Sessions : RequestOK(t)'
      BY <2>1, <2>3, RequestRests
    <3>2. RequestsTyped'
      BY <2>3, UntouchedType DEF RequestInv
    <3>3. QED
      BY <2>1, <2>3, <3>1, <3>2, NothingAnswered, RequestInvKept
  <2>4. QED
    BY <1>1, <2>2, <2>3, SomeoneActs
<1>2. CASE UNCHANGED requestVars
  <2>1. UNCHANGED vars /\ UNCHANGED <<sess, request, history>> /\ UNCHANGED <<row, intent>>
    BY <1>2 DEF requestVars, vars
  <2>2. OInv /\ [Next]_vars
    BY <2>1 DEF RequestInv
  <2>3. OInv' /\ FinalStays /\ RowsStay
    BY <2>2, SessionsKeep
  <2>4. NoneAuthorized
    BY <2>1 DEF NoneAuthorized
  <2>5. \A t \in Sessions : RequestOK(t)'
    BY <2>1, <2>3, RequestRests
  <2>6. RequestsTyped'
    BY <2>1, UntouchedType DEF RequestInv
  <2>7. QED
    BY <2>1, <2>3, <2>4, <2>5, <2>6, NothingAnswered, RequestInvKept
<1>3. QED
  BY <1>1, <1>2

\* Every reachable state of payment-service under requests and events is well
\* typed.
THEOREM RequestsTypeCorrect == RequestSpec => []RequestTypeOK
<1>1. RequestInv => RequestTypeOK
  BY DEF RequestInv, OInv, IInv, RequestsTyped, RequestTypeOK
<1>2. QED
  BY InitRequestInv, NextRequestInv, <1>1, PTL DEF RequestSpec

\* What a request was answered is so at the provider: a payment said to be
\* captured is, and one said to be cancelled, alone or with all that a cancelled
\* reservation had open, is too, although the list was read long before.
THEOREM AnswersTrue == RequestSpec => []AnswersAreTrue
<1>1. RequestInv => AnswersAreTrue
  <2> SUFFICES ASSUME RequestInv, NEW k \in Keys, row[k].gw # NoIntent
               PROVE  /\ k \in captured => intent[row[k].gw].state = "succeeded"
                      /\ k \in released => intent[row[k].gw].state = "canceled"
    BY DEF AnswersAreTrue
  <2>1. QED
    BY DEF RequestInv, Told, CapturedAt, CancelledAt
<1>2. QED
  BY InitRequestInv, NextRequestInv, <1>1, PTL DEF RequestSpec

\* A confirmation that was handled after the creation leaves no payment merely
\* authorised, and nothing makes it so again.
THEOREM ConfirmationsSettle == RequestSpec => []ConfirmationSettles
<1>1. RequestInv => ConfirmationSettles
  BY DEF RequestInv
<1>2. QED
  BY InitRequestInv, NextRequestInv, <1>1, PTL DEF RequestSpec

\* Cancelling from a list that was read before drops no charge, charges nobody
\* twice and records no outcome that is not so: what PaymentService promises of
\* its own requests it keeps under those of the API, the events and the worker.
THEOREM PromisesKeptUnderRequests ==
    RequestSpec => [](ChargesAreRecorded /\ NoDoubleCharge /\ OutcomesAreTrue)
<1>1. RequestInv => ChargesAreRecorded /\ NoDoubleCharge /\ OutcomesAreTrue
  BY OneChargeAKey DEF RequestInv, OInv, OutcomeInv, IInv, KeyInv
<1>2. QED
  BY InitRequestInv, NextRequestInv, <1>1, PTL DEF RequestSpec

\* A poll records a capture only if the provider has captured the payment.
LEMMA PollRecordsCapture ==
    ASSUME RequestInv, NEW s \in Sessions, NEW k \in Keys, NEW status, NEW withAmount,
           sess[s].pc = "replied", sess[s].op \in Reading,
           row' = Synchronized(s, status, withAmount),
           status = "succeeded" => sess[s].reply.state = "succeeded",
           row[k].status # "succeeded", row'[k].status = "succeeded"
    PROVE  k = sess[s].key /\ MayRecordCapture(s, k)
<1>0. row \in [Keys -> Row] /\ Serves(s) /\ CopyInv(s) /\ Learned(s)
  BY DEF RequestInv, RequestOK, OInv, OutcomeInv, IInv, KeyInv, TypeOK, StoreTypeOK
<1>1. k = sess[s].key
  BY <1>0 DEF Synchronized
<1>2. row'[k].status = Written(row[k].status, sess[s].copy.status, status)
  BY <1>0, <1>1 DEF Synchronized, Row
<1>3. sess[s].reply.state = "succeeded"
  BY <1>2 DEF Written
<1>4. sess[s].copy.gw = row[k].gw
  BY <1>0, <1>1 DEF CopyInv, AtWork, Holds, Creating, Reading
<1>5. intent[row[k].gw].state = "succeeded"
  BY <1>0, <1>3, <1>4 DEF Learned, At, Final
<1>6. request[s].kind \in {"process", "reconciliation"} /\ k \in request[s].found
  BY <1>0, <1>1 DEF Serves, Reading
<1>7. QED
  BY <1>1, <1>5, <1>6 DEF MayRecordCapture

\* The session that records a capture, and what it works for.
LEMMA CaptureRecorded ==
    ASSUME RequestInv, NEW s \in Sessions, SagaStep(s) \/ FinishProcess(s), NEW k \in Keys,
           row[k].status # "succeeded", row'[k].status = "succeeded"
    PROVE  /\ sess'[s] # sess[s]
           /\ sess[s].pc = "replied" /\ sess[s].key = k
           /\ MayRecordCapture(s, k)
<1>0. /\ row \in [Keys -> Row] /\ sess \in [Sessions -> Session] /\ IInv /\ Serves(s)
  BY DEF RequestInv, RequestOK, OInv, IInv, TypeOK, StoreTypeOK
<1>1. CASE FinishCreate(s)
  <2>1. /\ k = sess[s].key /\ sess[s].pc = "replied" /\ sess[s].op \in Creating
    BY <1>0, <1>1 DEF FinishCreate, At
  <2>2. request[s].kind \in Creations /\ k \in request[s].found /\ sess[s].op = "execute"
    BY <1>0, <2>1 DEF Serves, Creating
  <2>3. ~sess[s].requiresCapture
    <3> SUFFICES ASSUME sess[s].requiresCapture PROVE FALSE
      OBVIOUS
    <3> DEFINE word == NormalizeCreated(sess[s].copy.provider, sess[s].reply.state)
               status == ResolvePaymentStatus(word, sess[s].requiresCapture)
    <3>1. sess[s].copy \in Row
      BY <1>0 DEF Session
    <3>2. status # "succeeded"
      BY DEF ResolvePaymentStatus
    <3>3. row'[k] = IF sess[s].reply.ok
                      THEN [sess[s].copy EXCEPT !.status = status, !.gw = sess[s].intent,
                                                !.captured = sess[s].reply.captured]
                      ELSE [sess[s].copy EXCEPT !.status = "failed"]
      BY <1>0, <1>1, <2>1 DEF FinishCreate, MarkedFailed
    <3> HIDE DEF status
    <3>4. row'[k].status \in {status, "failed"}
      BY <3>1, <3>3 DEF Row
    <3>5. QED
      BY <3>2, <3>4
  <2>4. request[s].kind = "create"
    BY <1>0, <2>1, <2>2, <2>3 DEF Serves, Creations
  <2>5. sess'[s].pc = "idle"
    BY <1>0, <1>1, <2>2 DEF FinishCreate, Idle
  <2>6. QED
    BY <2>1, <2>2, <2>3, <2>4, <2>5 DEF MayRecordCapture
<1>2. CASE FinishCapture(s)
  <2>1. k = sess[s].key /\ sess[s].pc = "replied" /\ sess[s].op = "capture"
    BY <1>0, <1>2 DEF FinishCapture, At
  <2>2. sess'[s].pc # "replied"
    BY <1>0, <1>2 DEF FinishCapture, Idle, Session
  <2>3. request[s].kind \in Captures /\ k \in request[s].found
    BY <1>0, <2>1 DEF Serves
  <2>4. QED
    BY <2>1, <2>2, <2>3 DEF Captures, MayRecordCapture
<1>3. CASE FinishReconcile(s)
  <2> DEFINE status == NormalizeExternalStatus(sess[s].reply.state)
  <2>1. /\ sess[s].pc = "replied" /\ sess[s].op = "reconcile" /\ sess'[s].pc = "idle"
    BY <1>0, <1>3 DEF FinishReconcile, At, Idle
  <2>2. row' = Synchronized(s, status, TRUE)
    BY <1>3 DEF FinishReconcile
  <2>3. status = "succeeded" => sess[s].reply.state = "succeeded"
    BY DEF NormalizeExternalStatus, PolledStatus
  <2> HIDE DEF status
  <2>4. QED
    BY <2>1, <2>2, <2>3, PollRecordsCapture DEF Reading
<1>4. CASE FinishProcess(s)
  <2> DEFINE status == PolledStatus(sess[s].reply.state)
  <2>1. /\ sess[s].pc = "replied" /\ sess[s].op = "process" /\ sess'[s].pc = "idle"
    BY <1>0, <1>4 DEF FinishProcess, At, Idle
  <2>2. row' = Synchronized(s, status, status = "succeeded")
    BY <1>4 DEF FinishProcess
  <2>3. status = "succeeded" => sess[s].reply.state = "succeeded"
    BY DEF PolledStatus
  <2> DEFINE withAmount == status = "succeeded"
  <2>4. row' = Synchronized(s, status, withAmount)
    BY <2>2
  <2> HIDE DEF status, withAmount
  <2>5. QED
    BY <2>1, <2>3, <2>4, PollRecordsCapture DEF Reading
<1>5. CASE Compensate(s) \/ FinishCancel(s)
  BY <1>0, <1>5 DEF Compensate, CancelPayment, FinishCancel, Row
<1>6. QED
  BY <1>1, <1>2, <1>3, <1>4, <1>5
     DEF SagaStep, Insert, GatewayCreates, GatewayCaptures, CapturedBy, GatewayCancels, GatewayReads

\* A payment is recorded as captured only in a step of the session that works for
\* a request to pay it, to capture it, or to poll it when the provider has
\* captured it: the payment that comes with a reservation is not, nor one that a
\* cancellation is at work on.
THEOREM CapturedOnlyOnRequest == RequestSpec => CapturedOnRequest
<1> DEFINE OnRequest ==
        \A k \in Keys :
          row[k].status # "succeeded" /\ row'[k].status = "succeeded"
          => \E s \in Sessions : /\ sess'[s] # sess[s]
                                /\ sess[s].pc = "replied" /\ sess[s].key = k
                                /\ MayRecordCapture(s, k)
<1>1. RequestInv /\ [RequestNext]_requestVars => [OnRequest]_requestVars
  <2> SUFFICES ASSUME RequestInv, RequestNext, NEW k \in Keys,
                      row[k].status # "succeeded", row'[k].status = "succeeded"
               PROVE  \E s \in Sessions : /\ sess'[s] # sess[s]
                                         /\ sess[s].pc = "replied" /\ sess[s].key = k
                                         /\ MayRecordCapture(s, k)
    OBVIOUS
  <2>0. row \in [Keys -> Row]
    BY DEF RequestInv, OInv, IInv, TypeOK, StoreTypeOK
  <2>1. ASSUME NEW s \in Sessions, NEW j \in Keys, NEW c, CancelPayment(s, j, c)
        PROVE  FALSE
    BY <2>0, <2>1 DEF CancelPayment, Row
  <2>2. row' # row
    OBVIOUS
  <2>3. PICK s \in Sessions : SagaStep(s) \/ FinishProcess(s)
    <3>1. ASSUME NEW s \in Sessions,
                 \/ ReservationCancelled(s) \/ ReconciliationDue(s) \/ ReconcilesNext(s) \/ Dies(s)
          PROVE  row' = row
      BY <3>1 DEF ReservationCancelled, ReconciliationDue, ReconcilesNext, BeginReconcile, Dies,
         Crash, vars
    <3>2. ASSUME NEW s \in Sessions, NEW j \in Keys, NEW provider, NEW taken,
                 \/ CreateRequested(s, j, provider, taken) \/ ReservationCreated(s, j, provider)
                 \/ CaptureRequested(s, j) \/ ReservationConfirmed(s, j) \/ GetPayment(s, j)
                 \/ ProcessPayment(s, j)
          PROVE  row' = row
      BY <3>2 DEF CreateRequested, ReservationCreated, BeginCreate, CaptureRequested, BeginCapture,
         ReservationConfirmed, ConfirmationDropped, GetPayment, ProcessPayment, BeginProcess, vars
    <3>3. ASSUME NEW s \in Sessions, CancelsNext(s)
          PROVE  FALSE
      BY <2>1, <3>3, NextListed DEF CancelFrom
    <3>4. ASSUME NEW s \in Sessions, NEW j \in Keys, CancelRequested(s, j)
          PROVE  FALSE
      BY <2>1, <3>4, CancelListed DEF CancelFrom
    <3>5. ASSUME NEW s \in Sessions, Works(s) \/ Reconciles(s) \/ Processes(s)
          PROVE  SagaStep(s) \/ FinishProcess(s)
      BY <3>5 DEF Works, Reconciles, Processes, SagaStep
    <3>6. ASSUME NEW i \in Intents, ProviderSettles(i)
          PROVE  row' = row
      BY <3>6 DEF ProviderSettles, Settle, GatewaySettles
    <3>7. QED
      BY <2>2, <3>1, <3>2, <3>3, <3>4, <3>5, <3>6
         DEF RequestNext, CaptureAuthorizedPayment, CancelPendingPayment
  <2>4. QED
    BY <2>3, CaptureRecorded
<1>2. QED
  BY InitRequestInv, NextRequestInv, <1>1, PTL DEF RequestSpec, CapturedOnRequest
=============================================================================
