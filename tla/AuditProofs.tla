---------------------------- MODULE AuditProofs ----------------------------
(***************************************************************************)
(* What AuditTrail promises for every number of requests, API processes,   *)
(* calls of the worker and faults: what the trail names, what it may have  *)
(* lost, how often it may name it, and its types.                          *)
(***************************************************************************)
EXTENDS AuditTrail, FiniteSetTheorems, TLAPS

\* What the steps rely on of the types.
ShapeOK ==
    /\ request \in [Requests -> Request]
    /\ message \in [Requests -> MessageState]
    /\ log \in [Requests -> Nat]
    /\ handler \in [Handlers -> Handler]
    /\ instance \in [Instances -> InstanceState]
    /\ admins \in Nat

\* A call that has a message has it of a discipline whose event was published.
HandlesPublished ==
    \A h \in Handlers : handler[h].pc # "free" =>
        handler[h].of \in Requests /\ message[handler[h].of] # "none"

\* A call is about to acknowledge only what it has recorded or printed.
DoneIsDealtWith ==
    \A h \in Handlers : handler[h].pc = "done" =>
        log[handler[h].of] > 0 \/ handler[h].of \in swallowed

\* An administrator that was found is not removed by anybody.
FoundIsThere == \A i \in Instances : instance[i] = "found" => admins > 0

\* The inductive invariant: a published event is of a committed row, and is
\* followed on its way through the worker's calls.
AuditInv ==
    /\ ShapeOK
    /\ HandlesPublished
    /\ DoneIsDealtWith
    /\ FoundIsThere
    /\ TrailFollowsCommits
    /\ LostOnlyIfSwallowed
    /\ AdministratorExists

\* It holds at first.
LEMMA InitAuditInv == Init => AuditInv
<1> SUFFICES ASSUME Init PROVE AuditInv
  OBVIOUS
<1> USE DEF Init
<1>1. ShapeOK
  BY DEF ShapeOK, Request, MessageState, Handler, FreeHandler, InstanceState
<1>2. HandlesPublished /\ DoneIsDealtWith
  BY DEF HandlesPublished, DoneIsDealtWith, FreeHandler
<1>3. FoundIsThere /\ AdministratorExists
  BY DEF FoundIsThere, AdministratorExists
<1>4. TrailFollowsCommits /\ LostOnlyIfSwallowed
  BY DEF TrailFollowsCommits, LostOnlyIfSwallowed
<1> QED
  BY <1>1, <1>2, <1>3, <1>4 DEF AuditInv

----------------------------------------------------------------------------
(* The API processes                                                       *)

\* What a start, a stop or a seeding does to requests: none but those that end
\* without an answer, after their commit.
LEMMA ProcessesKeepInv ==
    ASSUME AuditInv, UNCHANGED queue,
           request' \in [Requests -> Request],
           \A r \in Requests : Committed(r) => Committed(r)',
           \A r \in Requests : request'[r].pc = "created" => request[r].pc = "created",
           instance' \in [Instances -> InstanceState], admins' \in Nat,
           FoundIsThere', AdministratorExists'
    PROVE  AuditInv'
<1> USE DEF AuditInv, queue
<1>1. ShapeOK' /\ HandlesPublished' /\ DoneIsDealtWith' /\ LostOnlyIfSwallowed'
  BY DEF ShapeOK, HandlesPublished, DoneIsDealtWith, LostOnlyIfSwallowed
<1>2. TrailFollowsCommits'
  BY DEF TrailFollowsCommits
<1> QED
  BY <1>1, <1>2

\* A start: what was found is there, what was raised is in `unseeded'.
LEMMA StartKeepsInv ==
    ASSUME AuditInv, NEW i \in Instances, Start(i) PROVE AuditInv'
<1> USE DEF AuditInv, Start, ShapeOK
<1>1. instance' \in [Instances -> InstanceState]
  BY DEF InstanceState
<1>2. FoundIsThere' /\ AdministratorExists'
  BY DEF FoundIsThere, AdministratorExists, InstanceState
<1> QED
  BY <1>1, <1>2, ProcessesKeepInv DEF Committed

\* A seeding: a process is up with an administrator, or with an error.
LEMMA SeedKeepsInv ==
    ASSUME AuditInv, NEW i \in Instances, Seed(i) PROVE AuditInv'
<1> USE DEF AuditInv, Seed, ShapeOK
<1>1. instance' \in [Instances -> InstanceState] /\ admins' \in Nat
  BY DEF InstanceState
<1>2. FoundIsThere' /\ AdministratorExists'
  BY DEF FoundIsThere, AdministratorExists, InstanceState
<1> QED
  BY <1>1, <1>2, ProcessesKeepInv DEF Committed

\* A stop: the requests it ends were committed.
LEMMA StopKeepsInv ==
    ASSUME AuditInv, NEW i \in Instances, Stop(i) PROVE AuditInv'
<1> USE DEF AuditInv, Stop, ShapeOK
<1>1. instance' \in [Instances -> InstanceState] /\ admins' \in Nat
  BY DEF InstanceState
<1>2. request' \in [Requests -> Request]
  BY DEF Request
<1>3. \A r \in Requests : /\ Committed(r) => Committed(r)'
                          /\ request'[r].pc = "created" => request[r].pc = "created"
  BY DEF Committed
<1>4. FoundIsThere' /\ AdministratorExists'
  BY DEF FoundIsThere, AdministratorExists, InstanceState
<1> QED
  BY <1>1, <1>2, <1>3, <1>4, ProcessesKeepInv

\* A request that inserts its discipline, or is refused, had no event before.
LEMMA CreateDisciplinaKeepsInv ==
    ASSUME AuditInv, NEW r \in Requests, NEW i \in Instances, NEW p \in Professors,
           CreateDisciplina(r, i, p)
    PROVE  AuditInv'
<1> USE DEF AuditInv, CreateDisciplina, ShapeOK
<1>1. request' \in [Requests -> Request]
  BY DEF Request
<1>2. \A q \in Requests : /\ Committed(q) => Committed(q)'
                          /\ request'[q].pc = "created" => request[q].pc = "created"
  BY DEF Committed, Request
<1>3. FoundIsThere' /\ AdministratorExists'
  BY DEF FoundIsThere, AdministratorExists
<1> QED
  BY <1>1, <1>2, <1>3, ProcessesKeepInv

\* A professor changes nothing the invariant speaks of.
LEMMA CreateProfessorKeepsInv ==
    ASSUME AuditInv, NEW p \in Professors, CreateProfessor(p) PROVE AuditInv'
<1> USE DEF AuditInv, CreateProfessor
<1>1. FoundIsThere' /\ AdministratorExists'
  BY DEF FoundIsThere, AdministratorExists
<1> QED
  BY <1>1, ProcessesKeepInv DEF Committed, ShapeOK

\* The event of a committed discipline is published; or an error is answered.
LEMMA PublishKeepsInv ==
    ASSUME AuditInv, NEW r \in Requests, Publish(r) PROVE AuditInv'
<1> USE DEF AuditInv, Publish, ShapeOK
<1>1. ShapeOK'
  BY DEF Request, MessageState
<1>2. HandlesPublished' /\ DoneIsDealtWith'
  BY DEF HandlesPublished, DoneIsDealtWith, MessageState
<1>3. FoundIsThere' /\ AdministratorExists'
  BY DEF FoundIsThere, AdministratorExists
<1>4. TrailFollowsCommits'
  BY DEF TrailFollowsCommits, Committed, Request, MessageState
<1>5. LostOnlyIfSwallowed'
  BY DEF LostOnlyIfSwallowed, MessageState
<1> QED
  BY <1>1, <1>2, <1>3, <1>4, <1>5

----------------------------------------------------------------------------
(* The worker                                                              *)

\* Whatever it does, no request and no administrator changes: what is left to
\* show is about messages, documents and calls.
LEMMA WorkerKeepsInv ==
    ASSUME AuditInv, UNCHANGED api,
           message' \in [Requests -> MessageState], log' \in [Requests -> Nat],
           handler' \in [Handlers -> Handler],
           \A r \in Requests : message'[r] = "none" <=> message[r] = "none",
           \A r \in Requests : log'[r] > 0 => log[r] > 0 \/ message[r] # "none",
           HandlesPublished', DoneIsDealtWith', LostOnlyIfSwallowed'
    PROVE  AuditInv'
<1> USE DEF AuditInv, api
<1>1. ShapeOK'
  BY DEF ShapeOK
<1>2. FoundIsThere' /\ AdministratorExists'
  BY DEF FoundIsThere, AdministratorExists
<1>3. TrailFollowsCommits'
  BY DEF TrailFollowsCommits, Committed
<1> QED
  BY <1>1, <1>2, <1>3

\* A delivery.
LEMMA DeliverKeepsInv ==
    ASSUME AuditInv, NEW h \in Handlers, NEW r \in Requests, Deliver(h, r) PROVE AuditInv'
<1> USE DEF AuditInv, Deliver, ShapeOK
<1>1. message' \in [Requests -> MessageState] /\ handler' \in [Handlers -> Handler]
  BY DEF MessageState, Handler
<1>2. \A q \in Requests : message'[q] = "none" <=> message[q] = "none"
  BY DEF MessageState
<1>3. HandlesPublished' /\ DoneIsDealtWith'
  BY <1>1 DEF HandlesPublished, DoneIsDealtWith, Handler
<1>4. LostOnlyIfSwallowed'
  BY DEF LostOnlyIfSwallowed, MessageState
<1> QED
  BY <1>1, <1>2, <1>3, <1>4, WorkerKeepsInv

\* The insert of a call, or what it raised.
LEMMA ProcessKeepsInv ==
    ASSUME AuditInv, NEW h \in Handlers, Process(h) PROVE AuditInv'
<1> USE DEF AuditInv, Process, ShapeOK
<1>1. handler[h].of \in Requests /\ message[handler[h].of] # "none"
  BY DEF HandlesPublished
<1>2. handler' \in [Handlers -> Handler] /\ log' \in [Requests -> Nat]
  BY <1>1 DEF Handler
<1>3. \A q \in Requests : log'[q] > 0 => log[q] > 0 \/ message[q] # "none"
  BY <1>1, <1>2
<1>4. \A q \in Requests : log[q] > 0 \/ q \in swallowed => log'[q] > 0 \/ q \in swallowed'
  BY <1>1
<1>5. HandlesPublished'
  BY DEF HandlesPublished, Handler
<1>6. DoneIsDealtWith'
  <2> SUFFICES ASSUME NEW g \in Handlers, handler'[g].pc = "done"
               PROVE  log'[handler'[g].of] > 0 \/ handler'[g].of \in swallowed'
    BY DEF DoneIsDealtWith
  <2>1. handler'[g].of = handler[g].of /\ handler[g].of \in Requests
    BY DEF HandlesPublished, Handler
  <2>2. CASE g = h
    BY <1>1, <2>1, <2>2
  <2>3. CASE g # h
    BY <1>4, <2>1, <2>3 DEF DoneIsDealtWith
  <2> QED
    BY <2>2, <2>3
<1>7. LostOnlyIfSwallowed'
  BY <1>4 DEF LostOnlyIfSwallowed
<1> QED
  BY <1>2, <1>3, <1>5, <1>6, <1>7, WorkerKeepsInv

\* The acknowledgement, heard or not.
LEMMA AcknowledgeKeepsInv ==
    ASSUME AuditInv, NEW h \in Handlers, Acknowledge(h) PROVE AuditInv'
<1> USE DEF AuditInv, Acknowledge, ShapeOK
<1>1. /\ handler[h].of \in Requests /\ message[handler[h].of] # "none"
      /\ log[handler[h].of] > 0 \/ handler[h].of \in swallowed
  BY DEF HandlesPublished, DoneIsDealtWith
<1>2. message' \in [Requests -> MessageState] /\ handler' \in [Handlers -> Handler]
  BY <1>1 DEF MessageState, Handler, FreeHandler
<1>3. \A q \in Requests : message'[q] = "none" <=> message[q] = "none"
  BY <1>1
<1>4. HandlesPublished' /\ DoneIsDealtWith'
  BY <1>1, <1>2, <1>3 DEF HandlesPublished, DoneIsDealtWith, Handler, FreeHandler
<1>5. LostOnlyIfSwallowed'
  BY <1>1 DEF LostOnlyIfSwallowed
<1> QED
  BY <1>2, <1>3, <1>4, <1>5, WorkerKeepsInv

\* What the broker takes back was published and is not acknowledged.
LEMMA RequeuedIsPublished ==
    ASSUME AuditInv, message' = Requeued
    PROVE  /\ message' \in [Requests -> MessageState]
           /\ \A q \in Requests : message'[q] = "none" <=> message[q] = "none"
           /\ \A q \in Requests : message'[q] = "acked" <=> message[q] = "acked"
  BY DEF AuditInv, ShapeOK, Requeued, MessageState

\* A lost connection: the calls run on.
LEMMA ReconnectKeepsInv == ASSUME AuditInv, Reconnect PROVE AuditInv'
<1> USE DEF AuditInv, Reconnect, ShapeOK
<1>1. handler' \in [Handlers -> Handler]
  BY DEF Handler
<1>2. \A h \in Handlers : handler'[h].pc = handler[h].pc /\ handler'[h].of = handler[h].of
  BY DEF Handler
<1>3. HandlesPublished' /\ DoneIsDealtWith'
  BY <1>2, RequeuedIsPublished DEF HandlesPublished, DoneIsDealtWith
<1>4. LostOnlyIfSwallowed'
  BY RequeuedIsPublished DEF LostOnlyIfSwallowed
<1> QED
  BY <1>1, <1>3, <1>4, RequeuedIsPublished, WorkerKeepsInv

\* A stop of the worker: its calls are no more.
LEMMA StopWorkerKeepsInv == ASSUME AuditInv, StopWorker PROVE AuditInv'
<1> USE DEF AuditInv, StopWorker, ShapeOK
<1>1. handler' \in [Handlers -> Handler]
  BY DEF Handler, FreeHandler
<1>2. HandlesPublished' /\ DoneIsDealtWith'
  BY DEF HandlesPublished, DoneIsDealtWith, FreeHandler
<1>3. LostOnlyIfSwallowed'
  BY RequeuedIsPublished DEF LostOnlyIfSwallowed
<1> QED
  BY <1>1, <1>2, <1>3, RequeuedIsPublished, WorkerKeepsInv

\* Its restart.
LEMMA RestartWorkerKeepsInv == ASSUME AuditInv, RestartWorker PROVE AuditInv'
<1> USE DEF AuditInv, RestartWorker
<1>1. HandlesPublished' /\ DoneIsDealtWith' /\ LostOnlyIfSwallowed'
  BY DEF HandlesPublished, DoneIsDealtWith, LostOnlyIfSwallowed
<1> QED
  BY <1>1, WorkerKeepsInv DEF ShapeOK

----------------------------------------------------------------------------
\* Every step keeps the invariant.
LEMMA NextAuditInv == AuditInv /\ [Next]_vars => AuditInv'
<1> SUFFICES ASSUME AuditInv, [Next]_vars PROVE AuditInv'
  OBVIOUS
<1>1. CASE RestartWorker
  BY <1>1, RestartWorkerKeepsInv
<1>2. CASE \E h \in Handlers : Process(h)
  BY <1>2, ProcessKeepsInv
<1>3. CASE \E h \in Handlers : Acknowledge(h)
  BY <1>3, AcknowledgeKeepsInv
<1>4. CASE \E h \in Handlers, r \in Requests : Deliver(h, r)
  BY <1>4, DeliverKeepsInv
<1>5. CASE Reconnect
  BY <1>5, ReconnectKeepsInv
<1>6. CASE StopWorker
  BY <1>6, StopWorkerKeepsInv
<1>7. CASE \E i \in Instances : Start(i)
  BY <1>7, StartKeepsInv
<1>8. CASE \E i \in Instances : Seed(i)
  BY <1>8, SeedKeepsInv
<1>9. CASE \E i \in Instances : Stop(i)
  BY <1>9, StopKeepsInv
<1>10. CASE \E p \in Professors : CreateProfessor(p)
  BY <1>10, CreateProfessorKeepsInv
<1>11. CASE \E r \in Requests : Publish(r)
  BY <1>11, PublishKeepsInv
<1>12. CASE \E r \in Requests, i \in Instances, p \in Professors : CreateDisciplina(r, i, p)
  BY <1>12, CreateDisciplinaKeepsInv
<1>13. CASE UNCHANGED vars
  BY <1>13 DEF vars, AuditInv, ShapeOK, HandlesPublished, DoneIsDealtWith, FoundIsThere,
               TrailFollowsCommits, LostOnlyIfSwallowed, AdministratorExists, Committed
<1> QED
  BY <1>1, <1>2, <1>3, <1>4, <1>5, <1>6, <1>7, <1>8, <1>9, <1>10, <1>11, <1>12, <1>13
     DEF Next, WorkerRuns

\* So it always holds.
LEMMA AuditInvariant == Spec => []AuditInv
  BY InitAuditInv, NextAuditInv, PTL DEF Spec

\* Whatever stops and whatever is lost, no event goes before its row, and a
\* client that was answered has its event with the broker
\* (tutorial_service.py:80-106).
THEOREM TrailFollowsCommitsAlways == Spec => []TrailFollowsCommits
<1>1. AuditInv => TrailFollowsCommits
  BY DEF AuditInv
<1> QED
  BY <1>1, AuditInvariant, PTL

\* An event is lost only where its failure was printed: neither a redelivery
\* nor an acknowledgement on a lost channel drops one (audit_worker.py:16-44).
THEOREM LostOnlyIfSwallowedAlways == Spec => []LostOnlyIfSwallowed
<1>1. AuditInv => LostOnlyIfSwallowed
  BY DEF AuditInv
<1> QED
  BY <1>1, AuditInvariant, PTL

\* However many processes start together, one that is up without an error has
\* an administrator (seed_mongo.py:9-32).
THEOREM AdministratorExistsAlways == Spec => []AdministratorExists
<1>1. AuditInv => AdministratorExists
  BY DEF AuditInv
<1> QED
  BY <1>1, AuditInvariant, PTL

----------------------------------------------------------------------------
(* Documents, deliveries and administrators, counted                       *)

\* A delivery that can be acknowledged is of a message that was not, and there
\* is one for every such message.
DeliveriesOK ==
    /\ \A h \in Handlers : handler[h].current =>
          handler[h].pc # "free" /\ message[handler[h].of] = "delivered"
    /\ \A g, h \in Handlers :
          g # h /\ handler[g].current /\ handler[h].current => handler[g].of # handler[h].of
    /\ \A r \in Requests : message[r] = "delivered" =>
          \E h \in Handlers : handler[h].of = r /\ handler[h].current

\* The calls that will insert a document of r.
Inserting(r) == {h \in Handlers : handler[h].pc = "received" /\ handler[h].of = r}

\* The documents of r still to come, if nothing goes wrong from here on.
ToCome(r) == Cardinality(Inserting(r)) + (IF message[r] \in {"none", "ready"} THEN 1 ELSE 0)

\* Those there are and those to come are one, and one for every fault at most.
CopiesBounded ==
    \A r \in Requests : IsFiniteSet(Inserting(r)) /\ log[r] + ToCome(r) <= 1 + faults

\* An event is published once, by the request that committed its discipline.
PublishedOnce == \A r \in Requests : request[r].pc = "committed" => message[r] = "none"

\* The processes that may still insert an administrator.
Seeding == {i \in Instances : instance[i] # "up"}

\* Likewise, one for every process and one for every fault.
AdminsBounded == admins + Cardinality(Seeding) <= Cardinality(Instances) + faults

BoundsOK ==
    /\ professor \subseteq Professors
    /\ swallowed \subseteq Requests
    /\ worker \in BOOLEAN
    /\ unseeded \subseteq Instances
    /\ faults \in 0..MaxFaults

\* The inductive invariant of the types and of the documents.
CountInv ==
    AuditInv /\ BoundsOK /\ PublishedOnce /\ DeliveriesOK /\ CopiesBounded /\ AdminsBounded

LEMMA SeedingFinite == IsFiniteSet(Seeding) /\ Cardinality(Seeding) \in Nat
<1>1. Seeding \in SUBSET Instances /\ IsFiniteSet(Instances)
  BY AuditAssumption DEF Seeding
<1>2. IsFiniteSet(Seeding)
  BY <1>1, FS_Subset
<1> QED
  BY <1>2, FS_CardinalityType

LEMMA InitCountInv == Init => CountInv
<1> SUFFICES ASSUME Init PROVE CountInv
  OBVIOUS
<1>1. AuditInv
  BY InitAuditInv
<1>2. BoundsOK
  BY AuditAssumption DEF Init, BoundsOK
<1>3. DeliveriesOK
  BY DEF Init, DeliveriesOK, FreeHandler
<1>4. CopiesBounded
  <2> SUFFICES ASSUME NEW r \in Requests
               PROVE  IsFiniteSet(Inserting(r)) /\ log[r] + ToCome(r) <= 1 + faults
    BY DEF CopiesBounded
  <2>1. Inserting(r) = {}
    BY DEF Init, Inserting, FreeHandler
  <2>2. IsFiniteSet(Inserting(r)) /\ Cardinality(Inserting(r)) = 0
    BY <2>1, FS_EmptySet
  <2> QED
    BY <2>2 DEF Init, ToCome
<1>5. AdminsBounded
  <2>1. Seeding = Instances
    BY DEF Init, Seeding
  <2>2. Cardinality(Instances) \in Nat
    BY AuditAssumption, FS_CardinalityType
  <2> QED
    BY <2>1, <2>2 DEF Init, AdminsBounded
<1>6. PublishedOnce
  BY DEF Init, PublishedOnce
<1> QED
  BY <1>1, <1>2, <1>3, <1>4, <1>5, <1>6 DEF CountInv

\* What the types say of a call that has a message.
LEMMA CallOK ==
    ASSUME CountInv, NEW h \in Handlers, handler[h].pc # "free"
    PROVE  handler[h].of \in Requests
  BY DEF CountInv, AuditInv, HandlesPublished

LEMMA InsertingType ==
    ASSUME CountInv, NEW r \in Requests
    PROVE  IsFiniteSet(Inserting(r)) /\ Cardinality(Inserting(r)) \in Nat
<1>1. IsFiniteSet(Inserting(r))
  BY DEF CountInv, CopiesBounded
<1> QED
  BY <1>1, FS_CardinalityType

\* The bound of the documents of r, when it is no more than it was or a fault
\* makes room for it.
LEMMA CopiesKept ==
    ASSUME CountInv, NEW r \in Requests, log[r] \in Nat, log'[r] \in Nat,
           faults \in Nat, faults' \in Nat,
           IsFiniteSet(Inserting(r)'), Cardinality(Inserting(r)') \in Nat,
           log'[r] + ToCome(r)' <= log[r] + ToCome(r) + (faults' - faults)
    PROVE  log'[r] + ToCome(r)' <= 1 + faults'
<1>1. ToCome(r) \in Nat /\ ToCome(r)' \in Nat
  BY InsertingType DEF ToCome
<1>2. log[r] + ToCome(r) <= 1 + faults
  BY DEF CountInv, CopiesBounded
<1> HIDE DEF ToCome
<1> QED
  BY <1>1, <1>2

\* Steps of the API that publish nothing leave all of the queue alone.
LEMMA QueueKept ==
    ASSUME CountInv, UNCHANGED queue, faults' \in Nat, faults' >= faults
    PROVE  DeliveriesOK' /\ CopiesBounded'
<1>1. DeliveriesOK'
  BY DEF CountInv, DeliveriesOK, queue
<1>2. CopiesBounded'
  <2> SUFFICES ASSUME NEW r \in Requests
               PROVE  IsFiniteSet(Inserting(r)') /\ log'[r] + ToCome(r)' <= 1 + faults'
    BY DEF CopiesBounded
  <2>1. Inserting(r)' = Inserting(r) /\ log'[r] = log[r] /\ message'[r] = message[r]
    BY DEF Inserting, queue
  <2>2. ToCome(r)' = ToCome(r)
    BY <2>1 DEF ToCome
  <2>3. IsFiniteSet(Inserting(r)) /\ log[r] + ToCome(r) <= 1 + faults
    BY DEF CountInv, CopiesBounded
  <2>4. log[r] + ToCome(r) \in Nat /\ faults \in Nat
    BY InsertingType DEF CountInv, AuditInv, ShapeOK, BoundsOK, ToCome
  <2> HIDE DEF ToCome
  <2> QED
    BY <2>1, <2>2, <2>3, <2>4
<1> QED
  BY <1>1, <1>2

\* The processes as they are leave the administrators within their bound.
LEMMA AdminsKept ==
    ASSUME CountInv, UNCHANGED <<instance, admins>>, faults' \in Nat, faults' >= faults
    PROVE  AdminsBounded'
<1>1. Seeding' = Seeding
  BY DEF Seeding
<1>2. admins + Cardinality(Seeding) <= Cardinality(Instances) + faults
  BY DEF CountInv, AdminsBounded
<1>3. /\ Cardinality(Seeding) \in Nat /\ Cardinality(Instances) \in Nat
      /\ admins \in Nat /\ faults \in Nat
  BY SeedingFinite, AuditAssumption, FS_CardinalityType
     DEF CountInv, AuditInv, ShapeOK, BoundsOK
<1> QED
  BY <1>1, <1>2, <1>3 DEF AdminsBounded

----------------------------------------------------------------------------
\* A start that finds no administrator will insert one; it counts already.
LEMMA StartCounts == ASSUME CountInv, NEW i \in Instances, Start(i) PROVE CountInv'
<1>1. AuditInv'
  BY StartKeepsInv DEF CountInv
<1>2. BoundsOK'
  BY DEF CountInv, BoundsOK, Start, queue
<1>3. faults' \in Nat /\ faults' >= faults
  BY DEF CountInv, BoundsOK, Start
<1>4. DeliveriesOK' /\ CopiesBounded'
  BY <1>3, QueueKept DEF Start
<1>5. AdminsBounded'
  <2>1. Seeding' \in SUBSET Seeding
    BY DEF CountInv, AuditInv, ShapeOK, Start, Seeding
  <2>2. Cardinality(Seeding') <= Cardinality(Seeding) /\ IsFiniteSet(Seeding')
    BY <2>1, SeedingFinite, FS_Subset
  <2>3. admins + Cardinality(Seeding) <= Cardinality(Instances) + faults
    BY DEF CountInv, AdminsBounded
  <2>4. /\ Cardinality(Seeding) \in Nat /\ Cardinality(Instances) \in Nat
        /\ admins \in Nat /\ faults \in Nat /\ Cardinality(Seeding') \in Nat
    BY <2>2, SeedingFinite, AuditAssumption, FS_CardinalityType
       DEF CountInv, AuditInv, ShapeOK, BoundsOK
  <2>5. admins' = admins /\ faults' = faults
    BY DEF Start
  <2> QED
    BY <2>2, <2>3, <2>4, <2>5 DEF AdminsBounded
<1>6. PublishedOnce'
  BY DEF CountInv, AuditInv, ShapeOK, PublishedOnce, Start, queue
<1> QED
  BY <1>1, <1>2, <1>4, <1>5, <1>6 DEF CountInv

\* A seeding is over: an administrator more, and one fewer to come.
LEMMA SeedCounts == ASSUME CountInv, NEW i \in Instances, Seed(i) PROVE CountInv'
<1>1. AuditInv'
  BY SeedKeepsInv DEF CountInv
<1>2. BoundsOK'
  BY DEF CountInv, BoundsOK, Seed, queue
<1>3. faults' \in Nat /\ faults' >= faults
  BY DEF CountInv, BoundsOK, Seed
<1>4. DeliveriesOK' /\ CopiesBounded'
  BY <1>3, QueueKept DEF Seed
<1>5. AdminsBounded'
  <2>1. Seeding' = Seeding \ {i} /\ i \in Seeding
    BY DEF CountInv, AuditInv, ShapeOK, Seed, Seeding
  <2>2. Cardinality(Seeding') = Cardinality(Seeding) - 1 /\ IsFiniteSet(Seeding')
    BY <2>1, SeedingFinite, FS_RemoveElement
  <2>3. admins + Cardinality(Seeding) <= Cardinality(Instances) + faults
    BY DEF CountInv, AdminsBounded
  <2>4. /\ Cardinality(Seeding) \in Nat /\ Cardinality(Instances) \in Nat
        /\ admins \in Nat /\ faults \in Nat /\ Cardinality(Seeding') \in Nat
    BY <2>2, SeedingFinite, AuditAssumption, FS_CardinalityType
       DEF CountInv, AuditInv, ShapeOK, BoundsOK
  <2>5. admins' \in {admins, admins + 1} /\ faults' = faults
    BY DEF Seed
  <2> QED
    BY <2>2, <2>3, <2>4, <2>5 DEF AdminsBounded
<1>6. PublishedOnce'
  BY DEF CountInv, AuditInv, ShapeOK, PublishedOnce, Seed, queue
<1> QED
  BY <1>1, <1>2, <1>4, <1>5, <1>6 DEF CountInv

\* A process that stops starts again: a fault more, and one more to come.
LEMMA StopCounts == ASSUME CountInv, NEW i \in Instances, Stop(i) PROVE CountInv'
<1>1. AuditInv'
  BY StopKeepsInv DEF CountInv
<1>2. BoundsOK'
  BY AuditAssumption DEF CountInv, BoundsOK, Stop, Fault, queue
<1>3. faults' \in Nat /\ faults' = faults + 1 /\ faults \in Nat
  BY DEF CountInv, BoundsOK, Stop, Fault
<1>4. DeliveriesOK' /\ CopiesBounded'
  BY <1>3, QueueKept DEF Stop
<1>5. AdminsBounded'
  <2>1. Seeding' = Seeding \cup {i}
    BY DEF CountInv, AuditInv, ShapeOK, Stop, Seeding
  <2>2. Cardinality(Seeding') <= Cardinality(Seeding) + 1 /\ Cardinality(Seeding') \in Nat
    <3>1. IsFiniteSet(Seeding) /\ Cardinality(Seeding) \in Nat
      BY SeedingFinite
    <3>2. /\ IsFiniteSet(Seeding \cup {i})
          /\ Cardinality(Seeding \cup {i})
               = IF i \in Seeding THEN Cardinality(Seeding) ELSE Cardinality(Seeding) + 1
      BY <3>1, FS_AddElement
    <3> QED
      BY <2>1, <3>1, <3>2
  <2>3. admins + Cardinality(Seeding) <= Cardinality(Instances) + faults
    BY DEF CountInv, AdminsBounded
  <2>4. /\ Cardinality(Seeding) \in Nat /\ Cardinality(Instances) \in Nat
        /\ admins \in Nat
    BY SeedingFinite, AuditAssumption, FS_CardinalityType DEF CountInv, AuditInv, ShapeOK
  <2>5. admins' = admins
    BY DEF Stop
  <2> QED
    BY <1>3, <2>2, <2>3, <2>4, <2>5 DEF AdminsBounded
<1>6. PublishedOnce'
  BY DEF CountInv, AuditInv, ShapeOK, PublishedOnce, Stop, queue
<1> QED
  BY <1>1, <1>2, <1>4, <1>5, <1>6 DEF CountInv

\* Rows are inserted: nothing that is counted changes.
LEMMA RowsCount ==
    ASSUME CountInv,
           \/ \E p \in Professors : CreateProfessor(p)
           \/ \E r \in Requests, i \in Instances, p \in Professors : CreateDisciplina(r, i, p)
    PROVE  CountInv'
<1>1. AuditInv'
  BY CreateProfessorKeepsInv, CreateDisciplinaKeepsInv DEF CountInv
<1>2. UNCHANGED <<instance, admins, unseeded, faults>> /\ UNCHANGED queue
  BY DEF CreateProfessor, CreateDisciplina
<1>3. professor' \subseteq Professors
  BY DEF CreateProfessor, CreateDisciplina, CountInv, BoundsOK
<1>4. BoundsOK'
  BY <1>2, <1>3 DEF CountInv, BoundsOK, queue
<1>5. faults' \in Nat /\ faults' >= faults
  BY <1>2 DEF CountInv, BoundsOK
<1>6. PublishedOnce'
  BY DEF CountInv, AuditInv, ShapeOK, PublishedOnce, TrailFollowsCommits, Committed,
         CreateProfessor, CreateDisciplina, queue
<1>7. DeliveriesOK' /\ CopiesBounded' /\ AdminsBounded'
  BY <1>2, <1>5, QueueKept, AdminsKept
<1> QED
  BY <1>1, <1>4, <1>6, <1>7 DEF CountInv

\* A published event's document was to come before, too.
LEMMA PublishCounts == ASSUME CountInv, NEW r \in Requests, Publish(r) PROVE CountInv'
<1>1. AuditInv'
  BY PublishKeepsInv DEF CountInv
<1>2. /\ UNCHANGED <<professor, instance, admins, unseeded, faults, log, swallowed, worker, handler>>
      /\ \/ message' = [message EXCEPT ![r] = "ready"]
         \/ UNCHANGED message
      /\ request[r].pc = "committed"
  BY DEF Publish
<1>3. message[r] = "none" /\ message \in [Requests -> MessageState]
  BY <1>2 DEF CountInv, AuditInv, ShapeOK, PublishedOnce
<1>4. BoundsOK'
  BY <1>2 DEF CountInv, BoundsOK
<1>5. faults' = faults /\ faults \in Nat
  BY <1>2 DEF CountInv, BoundsOK
<1>6. AdminsBounded'
  BY <1>2, <1>5, AdminsKept
<1>7. DeliveriesOK'
  BY <1>2, <1>3 DEF CountInv, AuditInv, ShapeOK, HandlesPublished, DeliveriesOK
<1>8. CopiesBounded'
  <2> SUFFICES ASSUME NEW q \in Requests
               PROVE  IsFiniteSet(Inserting(q)') /\ log'[q] + ToCome(q)' <= 1 + faults'
    BY DEF CopiesBounded
  <2>1. Inserting(q)' = Inserting(q)
    BY <1>2 DEF Inserting
  <2>2. ToCome(q)' = ToCome(q)
    BY <1>2, <1>3, <2>1 DEF ToCome
  <2>3. IsFiniteSet(Inserting(q)) /\ log[q] + ToCome(q) <= 1 + faults
    BY DEF CountInv, CopiesBounded
  <2> QED
    BY <1>2, <1>5, <2>1, <2>2, <2>3
<1>9. PublishedOnce'
  BY <1>2, <1>3 DEF CountInv, AuditInv, ShapeOK, PublishedOnce, Publish
<1> QED
  BY <1>1, <1>4, <1>6, <1>7, <1>8, <1>9 DEF CountInv

----------------------------------------------------------------------------
\* The worker changes no request: what is left to show is about the queue.
LEMMA WorkerCounts ==
    ASSUME CountInv, AuditInv', UNCHANGED api,
           \A r \in Requests : message'[r] = "none" <=> message[r] = "none",
           swallowed' \subseteq Requests, worker' \in BOOLEAN,
           faults' \in 0..MaxFaults, faults' >= faults,
           DeliveriesOK', CopiesBounded'
    PROVE  CountInv'
<1>1. BoundsOK'
  BY DEF CountInv, BoundsOK, api
<1>2. AdminsBounded'
  BY AdminsKept DEF api
<1>3. PublishedOnce'
  BY DEF CountInv, PublishedOnce, api
<1> QED
  BY <1>1, <1>2, <1>3 DEF CountInv

\* A delivery: a ready message's document is now the call's to insert.
LEMMA DeliverCounts ==
    ASSUME CountInv, NEW h \in Handlers, NEW r \in Requests, Deliver(h, r) PROVE CountInv'
<1>1. AuditInv'
  BY DeliverKeepsInv DEF CountInv
<1>2. /\ message \in [Requests -> MessageState] /\ handler \in [Handlers -> Handler]
      /\ faults \in 0..MaxFaults /\ log \in [Requests -> Nat]
  BY DEF CountInv, AuditInv, ShapeOK, BoundsOK
<1>3. /\ \A q \in Requests : message'[q] = IF q = r THEN "delivered" ELSE message[q]
      /\ \A g \in Handlers : handler'[g] = IF g = h THEN [pc |-> "received", of |-> r, current |-> TRUE]
                                                    ELSE handler[g]
      /\ message[r] = "ready" /\ handler[h].pc = "free"
      /\ UNCHANGED <<log, swallowed, worker, faults>> /\ UNCHANGED api
  BY <1>2 DEF Deliver
<1>4. DeliveriesOK'
  BY <1>2, <1>3, CallOK DEF CountInv, DeliveriesOK
<1>5. CopiesBounded'
  <2> SUFFICES ASSUME NEW q \in Requests
               PROVE  IsFiniteSet(Inserting(q)') /\ log'[q] + ToCome(q)' <= 1 + faults'
    BY DEF CopiesBounded
  <2>1. IsFiniteSet(Inserting(q)) /\ Cardinality(Inserting(q)) \in Nat
    BY InsertingType
  <2>2. log[q] + ToCome(q) <= 1 + faults
    BY DEF CountInv, CopiesBounded
  <2>3. CASE q = r
    <3>1. Inserting(q)' = Inserting(q) \cup {h} /\ h \notin Inserting(q)
      BY <1>3, <2>3 DEF Inserting
    <3>2. /\ IsFiniteSet(Inserting(q)')
          /\ Cardinality(Inserting(q)') = Cardinality(Inserting(q)) + 1
      BY <2>1, <3>1, FS_AddElement
    <3>3. ToCome(q)' = ToCome(q)
      BY <1>3, <2>1, <2>3, <3>2 DEF ToCome
    <3> QED
      BY <1>3, <2>2, <3>2, <3>3
  <2>4. CASE q # r
    <3>1. Inserting(q)' = Inserting(q)
      BY <1>3, <2>4 DEF Inserting
    <3>2. ToCome(q)' = ToCome(q)
      BY <1>3, <2>4, <3>1 DEF ToCome
    <3> QED
      BY <1>3, <2>1, <2>2, <3>1, <3>2
  <2> QED
    BY <2>3, <2>4
<1> QED
  BY <1>1, <1>2, <1>3, <1>4, <1>5, WorkerCounts DEF CountInv, BoundsOK

\* The insert: a document more, and one fewer to come.
LEMMA ProcessCounts ==
    ASSUME CountInv, NEW h \in Handlers, Process(h) PROVE CountInv'
<1>1. AuditInv'
  BY ProcessKeepsInv DEF CountInv
<1>2. /\ message \in [Requests -> MessageState] /\ handler \in [Handlers -> Handler]
      /\ faults \in 0..MaxFaults /\ log \in [Requests -> Nat]
  BY DEF CountInv, AuditInv, ShapeOK, BoundsOK
<1>3. handler[h].pc = "received" /\ handler[h].of \in Requests
  BY CallOK DEF Process
<1>4. /\ \A g \in Handlers : /\ handler'[g].pc = IF g = h THEN "done" ELSE handler[g].pc
                             /\ handler'[g].of = handler[g].of
                             /\ handler'[g].current = handler[g].current
      /\ UNCHANGED <<message, worker, faults>> /\ UNCHANGED api
  BY <1>2 DEF Process, Handler
<1>5. \A q \in Requests : IF q = handler[h].of THEN log'[q] \in {log[q], log[q] + 1}
                                               ELSE log'[q] = log[q]
  BY <1>2, <1>3 DEF Process
<1>6. swallowed' \subseteq Requests
  BY <1>3 DEF Process, CountInv, BoundsOK
<1>7. DeliveriesOK'
  BY <1>3, <1>4 DEF CountInv, DeliveriesOK
<1>8. CopiesBounded'
  <2> SUFFICES ASSUME NEW q \in Requests
               PROVE  IsFiniteSet(Inserting(q)') /\ log'[q] + ToCome(q)' <= 1 + faults'
    BY DEF CopiesBounded
  <2>1. IsFiniteSet(Inserting(q)) /\ Cardinality(Inserting(q)) \in Nat
    BY InsertingType
  <2>2. log[q] + ToCome(q) <= 1 + faults
    BY DEF CountInv, CopiesBounded
  <2>3. CASE q = handler[h].of
    <3>1. Inserting(q)' = Inserting(q) \ {h} /\ h \in Inserting(q)
      BY <1>3, <1>4, <2>3 DEF Inserting
    <3>2. /\ IsFiniteSet(Inserting(q)')
          /\ Cardinality(Inserting(q)') = Cardinality(Inserting(q)) - 1
      BY <2>1, <3>1, FS_RemoveElement
    <3>3. ToCome(q)' = ToCome(q) - 1 /\ ToCome(q) \in Nat
      BY <1>4, <2>1, <3>2 DEF ToCome
    <3>4. log'[q] \in {log[q], log[q] + 1} /\ log[q] \in Nat
      BY <1>2, <1>5, <2>3
    <3> QED
      BY <1>2, <1>4, <2>2, <3>2, <3>3, <3>4
  <2>4. CASE q # handler[h].of
    <3>1. Inserting(q)' = Inserting(q)
      BY <1>3, <1>4, <2>4 DEF Inserting
    <3>2. ToCome(q)' = ToCome(q)
      BY <1>4, <3>1 DEF ToCome
    <3> QED
      BY <1>4, <1>5, <2>1, <2>2, <2>4, <3>1, <3>2
  <2> QED
    BY <2>3, <2>4
<1> QED
  BY <1>1, <1>2, <1>4, <1>6, <1>7, <1>8, WorkerCounts DEF CountInv, BoundsOK

\* An acknowledgement: no document is to come of it any more.
LEMMA AcknowledgeCounts ==
    ASSUME CountInv, NEW h \in Handlers, Acknowledge(h) PROVE CountInv'
<1>1. AuditInv'
  BY AcknowledgeKeepsInv DEF CountInv
<1>2. /\ message \in [Requests -> MessageState] /\ handler \in [Handlers -> Handler]
      /\ faults \in 0..MaxFaults /\ log \in [Requests -> Nat]
  BY DEF CountInv, AuditInv, ShapeOK, BoundsOK
<1>3. /\ handler[h].pc = "done" /\ handler[h].of \in Requests
      /\ message[handler[h].of] # "none"
  BY CallOK DEF Acknowledge, CountInv, AuditInv, HandlesPublished
<1>4. /\ \A g \in Handlers : handler'[g] = IF g = h THEN FreeHandler ELSE handler[g]
      /\ \A q \in Requests : message'[q] = IF handler[h].current /\ q = handler[h].of
                                             THEN "acked" ELSE message[q]
      /\ UNCHANGED <<log, swallowed, worker, faults>> /\ UNCHANGED api
  BY <1>2 DEF Acknowledge
<1>5. DeliveriesOK'
  <2>1. \A g \in Handlers : handler'[g].current => g # h /\ handler[g].current /\ handler'[g] = handler[g]
    BY <1>4 DEF FreeHandler
  <2>2. \A g \in Handlers : handler[g].current => message[handler[g].of] = "delivered"
                                                 /\ handler[g].pc # "free"
    BY DEF CountInv, DeliveriesOK
  <2>3. \A g \in Handlers : handler'[g].current => message'[handler'[g].of] = "delivered"
    <3> SUFFICES ASSUME NEW g \in Handlers, handler'[g].current
                 PROVE  message'[handler'[g].of] = "delivered"
      OBVIOUS
    <3>1. handler[g].of \in Requests
      BY <2>1, <2>2, CallOK
    <3>2. handler[h].current => handler[g].of # handler[h].of
      BY <2>1 DEF CountInv, DeliveriesOK
    <3> QED
      BY <1>4, <2>1, <2>2, <3>1, <3>2
  <2>4. \A q \in Requests : message'[q] = "delivered" =>
           \E g \in Handlers : handler'[g].of = q /\ handler'[g].current
    <3> SUFFICES ASSUME NEW q \in Requests, message'[q] = "delivered"
                 PROVE  \E g \in Handlers : handler'[g].of = q /\ handler'[g].current
      OBVIOUS
    <3>1. message[q] = "delivered" /\ ~(handler[h].current /\ q = handler[h].of)
      BY <1>4
    <3>2. PICK g \in Handlers : handler[g].of = q /\ handler[g].current
      BY <3>1 DEF CountInv, DeliveriesOK
    <3> QED
      BY <1>4, <3>1, <3>2
  <2>5. \A f, g \in Handlers : f # g /\ handler'[f].current /\ handler'[g].current =>
           handler'[f].of # handler'[g].of
    BY <2>1 DEF CountInv, DeliveriesOK
  <2> QED
    BY <2>1, <2>2, <2>3, <2>4, <2>5 DEF DeliveriesOK
<1>6. CopiesBounded'
  <2> SUFFICES ASSUME NEW q \in Requests
               PROVE  IsFiniteSet(Inserting(q)') /\ log'[q] + ToCome(q)' <= 1 + faults'
    BY DEF CopiesBounded
  <2>1. IsFiniteSet(Inserting(q)) /\ Cardinality(Inserting(q)) \in Nat
    BY InsertingType
  <2>2. log[q] + ToCome(q) <= 1 + faults
    BY DEF CountInv, CopiesBounded
  <2>3. Inserting(q)' = Inserting(q)
    BY <1>3, <1>4 DEF Inserting, FreeHandler
  <2>4. ToCome(q)' <= ToCome(q) /\ ToCome(q) \in Nat /\ ToCome(q)' \in Nat
    BY <1>4, <2>1, <2>3 DEF ToCome
  <2> HIDE DEF ToCome
  <2> QED
    BY <1>2, <1>4, <2>1, <2>2, <2>3, <2>4
<1> QED
  BY <1>1, <1>2, <1>3, <1>4, <1>5, <1>6, WorkerCounts DEF CountInv, BoundsOK

\* What is taken back: a document more may come, and a fault is counted.
LEMMA RequeuedCounts ==
    ASSUME CountInv, message' = Requeued, log' = log, faults' = faults + 1,
           \A h \in Handlers : handler'[h].current = FALSE,
           \A h \in Handlers : handler'[h].pc = "received" =>
                 handler[h].pc = "received" /\ handler'[h].of = handler[h].of
    PROVE  DeliveriesOK' /\ CopiesBounded'
<1>1. \A r \in Requests : message'[r] = IF message[r] = "delivered" THEN "ready" ELSE message[r]
  BY DEF Requeued
<1>2. DeliveriesOK'
  BY <1>1 DEF DeliveriesOK
<1>3. CopiesBounded'
  <2> SUFFICES ASSUME NEW q \in Requests
               PROVE  IsFiniteSet(Inserting(q)') /\ log'[q] + ToCome(q)' <= 1 + faults'
    BY DEF CopiesBounded
  <2>1. IsFiniteSet(Inserting(q)) /\ Cardinality(Inserting(q)) \in Nat
    BY InsertingType
  <2>2. log[q] + ToCome(q) <= 1 + faults
    BY DEF CountInv, CopiesBounded
  <2>3. Inserting(q)' \in SUBSET Inserting(q)
    BY DEF Inserting
  <2>4. /\ IsFiniteSet(Inserting(q)') /\ Cardinality(Inserting(q)') \in Nat
        /\ Cardinality(Inserting(q)') <= Cardinality(Inserting(q))
    BY <2>1, <2>3, FS_Subset, FS_CardinalityType
  <2>5. ToCome(q)' <= ToCome(q) + 1 /\ ToCome(q) \in Nat /\ ToCome(q)' \in Nat
    BY <1>1, <2>1, <2>4 DEF ToCome
  <2>6. log[q] \in Nat /\ faults \in Nat
    BY DEF CountInv, AuditInv, ShapeOK, BoundsOK
  <2> HIDE DEF ToCome
  <2> QED
    BY <2>2, <2>4, <2>5, <2>6
<1> QED
  BY <1>2, <1>3

LEMMA ReconnectCounts == ASSUME CountInv, Reconnect PROVE CountInv'
<1>1. AuditInv'
  BY ReconnectKeepsInv DEF CountInv
<1>2. \A h \in Handlers : /\ handler'[h].current = FALSE
                          /\ handler'[h].pc = handler[h].pc /\ handler'[h].of = handler[h].of
  BY DEF CountInv, AuditInv, ShapeOK, Handler, Reconnect
<1>3. faults' = faults + 1 /\ faults' \in 0..MaxFaults /\ faults' >= faults
  BY AuditAssumption DEF CountInv, BoundsOK, Reconnect, Fault
<1>4. message' = Requeued /\ log' = log /\ UNCHANGED <<swallowed, worker>> /\ UNCHANGED api
  BY DEF Reconnect
<1>5. DeliveriesOK' /\ CopiesBounded'
  BY <1>2, <1>3, <1>4, RequeuedCounts
<1>6. \A r \in Requests : message'[r] = "none" <=> message[r] = "none"
  BY <1>4, RequeuedIsPublished DEF CountInv
<1> QED
  BY <1>1, <1>3, <1>4, <1>5, <1>6, WorkerCounts DEF CountInv, BoundsOK

LEMMA StopWorkerCounts == ASSUME CountInv, StopWorker PROVE CountInv'
<1>1. AuditInv'
  BY StopWorkerKeepsInv DEF CountInv
<1>2. \A h \in Handlers : handler'[h].current = FALSE /\ handler'[h].pc = "free"
  BY DEF StopWorker, FreeHandler
<1>3. faults' = faults + 1 /\ faults' \in 0..MaxFaults /\ faults' >= faults
  BY AuditAssumption DEF CountInv, BoundsOK, StopWorker, Fault
<1>4. /\ message' = Requeued /\ log' = log /\ swallowed' = swallowed /\ worker' = FALSE
      /\ UNCHANGED api
  BY DEF StopWorker
<1>5. DeliveriesOK' /\ CopiesBounded'
  BY <1>2, <1>3, <1>4, RequeuedCounts
<1>6. \A r \in Requests : message'[r] = "none" <=> message[r] = "none"
  BY <1>4, RequeuedIsPublished DEF CountInv
<1> QED
  BY <1>1, <1>3, <1>4, <1>5, <1>6, WorkerCounts DEF CountInv, BoundsOK

LEMMA RestartWorkerCounts == ASSUME CountInv, RestartWorker PROVE CountInv'
<1>1. AuditInv'
  BY RestartWorkerKeepsInv DEF CountInv
<1>2. UNCHANGED <<message, log, swallowed, handler, faults>> /\ UNCHANGED api /\ worker' = TRUE
  BY DEF RestartWorker
<1>3. DeliveriesOK'
  BY <1>2 DEF CountInv, DeliveriesOK
<1>4. CopiesBounded'
  BY <1>2 DEF CountInv, CopiesBounded, ToCome, Inserting
<1>5. faults' \in 0..MaxFaults /\ faults' >= faults
  BY <1>2 DEF CountInv, BoundsOK
<1> QED
  BY <1>1, <1>2, <1>3, <1>4, <1>5, WorkerCounts DEF CountInv, BoundsOK

LEMMA StutterCounts == ASSUME CountInv, UNCHANGED vars PROVE CountInv'
<1>1. AuditInv'
  BY NextAuditInv DEF CountInv
<1>2. UNCHANGED api /\ UNCHANGED queue /\ UNCHANGED faults
  BY DEF vars, api, queue
<1>3. faults' \in Nat /\ faults' >= faults
  BY <1>2 DEF CountInv, BoundsOK
<1>4. DeliveriesOK' /\ CopiesBounded'
  BY <1>2, <1>3, QueueKept
<1> QED
  BY <1>1, <1>2, <1>3, <1>4, WorkerCounts DEF CountInv, BoundsOK, queue

\* Every step keeps the bounds.
LEMMA NextCountInv == CountInv /\ [Next]_vars => CountInv'
<1> SUFFICES ASSUME CountInv, [Next]_vars PROVE CountInv'
  OBVIOUS
<1>1. CASE RestartWorker
  BY <1>1, RestartWorkerCounts
<1>2. CASE \E h \in Handlers : Process(h)
  BY <1>2, ProcessCounts
<1>3. CASE \E h \in Handlers : Acknowledge(h)
  BY <1>3, AcknowledgeCounts
<1>4. CASE \E h \in Handlers, r \in Requests : Deliver(h, r)
  BY <1>4, DeliverCounts
<1>5. CASE Reconnect
  BY <1>5, ReconnectCounts
<1>6. CASE StopWorker
  BY <1>6, StopWorkerCounts
<1>7. CASE \E i \in Instances : Start(i)
  BY <1>7, StartCounts
<1>8. CASE \E i \in Instances : Seed(i)
  BY <1>8, SeedCounts
<1>9. CASE \E i \in Instances : Stop(i)
  BY <1>9, StopCounts
<1>10. CASE \E p \in Professors : CreateProfessor(p)
  BY <1>10, RowsCount
<1>11. CASE \E r \in Requests : Publish(r)
  BY <1>11, PublishCounts
<1>12. CASE \E r \in Requests, i \in Instances, p \in Professors : CreateDisciplina(r, i, p)
  BY <1>12, RowsCount
<1>13. CASE UNCHANGED vars
  BY <1>13, StutterCounts
<1> QED
  BY <1>1, <1>2, <1>3, <1>4, <1>5, <1>6, <1>7, <1>8, <1>9, <1>10, <1>11, <1>12, <1>13
     DEF Next, WorkerRuns

LEMMA CountInvariant == Spec => []CountInv
  BY InitCountInv, NextCountInv, PTL DEF Spec

\* Whatever is delivered again, and however many calls are at work, a discipline
\* has one document, and at most one more for each stop or lost connection
\* (audit_worker.py:16-44).
THEOREM DoubledOnlyByFaultsAlways == Spec => []DoubledOnlyByFaults
<1>1. CountInv => DoubledOnlyByFaults
  <2> SUFFICES ASSUME CountInv, NEW r \in Requests PROVE log[r] <= 1 + faults
    BY DEF DoubledOnlyByFaults
  <2>1. log[r] + ToCome(r) <= 1 + faults /\ log[r] \in Nat /\ faults \in Nat
    BY DEF CountInv, CopiesBounded, AuditInv, ShapeOK, BoundsOK
  <2>2. ToCome(r) \in Nat
    BY InsertingType DEF ToCome
  <2> HIDE DEF ToCome
  <2> QED
    BY <2>1, <2>2
<1> QED
  BY <1>1, CountInvariant, PTL

\* Every variable has its type; there are never more documents nor more
\* administrators than the faults account for, and one delivery at most can
\* acknowledge a message.
THEOREM AuditTypes == Spec => []TypeOK
<1>1. CountInv => TypeOK
  <2> SUFFICES ASSUME CountInv PROVE TypeOK
    OBVIOUS
  <2>1. faults \in 0..MaxFaults /\ MaxFaults \in Nat
    BY AuditAssumption DEF CountInv, BoundsOK
  <2>2. log \in [Requests -> 0..MaxFaults + 1]
    <3>1. log \in [Requests -> Nat]
      BY DEF CountInv, AuditInv, ShapeOK
    <3>2. \A r \in Requests : log[r] \in 0..MaxFaults + 1
      <4> SUFFICES ASSUME NEW r \in Requests PROVE log[r] \in 0..MaxFaults + 1
        OBVIOUS
      <4>1. log[r] + ToCome(r) <= 1 + faults /\ log[r] \in Nat
        BY <3>1 DEF CountInv, CopiesBounded
      <4>2. ToCome(r) \in Nat
        BY InsertingType DEF ToCome
      <4> HIDE DEF ToCome
      <4> QED
        BY <2>1, <4>1, <4>2
    <3> QED
      BY <3>1, <3>2
  <2>3. admins \in 0..Cardinality(Instances) + MaxFaults
    <3>1. admins + Cardinality(Seeding) <= Cardinality(Instances) + faults /\ admins \in Nat
      BY DEF CountInv, AdminsBounded, AuditInv, ShapeOK
    <3>2. Cardinality(Seeding) \in Nat /\ Cardinality(Instances) \in Nat
      BY SeedingFinite, AuditAssumption, FS_CardinalityType
    <3> QED
      BY <2>1, <3>1, <3>2
  <2> QED
    BY <2>1, <2>2, <2>3 DEF CountInv, BoundsOK, DeliveriesOK, AuditInv, ShapeOK, TypeOK
<1> QED
  BY <1>1, CountInvariant, PTL
=============================================================================
