----------------------------- MODULE AuditTrail -----------------------------
(***************************************************************************)
(* core-service: a discipline is committed to PostgreSQL, its event is     *)
(* published to the durable queue audit.logs, and the audit worker copies  *)
(* the event to MongoDB.  The three stores share no transaction: processes *)
(* stop and connections break between the steps.                           *)
(*                                                                         *)
(* The API processes also see to it, when they start, that MongoDB holds   *)
(* an administrator.                                                       *)
(***************************************************************************)
EXTENDS Naturals, FiniteSets

CONSTANTS
    Requests,    \* POST /sobre/disciplinas, and the discipline each inserts
    Professors,  \* by their e-mail addresses, which are unique
    Instances,   \* API processes
    Handlers,    \* process_message calls at a time: prefetch_count
    NoInstance,
    NoRequest,
    MaxFaults    \* bound: stops and lost connections in one behaviour

ASSUME AuditAssumption == MaxFaults \in Nat /\ IsFiniteSet(Instances)

VARIABLES
    professor,  \* SUBSET Professors, the rows
    request,    \* [Requests -> Request]
    message,    \* [Requests -> MessageState], the event of each discipline
    log,        \* [Requests -> Nat], its documents in logs_auditoria
    swallowed,  \* history: events whose insert raised, which was only printed
    worker,     \* BOOLEAN, the audit worker runs and is connected
    handler,    \* [Handlers -> Handler], its calls of process_message
    instance,   \* [Instances -> InstanceState]
    admins,     \* documents with the administrator's e-mail address
    unseeded,   \* history: instances whose seeding raised, which was only logged
    faults      \* bounded by MaxFaults

vars == <<professor, request, message, log, swallowed, worker, handler, instance, admins,
          unseeded, faults>>
queue == <<message, log, swallowed, worker, handler>>
api   == <<professor, request, instance, admins, unseeded>>

\* "committed" is the discipline without its event; the client has 201 in
\* "created", and an error in the last two.
Request == [pc : {"idle", "committed", "created", "failed", "refused"},
            at : Instances \cup {NoInstance}]

MessageState == {"none", "ready", "delivered", "acked"}

InstanceState == {"down", "found", "missing", "up"}

\* `current': the channel the message came on is open, it can be acknowledged.
Handler == [pc      : {"free", "received", "done"},
            of      : Requests \cup {NoRequest},
            current : BOOLEAN]

FreeHandler == [pc |-> "free", of |-> NoRequest, current |-> FALSE]

\* At most one delivery of a message can be acknowledged.
TypeOK ==
    /\ professor \subseteq Professors
    /\ request \in [Requests -> Request]
    /\ message \in [Requests -> MessageState]
    /\ log \in [Requests -> 0..MaxFaults + 1]
    /\ swallowed \subseteq Requests
    /\ worker \in BOOLEAN
    /\ handler \in [Handlers -> Handler]
    /\ \A r \in Requests : message[r] = "delivered" =>
          \E h \in Handlers : handler[h].of = r /\ handler[h].current
    /\ \A g, h \in Handlers :
          g # h /\ handler[g].current /\ handler[h].current => handler[g].of # handler[h].of
    /\ instance \in [Instances -> InstanceState]
    /\ admins \in 0..Cardinality(Instances) + MaxFaults
    /\ unseeded \subseteq Instances
    /\ faults \in 0..MaxFaults

\* The migration has made the tables and its one professor; MongoDB is empty.
Init ==
    /\ \E p \in Professors : professor = {p}
    /\ request = [r \in Requests |-> [pc |-> "idle", at |-> NoInstance]]
    /\ message = [r \in Requests |-> "none"]
    /\ log = [r \in Requests |-> 0]
    /\ swallowed = {}
    /\ worker = TRUE
    /\ handler = [h \in Handlers |-> FreeHandler]
    /\ instance = [i \in Instances |-> "down"]
    /\ admins = 0
    /\ unseeded = {}
    /\ faults = 0

Fault == faults < MaxFaults /\ faults' = faults + 1

----------------------------------------------------------------------------
(* API processes                                                           *)

\* lifespan, seed_mongo_users: the administrator is looked for, and inserted in
\* a later await; what is raised in either is logged and the process starts.
Start(i) ==
    /\ instance[i] = "down"
    /\ \/ /\ instance' = [instance EXCEPT ![i] = IF admins > 0 THEN "found" ELSE "missing"]
          /\ UNCHANGED unseeded
       \/ instance' = [instance EXCEPT ![i] = "up"] /\ unseeded' = unseeded \cup {i}
    /\ UNCHANGED <<professor, request, admins, faults>> /\ UNCHANGED queue

\* A bug to catch: the insert is left out.
SeedNothing(i) ==
    /\ instance[i] \in {"found", "missing"}
    /\ instance' = [instance EXCEPT ![i] = "up"]
    /\ UNCHANGED <<professor, request, admins, unseeded, faults>> /\ UNCHANGED queue

Seed(i) ==
    /\ instance[i] \in {"found", "missing"}
    /\ instance' = [instance EXCEPT ![i] = "up"]
    /\ IF instance[i] = "found"
         THEN UNCHANGED <<admins, unseeded>>
         ELSE \/ admins' = admins + 1 /\ UNCHANGED unseeded
              \/ unseeded' = unseeded \cup {i} /\ UNCHANGED admins
    /\ UNCHANGED <<professor, request, faults>> /\ UNCHANGED queue

\* The process stops: its requests end without an answer.
Stop(i) ==
    /\ instance[i] # "down" /\ Fault
    /\ instance' = [instance EXCEPT ![i] = "down"]
    /\ request' = [r \in Requests |->
                     IF request[r].pc = "committed" /\ request[r].at = i
                       THEN [pc |-> "failed", at |-> NoInstance] ELSE request[r]]
    /\ unseeded' = unseeded \ {i}
    /\ UNCHANGED <<professor, admins>> /\ UNCHANGED queue

\* create_professor: the professor and the details are one commit.  The e-mail
\* address is unique.
CreateProfessor(p) ==
    /\ p \notin professor
    /\ professor' = professor \cup {p}
    /\ UNCHANGED <<request, instance, admins, unseeded, faults>> /\ UNCHANGED queue

\* create_disciplina up to the repository's commit; the foreign key refuses a
\* professor who is not there.
CreateDisciplina(r, i, p) ==
    /\ request[r].pc = "idle" /\ instance[i] = "up"
    /\ request' = [request EXCEPT ![r] =
                     IF p \in professor THEN [pc |-> "committed", at |-> i]
                                        ELSE [pc |-> "refused", at |-> NoInstance]]
    /\ UNCHANGED <<professor, instance, admins, unseeded, faults>> /\ UNCHANGED queue

\* A bug to catch: the client is answered although the broker was not reached.
PublishAnyway(r) ==
    /\ request[r].pc = "committed"
    /\ \E m \in {"none", "ready"} : message' = [message EXCEPT ![r] = m]
    /\ request' = [request EXCEPT ![r] = [pc |-> "created", at |-> NoInstance]]
    /\ UNCHANGED <<professor, instance, admins, unseeded, faults, log, swallowed, worker, handler>>

\* publish_event: the broker has the message and confirms, or its confirmation
\* is lost, or it was not reached; whatever is raised is the client's 500.
Publish(r) ==
    /\ request[r].pc = "committed"
    /\ \/ /\ message' = [message EXCEPT ![r] = "ready"]
          /\ \E pc \in {"created", "failed"} :
                request' = [request EXCEPT ![r] = [pc |-> pc, at |-> NoInstance]]
       \/ /\ request' = [request EXCEPT ![r] = [pc |-> "failed", at |-> NoInstance]]
          /\ UNCHANGED message
    /\ UNCHANGED <<professor, instance, admins, unseeded, faults, log, swallowed, worker, handler>>

----------------------------------------------------------------------------
(* The audit worker                                                        *)

\* A bug to catch: the queue is consumed without acknowledgements.
DeliverAcknowledged(h, r) ==
    /\ worker
    /\ handler[h].pc = "free" /\ message[r] = "ready"
    /\ message' = [message EXCEPT ![r] = "acked"]
    /\ handler' = [handler EXCEPT ![h] = [pc |-> "received", of |-> r, current |-> FALSE]]
    /\ UNCHANGED <<log, swallowed, worker, faults>> /\ UNCHANGED api

Deliver(h, r) ==
    /\ worker
    /\ handler[h].pc = "free" /\ message[r] = "ready"
    /\ message' = [message EXCEPT ![r] = "delivered"]
    /\ handler' = [handler EXCEPT ![h] = [pc |-> "received", of |-> r, current |-> TRUE]]
    /\ UNCHANGED <<log, swallowed, worker, faults>> /\ UNCHANGED api

\* A bug to catch: an insert whose answer was lost is tried again.
ProcessTwice(h) ==
    /\ handler[h].pc = "received"
    /\ handler' = [handler EXCEPT ![h].pc = "done"]
    /\ log' = [log EXCEPT ![handler[h].of] = @ + 2]
    /\ UNCHANGED <<swallowed, message, worker, faults>> /\ UNCHANGED api

\* insert_one: the document is there; or something raised, before MongoDB had
\* the document or after, and was printed.
Process(h) ==
    LET r == handler[h].of
    IN  /\ handler[h].pc = "received"
        /\ handler' = [handler EXCEPT ![h].pc = "done"]
        /\ \/ log' = [log EXCEPT ![r] = @ + 1] /\ UNCHANGED swallowed
           \/ swallowed' = swallowed \cup {r} /\ UNCHANGED log
        /\ UNCHANGED <<message, worker, faults>> /\ UNCHANGED api

\* A bug to catch: nothing acknowledges.
AcknowledgeNever(h) ==
    /\ handler[h].pc = "done"
    /\ handler' = [handler EXCEPT ![h] = FreeHandler]
    /\ UNCHANGED <<message, log, swallowed, worker, faults>> /\ UNCHANGED api

\* message.process(): acknowledged when the block ends, which fails, for nobody
\* to see, if the channel is not the one the message came on.
Acknowledge(h) ==
    LET r == handler[h].of
    IN  /\ handler[h].pc = "done"
        /\ message' = IF handler[h].current THEN [message EXCEPT ![r] = "acked"] ELSE message
        /\ handler' = [handler EXCEPT ![h] = FreeHandler]
        /\ UNCHANGED <<log, swallowed, worker, faults>> /\ UNCHANGED api

\* The broker takes back what was delivered and not acknowledged.
Requeued == [r \in Requests |-> IF message[r] = "delivered" THEN "ready" ELSE message[r]]

\* The connection breaks and connect_robust makes another; the calls run on.
Reconnect ==
    /\ worker /\ Fault
    /\ message' = Requeued
    /\ handler' = [h \in Handlers |-> [handler[h] EXCEPT !.current = FALSE]]
    /\ UNCHANGED <<log, swallowed, worker>> /\ UNCHANGED api

\* The worker stops with all its calls.
StopWorker ==
    /\ worker /\ Fault
    /\ worker' = FALSE
    /\ message' = Requeued
    /\ handler' = [h \in Handlers |-> FreeHandler]
    /\ UNCHANGED <<log, swallowed>> /\ UNCHANGED api

\* docker-compose.yml: restart: unless-stopped.
RestartWorker ==
    /\ ~worker
    /\ worker' = TRUE
    /\ UNCHANGED <<message, log, swallowed, handler, faults>> /\ UNCHANGED api

WorkerRuns ==
    \/ RestartWorker
    \/ \E h \in Handlers :
          \/ Process(h) \/ Acknowledge(h)
          \/ \E r \in Requests : Deliver(h, r)

Next ==
    \/ WorkerRuns \/ Reconnect \/ StopWorker
    \/ \E i \in Instances : Start(i) \/ Seed(i) \/ Stop(i)
    \/ \E p \in Professors : CreateProfessor(p)
    \/ \E r \in Requests :
          \/ Publish(r)
          \/ \E i \in Instances, p \in Professors : CreateDisciplina(r, i, p)

\* The worker's event loop runs, and it is restarted; faults are bounded.
Spec == Init /\ [][Next]_vars /\ WF_vars(WorkerRuns)

----------------------------------------------------------------------------
(* Properties                                                              *)

Committed(r) == request[r].pc \in {"committed", "created", "failed"}

\* A document speaks of a discipline that was committed, and a client that was
\* told 201 has a discipline whose event the broker holds.
TrailFollowsCommits ==
    \A r \in Requests :
        /\ log[r] > 0 \/ message[r] # "none" => Committed(r)
        /\ request[r].pc = "created" => message[r] # "none"

\* An event leaves the queue only when it is recorded or its failure printed.
LostOnlyIfSwallowed ==
    \A r \in Requests : message[r] = "acked" => log[r] > 0 \/ r \in swallowed

\* Documents are doubled by stops and lost connections, and by nothing else.
DoubledOnlyByFaults ==
    \A r \in Requests : log[r] <= 1 + faults

\* A process that has started without an error in its seeding has found or made
\* an administrator.
AdministratorExists ==
    (\E i \in Instances : instance[i] = "up" /\ i \notin unseeded) => admins > 0

\* Every event the broker holds is dealt with in the end.
EventsAreHandled ==
    \A r \in Requests : message[r] = "ready" ~> message[r] = "acked"
=============================================================================
