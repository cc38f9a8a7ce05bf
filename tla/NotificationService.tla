------------------------ MODULE NotificationService ------------------------
(***************************************************************************)
(* notification-service: notifications, their delivery, and templates.     *)
(*                                                                         *)
(* Each session is the transaction of one call of a service.  The call     *)
(* reads a row, changes its copy, and flushes: the columns that differ are *)
(* written to a version of the row that other sessions do not see and that *)
(* keeps them from writing theirs.  A delivery flushes before it reaches   *)
(* the provider and again after.  No file of the service makes or commits  *)
(* a session: whoever does may commit what was flushed, or not.            *)
(*                                                                         *)
(* A call that is refused while it reads has changed nothing and is not a  *)
(* step.                                                                   *)
(***************************************************************************)
EXTENDS FiniteSets

CONSTANTS
    Notifications,
    Templates,      \* ids of templates
    Names,          \* names of templates
    Sessions,
    Enabled,        \* the types that are switched on and configured; e-mail is not asked
    Unused,         \* an id no row has been inserted with
    Deleted,        \* an id whose row is gone
    Never,          \* sent_at of what was not sent
    NoRow           \* the row of a session that has not begun

NotificationType == {"email", "sms", "push"}

NotificationStatus == {"pending", "processing", "sent", "failed", "cancelled"}

ASSUME EnabledAssumption == Enabled \subseteq NotificationType

VARIABLES
    notification,  \* [Notifications -> Notification \cup {Unused}], committed
    template,      \* [Templates -> Template \cup {Unused, Deleted}], committed
    session,       \* [Sessions -> Session]
    accepted,      \* history: sessions whose message the provider has taken
    patched        \* history: notifications changed by the update endpoint

vars == <<notification, template, session, accepted, patched>>

\* `sent_at' names the session whose time it is; `error' is error_message set.
Notification == [type    : NotificationType,
                 status  : NotificationStatus,
                 sent_at : Sessions \cup {Never},
                 error   : BOOLEAN]

Template == [name : Names, is_active : BOOLEAN]

ASSUME IdAssumption ==
    /\ Notifications \cap Templates = {}
    /\ NoRow \notin Notifications \cup Templates
    /\ Never \notin Sessions
    /\ Unused \notin Notification \cup Template
    /\ Deleted \notin Template \cup {Unused}

\* `op' is the change that is or was flushed last; `view' the row as the session
\* last read it, `new' as it has changed it since; `lock' holds when it has
\* written a version of the row.
Session == [pc   : {"idle", "changed", "posting", "answered", "raised", "committed", "ended"},
            op   : {"none", "create", "processing", "sent", "failed", "update", "cancel",
                    "create_template", "update_template", "delete_template"},
            of   : Notifications \cup Templates \cup {NoRow},
            view : Notification \cup Template \cup {NoRow},
            new  : Notification \cup Template \cup {NoRow},
            lock : BOOLEAN]

Idle == [pc |-> "idle", op |-> "none", of |-> NoRow, view |-> NoRow, new |-> NoRow, lock |-> FALSE]

Open(s) == session[s].pc \in {"changed", "posting", "answered", "raised"}

TypeOK ==
    /\ notification \in [Notifications -> Notification \cup {Unused}]
    /\ template \in [Templates -> Template \cup {Unused, Deleted}]
    /\ session \in [Sessions -> Session]
    /\ \A s, t \in Sessions : session[s].lock /\ session[t].lock /\ s # t
                                 => session[s].of # session[t].of
    /\ accepted \subseteq Sessions
    /\ patched \subseteq Notifications

Init ==
    /\ notification = [n \in Notifications |-> Unused]
    /\ template = [t \in Templates |-> Unused]
    /\ session = [s \in Sessions |-> Idle]
    /\ accepted = {}
    /\ patched = {}

----------------------------------------------------------------------------
(* Calls, up to their first flush                                          *)

\* Session s has read the row `view' of id i, and made it `new'.
Changes(s, i, op, view, new) ==
    /\ session[s].pc = "idle"
    /\ session' = [session EXCEPT ![s] = [pc |-> "changed", op |-> op, of |-> i,
                                          view |-> view, new |-> new, lock |-> FALSE]]
    /\ UNCHANGED <<notification, template, accepted, patched>>

\* An id that neither a row nor a session has; uuid4 finds one.
Fresh(i) == \A s \in Sessions : session[s].of # i

CreateNotification(s, n, type) ==
    LET new == [type |-> type, status |-> "pending", sent_at |-> Never, error |-> FALSE]
    IN  /\ notification[n] = Unused /\ Fresh(n)
        /\ Changes(s, n, "create", new, new)

\* get_by_id finds the row; whatever its status and its type, it is to be sent.
Sends(s, n) ==
    /\ notification[n] # Unused
    /\ Changes(s, n, "processing", notification[n],
               [notification[n] EXCEPT !.status = "processing"])

SendEmail(s, n) == Sends(s, n)

\* Refused before anything is written when switched off or not configured.
SendSMS(s, n) == "sms" \in Enabled /\ Sends(s, n)

SendPush(s, n) == "push" \in Enabled /\ Sends(s, n)

\* Any status may follow any other, and error_message come or go with it;
\* provider and provider_message_id are left out.
UpdateNotification(s, n) ==
    /\ notification[n] # Unused
    /\ \E status \in NotificationStatus, error \in BOOLEAN :
          Changes(s, n, "update", notification[n],
                  [notification[n] EXCEPT !.status = status, !.error = error])

CancelNotification(s, n) ==
    /\ notification[n] # Unused
    /\ Changes(s, n, "cancel", notification[n],
               [notification[n] EXCEPT !.status = "cancelled"])

Exists(t) == template[t] \notin {Unused, Deleted}

NameTaken(name) == \E t \in Templates : Exists(t) /\ template[t].name = name

\* The name is looked up here, and the row inserted in a later await.
CreateTemplate(s, t, name, active) ==
    LET new == [name |-> name, is_active |-> active]
    IN  /\ template[t] = Unused /\ Fresh(t)
        /\ ~NameTaken(name)
        /\ Changes(s, t, "create_template", new, new)

\* A schema without a name: the check of a new name in update is never reached.
\* The columns of the text and the type are left out.
UpdateTemplate(s, t) ==
    /\ Exists(t)
    /\ \E b \in BOOLEAN :
          Changes(s, t, "update_template", template[t], [template[t] EXCEPT !.is_active = b])

ActivateTemplate(s, t) ==
    /\ Exists(t)
    /\ Changes(s, t, "update_template", template[t], [template[t] EXCEPT !.is_active = TRUE])

DeactivateTemplate(s, t) ==
    /\ Exists(t)
    /\ Changes(s, t, "update_template", template[t], [template[t] EXCEPT !.is_active = FALSE])

DeleteTemplate(s, t) ==
    /\ Exists(t)
    /\ Changes(s, t, "delete_template", template[t], template[t])

----------------------------------------------------------------------------
(* Flushes                                                                 *)

\* A bug to catch: every column of the copy is written.
MergedWhole(row, view, new) == new

\* The columns that were changed are written over the row as it now is, and
\* refresh reads the outcome.
Merged(row, view, new) ==
    [c \in DOMAIN row |-> IF new[c] = view[c] THEN row[c] ELSE new[c]]

LockedByAnother(s) ==
    \E t \in Sessions \ {s} : session[t].lock /\ session[t].of = session[s].of

\* A bug to catch: mark_as_processing leaves the flush to a later one.
FlushLater(s) ==
    LET row  == IF session[s].lock THEN session[s].view ELSE notification[session[s].of]
        read == Merged(row, session[s].view, session[s].new)
        now  == session[s].op # "processing" /\ session[s].new # session[s].view
    IN  /\ session[s].pc = "changed"
        /\ session[s].op \in {"processing", "sent", "failed", "update", "cancel"}
        /\ now => ~LockedByAnother(s)
        /\ session' = [session EXCEPT
                ![s].pc = CASE session[s].op = "processing" -> "posting"
                            [] session[s].op = "failed"     -> "raised"
                            [] OTHER                        -> "answered",
                ![s].view = read,
                ![s].new = read,
                ![s].lock = @ \/ now]
        /\ UNCHANGED <<notification, template, accepted, patched>>

\* repository.update: nothing is written, and no lock waited for, when nothing
\* has changed.
Flush(s) ==
    LET n     == session[s].of
        row   == IF session[s].lock THEN session[s].view ELSE notification[n]
        dirty == session[s].new # session[s].view
        read  == Merged(row, session[s].view, session[s].new)
    IN  /\ session[s].pc = "changed"
        /\ session[s].op \in {"processing", "sent", "failed", "update", "cancel"}
        /\ dirty => ~LockedByAnother(s)
        /\ session' = [session EXCEPT
                ![s].pc = CASE session[s].op = "processing" -> "posting"
                            [] session[s].op = "failed"     -> "raised"
                            [] OTHER                        -> "answered",
                ![s].view = read,
                ![s].new = read,
                ![s].lock = @ \/ dirty]
        /\ UNCHANGED <<notification, template, accepted, patched>>

\* repository.create
FlushNewNotification(s) ==
    /\ session[s].pc = "changed" /\ session[s].op = "create"
    /\ session' = [session EXCEPT ![s].pc = "answered", ![s].lock = TRUE]
    /\ UNCHANGED <<notification, template, accepted, patched>>

\* A flush that raises leaves nothing but a rollback.
Rollback(s) ==
    /\ session' = [session EXCEPT ![s].pc = "ended", ![s].lock = FALSE]
    /\ UNCHANGED <<notification, template, accepted, patched>>

\* A bug to catch: the unique index on name is not there.
FlushNewTemplateUnconstrained(s) ==
    /\ session[s].pc = "changed" /\ session[s].op = "create_template"
    /\ session' = [session EXCEPT ![s].pc = "answered", ![s].lock = TRUE]
    /\ UNCHANGED <<notification, template, accepted, patched>>

\* The unique index waits for whoever inserts or deletes the name, and then
\* refuses it if it is there.
FlushNewTemplate(s) ==
    LET name == session[s].new.name
    IN  /\ session[s].pc = "changed" /\ session[s].op = "create_template"
        /\ \A t \in Sessions : session[t].lock /\ session[t].op \in {"create_template", "delete_template"}
                                  => session[t].view.name # name
        /\ IF NameTaken(name)
             THEN Rollback(s)
             ELSE /\ session' = [session EXCEPT ![s].pc = "answered", ![s].lock = TRUE]
                  /\ UNCHANGED <<notification, template, accepted, patched>>

\* A row that is gone cannot be updated, nor refreshed.
FlushTemplate(s) ==
    LET t     == session[s].of
        dirty == session[s].new # session[s].view
        read  == Merged(template[t], session[s].view, session[s].new)
    IN  /\ session[s].pc = "changed" /\ session[s].op = "update_template"
        /\ dirty => ~LockedByAnother(s)
        /\ IF ~Exists(t)
             THEN Rollback(s)
             ELSE /\ session' = [session EXCEPT ![s].pc = "answered", ![s].view = read,
                                                ![s].new = read, ![s].lock = dirty]
                  /\ UNCHANGED <<notification, template, accepted, patched>>

\* That the row is gone already is only a warning.
FlushDeletedTemplate(s) ==
    /\ session[s].pc = "changed" /\ session[s].op = "delete_template"
    /\ ~LockedByAnother(s)
    /\ session' = [session EXCEPT ![s].pc = "answered", ![s].lock = Exists(session[s].of)]
    /\ UNCHANGED <<notification, template, accepted, patched>>

----------------------------------------------------------------------------
(* The provider, and the end of a session                                  *)

\* mark_as_sent
MarkedSent(s) == [session[s].view EXCEPT !.status = "sent", !.sent_at = s, !.error = FALSE]

\* A bug to catch: a status that the column's type does not have.
MarkedError(s) == [session[s].view EXCEPT !.status = "error", !.error = TRUE]

\* mark_as_failed
MarkedFailed(s) == [session[s].view EXCEPT !.status = "failed", !.error = TRUE]

\* A bug to catch: what the call of the provider raises is only logged.
PostSwallowing(s) ==
    /\ session[s].pc = "posting"
    /\ \E taken \in SUBSET {s} :
          /\ accepted' = accepted \cup taken
          /\ session' = [session EXCEPT ![s].pc = "changed", ![s].op = "sent",
                                        ![s].new = MarkedSent(s)]
    /\ UNCHANGED <<notification, template, patched>>

\* The provider takes the message and says so; or something raises, be it after
\* the message was taken: no answer in time, an error status, an answer that is
\* not JSON.
Post(s) ==
    /\ session[s].pc = "posting"
    /\ \/ /\ accepted' = accepted \cup {s}
          /\ session' = [session EXCEPT ![s].pc = "changed", ![s].op = "sent",
                                        ![s].new = MarkedSent(s)]
       \/ /\ \E taken \in SUBSET {s} : accepted' = accepted \cup taken
          /\ session' = [session EXCEPT ![s].pc = "changed", ![s].op = "failed",
                                        ![s].new = MarkedFailed(s)]
    /\ UNCHANGED <<notification, template, patched>>

\* The call has returned, or has raised what the provider's call raised.
Commit(s) ==
    LET i == session[s].of
    IN  /\ session[s].pc \in {"answered", "raised"}
        /\ session' = [session EXCEPT ![s].pc = "committed", ![s].lock = FALSE]
        /\ notification' = IF session[s].lock /\ i \in Notifications
                             THEN [notification EXCEPT ![i] = session[s].view] ELSE notification
        /\ template' = IF session[s].lock /\ i \in Templates
                         THEN [template EXCEPT ![i] = IF session[s].op = "delete_template"
                                                        THEN Deleted ELSE session[s].view]
                         ELSE template
        /\ patched' = IF session[s].op = "update" THEN patched \cup {i} ELSE patched
        /\ UNCHANGED accepted

\* The caller does not commit, or the connection or the process is lost.
Abort(s) == Open(s) /\ Rollback(s)

\* What the endpoints under /notifications call; the others only read.
NotificationEndpoints(s, n) ==
    \/ \E type \in NotificationType : CreateNotification(s, n, type)
    \/ UpdateNotification(s, n)
    \/ CancelNotification(s, n)

\* No endpoint delivers: the three services are there to be called.
Deliveries(s, n) == SendEmail(s, n) \/ SendSMS(s, n) \/ SendPush(s, n)

\* What the endpoints under /templates call; the others only read.
TemplateEndpoints(s, t) ==
    \/ \E name \in Names, active \in BOOLEAN : CreateTemplate(s, t, name, active)
    \/ UpdateTemplate(s, t) \/ ActivateTemplate(s, t)
    \/ DeactivateTemplate(s, t) \/ DeleteTemplate(s, t)

Next ==
    \E s \in Sessions :
        \/ \E n \in Notifications : NotificationEndpoints(s, n) \/ Deliveries(s, n)
        \/ \E t \in Templates : TemplateEndpoints(s, t)
        \/ Flush(s) \/ FlushNewNotification(s)
        \/ FlushNewTemplate(s) \/ FlushTemplate(s) \/ FlushDeletedTemplate(s)
        \/ Post(s) \/ Commit(s) \/ Abort(s)

Spec == Init /\ [][Next]_vars

----------------------------------------------------------------------------
(* Properties                                                              *)

\* A notification that says when it was sent was taken by the provider, and
\* one that says it is sent says when, and has no error left from an earlier or
\* an overlapping delivery; unless somebody has written something else into it.
SentMeansAccepted ==
    \A n \in Notifications : notification[n] # Unused =>
        /\ notification[n].sent_at \in accepted \cup {Never}
        /\ notification[n].status = "sent" /\ n \notin patched =>
              notification[n].sent_at # Never /\ ~notification[n].error

\* Two deliveries of one notification are never at its provider at a time: the
\* second waits for the row.  The exception is a status that was "processing"
\* already, which only the update endpoint leaves behind.
SendsTakeTurns ==
    \A s, t \in Sessions :
        s # t /\ session[s].pc = "posting" /\ session[t].pc = "posting"
              /\ session[s].of = session[t].of
        => session[s].of \in patched

\* What the provider took and answered for is on record when the delivery is
\* committed, and stays there, whatever was read before and is written after.
DeliveryIsOnRecord ==
    \A s \in accepted :
        session[s].pc = "committed" /\ session[s].op = "sent" =>
            notification[session[s].of].sent_at # Never

\* Two templates never have one name, although the name is looked up in one
\* statement and the row inserted in another.
TemplatesAreDistinct ==
    \A t, u \in Templates :
        Exists(t) /\ Exists(u) /\ template[t].name = template[u].name => t = u
=============================================================================
