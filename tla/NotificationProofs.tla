------------------------- MODULE NotificationProofs -------------------------
(***************************************************************************)
(* What NotificationService keeps for every number of notifications,       *)
(* templates and overlapping sessions.                                     *)
(***************************************************************************)
EXTENDS NotificationService, TLAPS

NotificationOps == {"create", "processing", "sent", "failed", "update", "cancel"}
TemplateOps     == {"create_template", "update_template", "delete_template"}

OpenPc == {"changed", "posting", "answered", "raised"}

\* A session at work is on a row of one of the tables.
OnNotification(ss) ==
    /\ ss.op \in NotificationOps /\ ss.of \in Notifications
    /\ ss.view \in Notification /\ ss.new \in Notification

OnTemplate(ss) ==
    /\ ss.op \in TemplateOps /\ ss.of \in Templates
    /\ ss.view \in Template /\ ss.new \in Template

Kind(ss) ==
    /\ ss.lock => ss.pc \in OpenPc
    /\ ss.pc \in OpenPc => OnNotification(ss) \/ OnTemplate(ss)
    /\ ss.pc = "posting" => ss.op = "processing"
    /\ ss.pc \in {"answered", "raised"} => ss.op # "processing"

\* The row is there, but for one who creates it; whose id nobody else has.
Begun(s) ==
    session[s].pc \in OpenPc =>
        /\ session[s].op = "create" => notification[session[s].of] = Unused
        /\ session[s].op \in NotificationOps \ {"create"} => notification[session[s].of] # Unused
        /\ session[s].op = "create_template" => template[session[s].of] = Unused
        /\ session[s].op \in TemplateOps \ {"create_template"} => template[session[s].of] # Unused
        /\ session[s].op \in {"create", "create_template"} =>
              \A t \in Sessions \ {s} : session[t].of # session[s].of

\* The shape of the state: types, locks that exclude each other, and rows.
ShapeInv ==
    /\ TypeOK
    /\ \A s \in Sessions : Kind(session[s]) /\ Begun(s)

----------------------------------------------------------------------------
(* The shape                                                               *)

\* It is there at first.
LEMMA InitShape == Init => ShapeInv
<1> SUFFICES ASSUME Init PROVE ShapeInv
  OBVIOUS
<1> USE DEF Init
<1>1. Idle \in Session
  BY DEF Idle, Session
<1>2. TypeOK
  BY <1>1 DEF TypeOK, Idle
<1>3. \A s \in Sessions : Kind(session[s]) /\ Begun(s)
  BY DEF Kind, Begun, Idle, OpenPc
<1> QED
  BY <1>2, <1>3 DEF ShapeInv

\* The step is one of session s, and leaves the others as they are.
OnlySession(s) ==
    /\ session' \in [Sessions -> Session]
    /\ \A t \in Sessions \ {s} : session'[t] = session[t]

\* One session changes, and the tables stay.
LEMMA SessionShape ==
    ASSUME ShapeInv, NEW s \in Sessions, OnlySession(s), Kind(session'[s]), Begun(s)',
           UNCHANGED <<notification, template>>, accepted' \subseteq Sessions,
           patched' \subseteq Notifications,
           session'[s].of = session[s].of \/ \A t \in Sessions \ {s} :
               session[t].pc \in OpenPc /\ session[t].op \in {"create", "create_template"}
                   => session[t].of # session'[s].of,
           session'[s].lock =>
               \A t \in Sessions \ {s} : session[t].lock => session[t].of # session'[s].of
    PROVE  ShapeInv'
<1> USE DEF ShapeInv, OnlySession
<1>1. TypeOK'
  <2>1. \A t, u \in Sessions : session'[t].lock /\ session'[u].lock /\ t # u
            => session'[t].of # session'[u].of
    BY DEF TypeOK
  <2> QED
    BY <2>1 DEF TypeOK
<1>2. \A t \in Sessions : Kind(session'[t])
  OBVIOUS
<1>3. ASSUME NEW t \in Sessions \ {s} PROVE Begun(t)'
  <2>1. session'[t] = session[t] /\ Begun(t)
    BY <1>3
  <2>2. session[t].pc \in OpenPc /\ session[t].op \in {"create", "create_template"}
          => session[t].of # session'[s].of
    BY <2>1, <1>3 DEF Begun
  <2>3. session[t].pc \in OpenPc /\ session[t].op \in {"create", "create_template"}
          => \A u \in Sessions \ {t} : session'[u].of # session'[t].of
    BY <2>1, <2>2 DEF Begun
  <2> QED
    BY <2>1, <2>3 DEF Begun
<1> QED
  BY <1>1, <1>2, <1>3

\* A call begins, on a row that is there or an id that is new.
Begins(s, i, op, view, new) ==
    /\ Changes(s, i, op, view, new)
    /\ \/ /\ op \in NotificationOps /\ i \in Notifications
          /\ view \in Notification /\ new \in Notification
          /\ IF op = "create" THEN notification[i] = Unused /\ Fresh(i)
                              ELSE notification[i] # Unused
       \/ /\ op \in TemplateOps /\ i \in Templates
          /\ view \in Template /\ new \in Template
          /\ IF op = "create_template" THEN template[i] = Unused /\ Fresh(i)
                                       ELSE template[i] # Unused

LEMMA BeginsShape ==
    ASSUME ShapeInv, NEW s \in Sessions, NEW i, NEW op, NEW view, NEW new,
           Begins(s, i, op, view, new)
    PROVE  /\ ShapeInv' /\ OnlySession(s)
           /\ session'[s].pc = "changed" /\ session'[s].op = op /\ session'[s].of = i
           /\ session'[s].view = view /\ session'[s].new = new /\ ~session'[s].lock
<1> DEFINE ss == [pc |-> "changed", op |-> op, of |-> i, view |-> view, new |-> new, lock |-> FALSE]
<1>1. ss \in Session
  BY DEF Begins, Session, NotificationOps, TemplateOps
<1>2. Kind(ss)
  BY DEF Begins, Kind, OnNotification, OnTemplate, OpenPc
<1>3. session' = [session EXCEPT ![s] = ss] /\ UNCHANGED <<notification, template, accepted, patched>>
  BY DEF Begins, Changes
<1>4. session'[s] = ss /\ OnlySession(s)
  BY <1>1, <1>3 DEF ShapeInv, TypeOK, OnlySession
<1>5. Begun(s)'
  BY <1>3, <1>4 DEF Begins, OnlySession, Begun, Fresh, NotificationOps, TemplateOps
<1>6. \A t \in Sessions \ {s} :
          session[t].pc \in OpenPc /\ session[t].op \in {"create", "create_template"}
              => session[t].of # ss.of
  BY IdAssumption DEF Begins, ShapeInv, Begun, Kind, OnNotification, OnTemplate, Fresh,
                      IdAssumption, NotificationOps, TemplateOps
<1>7. ~ss.lock /\ ss.pc = "changed" /\ ss.op = op /\ ss.of = i /\ ss.view = view /\ ss.new = new
  OBVIOUS
<1> HIDE DEF ss
<1> QED
  BY <1>1, <1>2, <1>3, <1>4, <1>5, <1>6, <1>7, SessionShape DEF ShapeInv, TypeOK

\* A row with the columns of `new' that differ from `view' is a row.
LEMMA MergedNotification ==
    ASSUME NEW row \in Notification, NEW view \in Notification, NEW new \in Notification
    PROVE  Merged(row, view, new) =
             [type    |-> IF new.type = view.type THEN row.type ELSE new.type,
              status  |-> IF new.status = view.status THEN row.status ELSE new.status,
              sent_at |-> IF new.sent_at = view.sent_at THEN row.sent_at ELSE new.sent_at,
              error   |-> IF new.error = view.error THEN row.error ELSE new.error]
<1>1. DOMAIN row = {"type", "status", "sent_at", "error"}
  BY DEF Notification
<1> QED
  BY <1>1 DEF Merged, Notification

LEMMA MergedIsNotification ==
    ASSUME NEW row \in Notification, NEW view \in Notification, NEW new \in Notification
    PROVE  Merged(row, view, new) \in Notification
<1> DEFINE m == Merged(row, view, new)
<1>1. m = [type    |-> IF new.type = view.type THEN row.type ELSE new.type,
           status  |-> IF new.status = view.status THEN row.status ELSE new.status,
           sent_at |-> IF new.sent_at = view.sent_at THEN row.sent_at ELSE new.sent_at,
           error   |-> IF new.error = view.error THEN row.error ELSE new.error]
  BY MergedNotification
<1> HIDE DEF m
<1>2. m \in Notification
  BY <1>1 DEF Notification
<1> QED
  BY <1>2 DEF m

LEMMA MergedTemplate ==
    ASSUME NEW row \in Template, NEW view \in Template, NEW new \in Template
    PROVE  /\ Merged(row, view, new) \in Template
           /\ Merged(row, view, new).name = IF new.name = view.name THEN row.name ELSE new.name
<1>1. DOMAIN row = {"name", "is_active"}
  BY DEF Template
<1>2. Merged(row, view, new) =
        [name      |-> IF new.name = view.name THEN row.name ELSE new.name,
         is_active |-> IF new.is_active = view.is_active THEN row.is_active ELSE new.is_active]
  BY <1>1 DEF Merged, Template
<1> QED
  BY <1>2 DEF Template

\* What a flush finds and leaves.
Row(s)  == IF session[s].lock THEN session[s].view ELSE notification[session[s].of]
Dirty(s) == session[s].new # session[s].view
Read(s) == Merged(Row(s), session[s].view, session[s].new)

After(op) ==
    CASE op = "processing" -> "posting"
      [] op = "failed"     -> "raised"
      [] OTHER             -> "answered"

\* The session after a flush of a notification.
LEMMA FlushShape ==
    ASSUME ShapeInv, NEW s \in Sessions, Flush(s)
    PROVE  /\ session[s].op \in NotificationOps \ {"create"} /\ OnNotification(session[s])
           /\ notification[session[s].of] \in Notification
           /\ Row(s) \in Notification /\ Read(s) \in Notification
           /\ ShapeInv' /\ OnlySession(s)
           /\ session'[s].pc = After(session[s].op)
           /\ session'[s].op = session[s].op /\ session'[s].of = session[s].of
           /\ session'[s].view = Read(s) /\ session'[s].new = Read(s)
           /\ session'[s].lock = (session[s].lock \/ Dirty(s))
<1> DEFINE ss == session[s]
<1>1. /\ ss \in Session /\ session \in [Sessions -> Session] /\ ss.lock \in BOOLEAN
      /\ ss.pc = "changed" /\ ss.op \in NotificationOps \ {"create"}
  BY DEF ShapeInv, TypeOK, Session, Flush, NotificationOps
<1>2. OnNotification(ss) /\ notification[ss.of] # Unused
  BY <1>1 DEF ShapeInv, Kind, Begun, OnTemplate, TemplateOps, NotificationOps, OpenPc
<1>3. notification[ss.of] \in Notification
  BY <1>2 DEF OnNotification, ShapeInv, TypeOK
<1>4. Row(s) \in Notification
  BY <1>2, <1>3 DEF OnNotification, Row
<1>5. Read(s) \in Notification
  BY <1>2, <1>4, MergedIsNotification DEF OnNotification, Read
<1>6. session' = [session EXCEPT ![s].pc = After(ss.op), ![s].view = Read(s), ![s].new = Read(s),
                                 ![s].lock = @ \/ Dirty(s)]
  BY DEF Flush, After, Read, Row, Dirty
<1>7. After(ss.op) \in OpenPc /\ (ss.lock \/ Dirty(s)) \in BOOLEAN
  BY <1>1 DEF After, OpenPc
<1>13. /\ After(ss.op) = "posting" => ss.op = "processing"
       /\ After(ss.op) \in {"answered", "raised"} => ss.op # "processing"
  BY <1>1 DEF After
<1>8. /\ session'[s].pc = After(ss.op) /\ session'[s].op = ss.op /\ session'[s].of = ss.of
      /\ session'[s].view = Read(s) /\ session'[s].new = Read(s)
      /\ session'[s].lock = (ss.lock \/ Dirty(s))
  BY <1>1, <1>6 DEF Session
<1>9. OnlySession(s)
  BY <1>1, <1>5, <1>6, <1>7 DEF OnlySession, Session, OpenPc
<1>10. UNCHANGED <<notification, template, accepted, patched>>
  BY DEF Flush
<1>11. Kind(session'[s]) /\ Begun(s)'
  BY <1>1, <1>2, <1>5, <1>7, <1>8, <1>9, <1>10, <1>13
     DEF Kind, OnNotification, Begun, OpenPc, NotificationOps, TemplateOps
<1>12. session'[s].lock => \A t \in Sessions \ {s} : session[t].lock => session[t].of # session'[s].of
  BY <1>1, <1>8 DEF Flush, Dirty, LockedByAnother, ShapeInv, TypeOK
<1> QED
  BY <1>1, <1>2, <1>3, <1>4, <1>5, <1>8, <1>9, <1>10, <1>11, <1>12, SessionShape
     DEF OnNotification, ShapeInv, TypeOK
\* The step changes where session s is and whether it has a lock, no more.
Moves(s, pc, lock) ==
    /\ OnlySession(s)
    /\ session'[s].pc = pc /\ session'[s].lock = lock
    /\ session'[s].op = session[s].op /\ session'[s].of = session[s].of
    /\ session'[s].view = session[s].view /\ session'[s].new = session[s].new

LEMMA ExceptMoves ==
    ASSUME ShapeInv, NEW s \in Sessions, NEW lock \in BOOLEAN,
           NEW pc \in {"posting", "answered", "raised", "committed", "ended"},
           session' = [session EXCEPT ![s].pc = pc, ![s].lock = lock]
    PROVE  Moves(s, pc, lock)
<1> DEFINE ss == [session[s] EXCEPT !.pc = pc, !.lock = lock]
<1>1. session \in [Sessions -> Session] /\ session[s] \in Session
  BY DEF ShapeInv, TypeOK
<1>2. /\ ss \in Session
      /\ ss.pc = pc /\ ss.lock = lock /\ ss.op = session[s].op /\ ss.of = session[s].of
      /\ ss.view = session[s].view /\ ss.new = session[s].new
  BY <1>1 DEF Session
<1>3. session' = [session EXCEPT ![s] = ss]
  OBVIOUS
<1> HIDE DEF ss
<1>4. session'[s] = ss /\ OnlySession(s)
  BY <1>1, <1>2, <1>3 DEF OnlySession
<1> QED
  BY <1>2, <1>4 DEF Moves

\* A rollback.
LEMMA RollbackShape ==
    ASSUME ShapeInv, NEW s \in Sessions, Rollback(s)
    PROVE  ShapeInv' /\ Moves(s, "ended", FALSE)
<1>1. Moves(s, "ended", FALSE)
  BY ExceptMoves DEF Rollback
<1>2. Kind(session'[s]) /\ Begun(s)'
  BY <1>1 DEF Moves, Kind, Begun, OpenPc
<1> QED
  BY <1>1, <1>2, SessionShape DEF Moves, Rollback, ShapeInv, TypeOK

\* The insert of a notification.
LEMMA FlushNewNotificationShape ==
    ASSUME ShapeInv, NEW s \in Sessions, FlushNewNotification(s)
    PROVE  ShapeInv' /\ Moves(s, "answered", TRUE) /\ OnNotification(session[s])
<1>1. Moves(s, "answered", TRUE)
  BY ExceptMoves DEF FlushNewNotification
<1>2. OnNotification(session[s]) /\ Kind(session[s]) /\ Begun(s)
  BY DEF FlushNewNotification, ShapeInv, Kind, OnTemplate, TemplateOps, OpenPc
<1>3. Kind(session'[s]) /\ Begun(s)'
  BY <1>1, <1>2 DEF FlushNewNotification, Moves, OnlySession, Kind, OnNotification, Begun, OpenPc
<1>4. \A t \in Sessions \ {s} : session[t].of # session[s].of
  BY <1>2 DEF FlushNewNotification, Begun, OpenPc
<1> QED
  BY <1>1, <1>2, <1>3, <1>4, SessionShape DEF Moves, FlushNewNotification, ShapeInv, TypeOK

\* The insert of a template.
LEMMA FlushNewTemplateShape ==
    ASSUME ShapeInv, NEW s \in Sessions, FlushNewTemplate(s), ~Rollback(s)
    PROVE  ShapeInv' /\ Moves(s, "answered", TRUE) /\ OnTemplate(session[s])
<1>1. Moves(s, "answered", TRUE) /\ UNCHANGED <<notification, template, accepted, patched>>
  BY ExceptMoves DEF FlushNewTemplate
<1>2. OnTemplate(session[s]) /\ Kind(session[s]) /\ Begun(s)
  BY DEF FlushNewTemplate, ShapeInv, Kind, OnNotification, NotificationOps, OpenPc
<1>3. Kind(session'[s]) /\ Begun(s)'
  BY <1>1, <1>2 DEF FlushNewTemplate, Moves, OnlySession, Kind, OnTemplate, Begun, OpenPc
<1>4. \A t \in Sessions \ {s} : session[t].of # session[s].of
  BY <1>2 DEF FlushNewTemplate, Begun, OpenPc
<1> QED
  BY <1>1, <1>2, <1>3, <1>4, SessionShape DEF Moves, ShapeInv, TypeOK

\* The update of a template.
ReadTemplate(s) == Merged(template[session[s].of], session[s].view, session[s].new)

LEMMA FlushTemplateShape ==
    ASSUME ShapeInv, NEW s \in Sessions, FlushTemplate(s), ~Rollback(s)
    PROVE  /\ ShapeInv' /\ OnlySession(s) /\ OnTemplate(session[s])
           /\ template[session[s].of] \in Template /\ ReadTemplate(s) \in Template
           /\ UNCHANGED <<notification, template, accepted, patched>>
           /\ session'[s].pc = "answered"
           /\ session'[s].op = session[s].op /\ session'[s].of = session[s].of
           /\ session'[s].view = ReadTemplate(s) /\ session'[s].new = ReadTemplate(s)
           /\ session'[s].lock = (session[s].new # session[s].view)
<1> DEFINE ss == session[s]
           dirty == ss.new # ss.view
<1>1. /\ ss \in Session /\ session \in [Sessions -> Session] /\ dirty \in BOOLEAN
      /\ ss.pc = "changed" /\ ss.op = "update_template"
  BY DEF ShapeInv, TypeOK, FlushTemplate
<1>2. OnTemplate(ss) /\ Begun(s)
  BY <1>1 DEF ShapeInv, Kind, OnNotification, NotificationOps, OpenPc
<1>3. template[ss.of] \in Template
  BY <1>2 DEF OnTemplate, ShapeInv, TypeOK, FlushTemplate, Exists
<1>4. ReadTemplate(s) \in Template
  BY <1>2, <1>3, MergedTemplate DEF OnTemplate, ReadTemplate
<1>5. /\ session' = [session EXCEPT ![s].pc = "answered", ![s].view = ReadTemplate(s),
                                    ![s].new = ReadTemplate(s), ![s].lock = dirty]
      /\ UNCHANGED <<notification, template, accepted, patched>>
  BY DEF FlushTemplate, ReadTemplate
<1>6. /\ session'[s].pc = "answered" /\ session'[s].op = ss.op /\ session'[s].of = ss.of
      /\ session'[s].view = ReadTemplate(s) /\ session'[s].new = ReadTemplate(s)
      /\ session'[s].lock = dirty
  BY <1>1, <1>5 DEF Session
<1>7. OnlySession(s)
  BY <1>1, <1>4, <1>5 DEF OnlySession, Session
<1>8. Kind(session'[s]) /\ Begun(s)'
  BY <1>1, <1>2, <1>4, <1>5, <1>6, <1>7 DEF Kind, OnTemplate, Begun, OpenPc, TemplateOps
<1>9. session'[s].lock => \A t \in Sessions \ {s} : session[t].lock => session[t].of # session'[s].of
  BY <1>1, <1>6 DEF FlushTemplate, LockedByAnother
<1> QED
  BY <1>2, <1>3, <1>4, <1>5, <1>6, <1>7, <1>8, <1>9, SessionShape DEF ShapeInv, TypeOK

\* The deletion of a template.
LEMMA FlushDeletedTemplateShape ==
    ASSUME ShapeInv, NEW s \in Sessions, FlushDeletedTemplate(s)
    PROVE  /\ ShapeInv' /\ OnTemplate(session[s])
           /\ Moves(s, "answered", Exists(session[s].of))
<1>1. Exists(session[s].of) \in BOOLEAN
  BY DEF Exists
<1>2. Moves(s, "answered", Exists(session[s].of))
  BY <1>1, ExceptMoves DEF FlushDeletedTemplate
<1>3. OnTemplate(session[s]) /\ Kind(session[s]) /\ Begun(s)
  BY DEF FlushDeletedTemplate, ShapeInv, Kind, OnNotification, NotificationOps, OpenPc
<1>4. Kind(session'[s]) /\ Begun(s)'
  BY <1>2, <1>3 DEF FlushDeletedTemplate, Moves, OnlySession, Kind, OnTemplate, Begun, OpenPc
<1>5. \A t \in Sessions \ {s} : session[t].lock => session[t].of # session[s].of
  BY DEF FlushDeletedTemplate, LockedByAnother
<1> QED
  BY <1>2, <1>3, <1>4, <1>5, SessionShape DEF Moves, FlushDeletedTemplate, ShapeInv, TypeOK

\* What the provider's answer makes of a session.
LEMMA PostShape ==
    ASSUME ShapeInv, NEW s \in Sessions, Post(s)
    PROVE  /\ ShapeInv' /\ OnlySession(s) /\ OnNotification(session[s])
           /\ session[s].op = "processing" /\ session[s].pc = "posting"
           /\ session'[s].pc = "changed" /\ session'[s].of = session[s].of
           /\ session'[s].view = session[s].view /\ session'[s].lock = session[s].lock
           /\ accepted \subseteq accepted' /\ UNCHANGED <<notification, template, patched>>
           /\ \/ /\ session'[s].op = "sent" /\ session'[s].new = MarkedSent(s)
                 /\ s \in accepted'
              \/ /\ session'[s].op = "failed" /\ session'[s].new = MarkedFailed(s)
<1> DEFINE ss == session[s]
<1>1. /\ ss \in Session /\ session \in [Sessions -> Session] /\ ss.pc = "posting"
      /\ Kind(ss) /\ Begun(s)
  BY DEF ShapeInv, TypeOK, Post
<1>2. OnNotification(ss) /\ ss.op = "processing"
  BY <1>1 DEF Kind, OnTemplate, TemplateOps, OpenPc
<1>3. MarkedSent(s) \in Notification /\ MarkedFailed(s) \in Notification
  BY <1>2 DEF OnNotification, Notification, NotificationStatus, MarkedSent, MarkedFailed
<1>4. /\ accepted \subseteq accepted' /\ accepted' \subseteq Sessions
      /\ UNCHANGED <<notification, template, patched>>
  BY DEF Post, ShapeInv, TypeOK
<1>5. ASSUME NEW op \in {"sent", "failed"}, NEW new \in Notification,
             session' = [session EXCEPT ![s].pc = "changed", ![s].op = op, ![s].new = new]
      PROVE  /\ OnlySession(s)
             /\ session'[s].pc = "changed" /\ session'[s].op = op /\ session'[s].of = ss.of
             /\ session'[s].view = ss.view /\ session'[s].new = new
             /\ session'[s].lock = ss.lock
  BY <1>1, <1>5 DEF OnlySession, Session
<1>6. /\ OnlySession(s) /\ session'[s].pc = "changed" /\ session'[s].of = ss.of
      /\ session'[s].view = ss.view /\ session'[s].lock = ss.lock
      /\ \/ session'[s].op = "sent" /\ session'[s].new = MarkedSent(s) /\ s \in accepted'
         \/ session'[s].op = "failed" /\ session'[s].new = MarkedFailed(s)
  <2>1. \/ /\ session' = [session EXCEPT ![s].pc = "changed", ![s].op = "sent",
                                         ![s].new = MarkedSent(s)]
           /\ s \in accepted'
        \/ session' = [session EXCEPT ![s].pc = "changed", ![s].op = "failed",
                                      ![s].new = MarkedFailed(s)]
    BY DEF Post
  <2> QED
    BY <1>3, <1>5, <2>1
<1>7. Kind(session'[s]) /\ Begun(s)'
  BY <1>1, <1>2, <1>3, <1>4, <1>6
     DEF Kind, OnNotification, Begun, OpenPc, NotificationOps, TemplateOps
<1> QED
  BY <1>1, <1>2, <1>4, <1>6, <1>7, SessionShape DEF ShapeInv, TypeOK

\* The commit of what a session has flushed.
LEMMA CommitShape ==
    ASSUME ShapeInv, NEW s \in Sessions, Commit(s)
    PROVE  /\ ShapeInv' /\ Moves(s, "committed", FALSE)
           /\ session[s].lock /\ OnNotification(session[s]) =>
                 /\ notification' = [notification EXCEPT ![session[s].of] = session[s].view]
                 /\ template' = template
           /\ session[s].lock /\ OnTemplate(session[s]) =>
                 /\ template' = [template EXCEPT ![session[s].of] =
                       IF session[s].op = "delete_template" THEN Deleted ELSE session[s].view]
                 /\ notification' = notification
           /\ ~session[s].lock => UNCHANGED <<notification, template>>
<1> DEFINE ss == session[s]
<1>1. Moves(s, "committed", FALSE)
  BY ExceptMoves DEF Commit
<1>2. Kind(ss) /\ ss.pc \in OpenPc /\ (OnNotification(ss) \/ OnTemplate(ss))
  BY DEF Commit, ShapeInv, Kind, OpenPc
<1>3. ~(ss.of \in Notifications /\ ss.of \in Templates)
  BY IdAssumption DEF IdAssumption
<1>4. ss.lock /\ OnNotification(ss) =>
          /\ notification' = [notification EXCEPT ![ss.of] = ss.view] /\ template' = template
  BY <1>3 DEF Commit, OnNotification
<1>5. ss.lock /\ OnTemplate(ss) =>
          /\ template' = [template EXCEPT ![ss.of] =
                            IF ss.op = "delete_template" THEN Deleted ELSE ss.view]
          /\ notification' = notification
  BY <1>3 DEF Commit, OnTemplate
<1>6. ~ss.lock => UNCHANGED <<notification, template>>
  BY DEF Commit
<1>7. /\ notification' \in [Notifications -> Notification \cup {Unused}]
      /\ template' \in [Templates -> Template \cup {Unused, Deleted}]
  BY <1>2, <1>4, <1>5, <1>6 DEF ShapeInv, TypeOK, OnNotification, OnTemplate
<1>8. TypeOK'
  <2>1. \A t, u \in Sessions : session'[t].lock /\ session'[u].lock /\ t # u
            => session'[t].of # session'[u].of
    BY <1>1 DEF Moves, OnlySession, ShapeInv, TypeOK
  <2>2. accepted' \subseteq Sessions /\ session' \in [Sessions -> Session]
    BY <1>1 DEF Commit, Moves, OnlySession, ShapeInv, TypeOK
  <2>3. patched' \subseteq Notifications
    BY <1>2 DEF Commit, ShapeInv, TypeOK, OnNotification, OnTemplate, TemplateOps
  <2> QED
    BY <1>7, <2>1, <2>2, <2>3 DEF TypeOK
<1>9. \A t \in Sessions : Kind(session'[t])
  BY <1>1 DEF Moves, OnlySession, ShapeInv, Kind, OpenPc
<1>10. ASSUME NEW t \in Sessions PROVE Begun(t)'
  <2>1. CASE t = s
    BY <1>1, <2>1 DEF Moves, Begun, OpenPc
  <2>2. CASE t # s
    <3>1. session'[t] = session[t] /\ Begun(t) /\ Kind(session[t])
      BY <1>1, <2>2 DEF Moves, OnlySession, ShapeInv
    <3>2. \A u \in Sessions : session'[u].of = session[u].of
      BY <1>1 DEF Moves, OnlySession
    <3>3. ASSUME NEW n \in Notifications
          PROVE  /\ notification[n] # Unused => notification'[n] # Unused
                 /\ n # ss.of => notification'[n] = notification[n]
      BY <1>2, <1>4, <1>5, <1>6, IdAssumption DEF IdAssumption, OnNotification, ShapeInv, TypeOK
    <3>4. ASSUME NEW x \in Templates
          PROVE  /\ template[x] # Unused => template'[x] # Unused
                 /\ x # ss.of => template'[x] = template[x]
      BY <1>2, <1>4, <1>5, <1>6, IdAssumption DEF IdAssumption, OnTemplate, ShapeInv, TypeOK
    <3> QED
      BY <2>2, <3>1, <3>2, <3>3, <3>4
         DEF Begun, Kind, OnNotification, OnTemplate, NotificationOps, TemplateOps
  <2> QED
    BY <2>1, <2>2
<1> QED
  BY <1>1, <1>4, <1>5, <1>6, <1>8, <1>9, <1>10 DEF ShapeInv
----------------------------------------------------------------------------
(* Deliveries                                                              *)

\* A committed row that nobody has patched.
GoodRow(row) ==
    /\ row.status # "processing"
    /\ row.status = "sent" => row.sent_at # Never /\ ~row.error

\* A row says it was sent only by a session that has committed, and whose
\* message was taken.
RowsGood ==
    \A n \in Notifications : notification[n] # Unused =>
        /\ notification[n].sent_at \in accepted \cup {Never}
        /\ notification[n].sent_at \in Sessions =>
              session[notification[n].sent_at].pc = "committed"
        /\ n \notin patched => GoodRow(notification[n])

\* What a session is about to write is the change of its call.
Intends(s, ss) ==
    /\ ss.op = "create" => ss.new = ss.view /\ ss.view.sent_at = Never /\ ss.view.status = "pending"
    /\ ss.pc # "changed" => ss.new = ss.view
    /\ ss.pc = "raised" => ss.op = "failed"
    /\ ss.pc = "changed" =>
          /\ ss.op \in {"create", "processing", "update", "cancel"} => ~ss.lock
          /\ ss.op = "processing" => ss.new = [ss.view EXCEPT !.status = "processing"]
          /\ ss.op = "cancel" => ss.new = [ss.view EXCEPT !.status = "cancelled"]
          /\ ss.op = "update" => ss.new.sent_at = ss.view.sent_at
          /\ ss.op = "sent" => ss.new = [ss.view EXCEPT !.status = "sent", !.sent_at = s,
                                                         !.error = FALSE]
          /\ ss.op = "failed" => ss.new = [ss.view EXCEPT !.status = "failed", !.error = TRUE]

\* When the row says it was sent: the copy agrees, but for the session's own
\* sending, which it has in its copy from the second flush on.
Dated(s, ss) ==
    /\ ss.view.sent_at \in accepted \cup {Never}
    /\ ss.lock /\ ss.op # "create" => ss.view.sent_at \in {notification[ss.of].sent_at, s}
    /\ ~(ss.op = "sent" /\ ss.pc = "answered") => ss.view.sent_at # s
    /\ ss.op = "sent" => s \in accepted
    /\ ss.op = "sent" /\ ss.pc = "answered" => ss.lock /\ ss.view.sent_at = s

\* Unless the row was patched, a delivery holds it from its first flush on, and
\* leaves it good.
Unpatched(ss) ==
    ss.of \notin patched =>
        /\ ss.pc = "posting" \/ (ss.pc = "changed" /\ ss.op \in {"sent", "failed"}) => ss.lock
        /\ ss.pc = "changed" /\ ss.op = "processing" => ss.view.status # "processing"
        /\ ss.lock /\ ss.pc \in {"answered", "raised"} /\ ss.op # "update" => GoodRow(ss.view)

SessionGood(s, ss) ==
    ss.pc \in OpenPc /\ ss.op \in NotificationOps =>
        Intends(s, ss) /\ Dated(s, ss) /\ Unpatched(ss)

\* What was committed as sent is on record.
OnRecord(ss) ==
    ss.pc = "committed" /\ ss.op = "sent" =>
        /\ ss.of \in Notifications /\ notification[ss.of] # Unused
        /\ notification[ss.of].sent_at # Never

\* The inductive invariant of deliveries.
DeliveryInv ==
    /\ ShapeInv
    /\ RowsGood
    /\ \A s \in Sessions : SessionGood(s, session[s]) /\ OnRecord(session[s])

\* It holds at first.
LEMMA InitDelivery == Init => DeliveryInv
<1> SUFFICES ASSUME Init PROVE DeliveryInv
  OBVIOUS
<1>1. RowsGood
  BY DEF Init, RowsGood
<1>2. \A s \in Sessions : SessionGood(s, session[s]) /\ OnRecord(session[s])
  BY DEF Init, SessionGood, OnRecord, Idle, OpenPc
<1> QED
  BY <1>1, <1>2, InitShape DEF DeliveryInv

\* A step of one session that leaves the notifications as they are.
LEMMA SessionDelivery ==
    ASSUME DeliveryInv, ShapeInv', NEW s \in Sessions, OnlySession(s),
           UNCHANGED <<notification, patched>>, accepted \subseteq accepted',
           SessionGood(s, session[s])',
           session[s].pc # "committed", session'[s].pc # "committed"
    PROVE  DeliveryInv'
<1> USE DEF DeliveryInv, OnlySession
<1>1. RowsGood'
  BY DEF RowsGood
<1>2. ASSUME NEW t \in Sessions PROVE SessionGood(t, session[t])' /\ OnRecord(session[t])'
  <2>1. CASE t = s
    BY <2>1 DEF OnRecord
  <2>2. CASE t # s
    <3>1. session'[t] = session[t] /\ SessionGood(t, session[t]) /\ OnRecord(session[t])
      BY <2>2
    <3>2. OnRecord(session[t])'
      BY <3>1 DEF OnRecord
    <3>3. Intends(t, session[t]) => Intends(t, session[t])'
      BY <3>1 DEF Intends
    <3>4. Dated(t, session[t]) => Dated(t, session[t])'
      BY <3>1 DEF Dated
    <3>5. Unpatched(session[t]) => Unpatched(session[t])'
      BY <3>1 DEF Unpatched, GoodRow
    <3> QED
      BY <3>1, <3>2, <3>3, <3>4, <3>5 DEF SessionGood
  <2> QED
    BY <2>1, <2>2
<1> QED
  BY <1>1, <1>2

\* A call on a notification begins from the committed row.
LEMMA BeginsDelivery ==
    ASSUME DeliveryInv, NEW s \in Sessions, NEW n \in Notifications, NEW op, NEW new,
           op \in {"processing", "cancel", "update"}, new \in Notification,
           notification[n] # Unused, Changes(s, n, op, notification[n], new),
           op = "processing" => new = [notification[n] EXCEPT !.status = "processing"],
           op = "cancel" => new = [notification[n] EXCEPT !.status = "cancelled"],
           op = "update" => new.sent_at = notification[n].sent_at
    PROVE  DeliveryInv'
<1>1. notification[n] \in Notification
  BY DEF DeliveryInv, ShapeInv, TypeOK
<1>2. Begins(s, n, op, notification[n], new)
  BY <1>1 DEF Begins, NotificationOps
<1>3. /\ ShapeInv' /\ OnlySession(s)
      /\ session'[s].pc = "changed" /\ session'[s].op = op /\ session'[s].of = n
      /\ session'[s].view = notification[n] /\ session'[s].new = new /\ ~session'[s].lock
  BY <1>2, BeginsShape DEF DeliveryInv
<1>4. session[s].pc = "idle" /\ UNCHANGED <<notification, template, accepted, patched>>
  BY DEF Changes
<1>5. notification[n].sent_at # s /\ notification[n].sent_at \in accepted \cup {Never}
  BY <1>4 DEF DeliveryInv, RowsGood
<1>6. n \notin patched => notification[n].status # "processing"
  BY DEF DeliveryInv, RowsGood, GoodRow
<1>7. SessionGood(s, session[s])'
  <2>1. Intends(s, session[s])'
    BY <1>3 DEF Intends
  <2>2. Dated(s, session[s])'
    BY <1>3, <1>4, <1>5 DEF Dated
  <2>3. Unpatched(session[s])'
    BY <1>3, <1>4, <1>6 DEF Unpatched
  <2> QED
    BY <2>1, <2>2, <2>3 DEF SessionGood
<1> QED
  BY <1>3, <1>4, <1>7, SessionDelivery

\* A delivery, whichever way the message goes, a cancellation, an update.
LEMMA CallsDelivery ==
    ASSUME DeliveryInv, NEW s \in Sessions, NEW n \in Notifications,
           Deliveries(s, n) \/ UpdateNotification(s, n) \/ CancelNotification(s, n)
    PROVE  DeliveryInv'
<1> DEFINE row == notification[n]
<1>1. row # Unused /\ row \in Notification
  BY DEF Deliveries, SendEmail, SendSMS, SendPush, Sends, UpdateNotification, CancelNotification,
         DeliveryInv, ShapeInv, TypeOK
<1>2. /\ [row EXCEPT !.status = "processing"] \in Notification
      /\ [row EXCEPT !.status = "cancelled"] \in Notification
  BY <1>1 DEF Notification, NotificationStatus
<1>3. \A status \in NotificationStatus, error \in BOOLEAN :
          /\ [row EXCEPT !.status = status, !.error = error] \in Notification
          /\ [row EXCEPT !.status = status, !.error = error].sent_at = row.sent_at
  BY <1>1 DEF Notification
<1>4. CASE Deliveries(s, n)
  <2>1. Changes(s, n, "processing", row, [row EXCEPT !.status = "processing"])
    BY <1>4 DEF Deliveries, SendEmail, SendSMS, SendPush, Sends
  <2> QED
    BY <1>1, <1>2, <2>1, BeginsDelivery
<1>5. CASE CancelNotification(s, n)
  <2>1. Changes(s, n, "cancel", row, [row EXCEPT !.status = "cancelled"])
    BY <1>5 DEF CancelNotification
  <2> QED
    BY <1>1, <1>2, <2>1, BeginsDelivery
<1>6. CASE UpdateNotification(s, n)
  <2>1. PICK status \in NotificationStatus, error \in BOOLEAN :
            Changes(s, n, "update", row, [row EXCEPT !.status = status, !.error = error])
    BY <1>6 DEF UpdateNotification
  <2> DEFINE new == [row EXCEPT !.status = status, !.error = error]
  <2>2. new \in Notification /\ new.sent_at = row.sent_at
    BY <1>3
  <2>3. Changes(s, n, "update", row, new)
    BY <2>1
  <2> HIDE DEF new
  <2> QED
    BY <1>1, <2>2, <2>3, BeginsDelivery
<1> QED
  BY <1>4, <1>5, <1>6

\* A new notification is pending and was never sent.
LEMMA CreateDelivery ==
    ASSUME DeliveryInv, NEW s \in Sessions, NEW n \in Notifications, NEW type \in NotificationType,
           CreateNotification(s, n, type)
    PROVE  DeliveryInv'
<1> DEFINE new == [type |-> type, status |-> "pending", sent_at |-> Never, error |-> FALSE]
<1>1. new \in Notification /\ new.sent_at = Never /\ new.status = "pending"
  BY DEF Notification, NotificationStatus
<1>2. Begins(s, n, "create", new, new) /\ session[s].pc = "idle"
      /\ UNCHANGED <<notification, template, accepted, patched>>
  BY <1>1 DEF Begins, CreateNotification, NotificationOps, Changes
<1> HIDE DEF new
<1>3. /\ ShapeInv' /\ OnlySession(s)
      /\ session'[s].pc = "changed" /\ session'[s].op = "create" /\ session'[s].of = n
      /\ session'[s].view = new /\ session'[s].new = new /\ ~session'[s].lock
  BY <1>2, BeginsShape DEF DeliveryInv
<1>4. SessionGood(s, session[s])'
  BY <1>1, <1>3, IdAssumption DEF SessionGood, Intends, Dated, Unpatched, IdAssumption
<1> QED
  BY <1>2, <1>3, <1>4, SessionDelivery
\* A flush of a delivery, a cancellation or an update.
LEMMA FlushDelivery ==
    ASSUME DeliveryInv, NEW s \in Sessions, Flush(s) PROVE DeliveryInv'
<1> DEFINE ss == session[s]
           row == Row(s)
           read == Read(s)
<1>1. /\ ss.op \in NotificationOps \ {"create"} /\ OnNotification(ss)
      /\ notification[ss.of] \in Notification /\ row \in Notification /\ read \in Notification
      /\ ShapeInv' /\ OnlySession(s)
      /\ session'[s].pc = After(ss.op) /\ session'[s].op = ss.op /\ session'[s].of = ss.of
      /\ session'[s].view = read /\ session'[s].new = read
      /\ session'[s].lock = (ss.lock \/ Dirty(s))
  BY FlushShape DEF DeliveryInv
<1>2. ss.pc = "changed" /\ UNCHANGED <<notification, template, accepted, patched>>
  BY DEF Flush
<1>3. Intends(s, ss) /\ Dated(s, ss) /\ Unpatched(ss)
  BY <1>1, <1>2 DEF DeliveryInv, SessionGood, OpenPc
<1>4. ss.view \in Notification /\ ss.new \in Notification /\ ss.of \in Notifications
  BY <1>1 DEF OnNotification
<1>5. /\ read.status  = IF ss.new.status = ss.view.status THEN row.status ELSE ss.new.status
      /\ read.sent_at = IF ss.new.sent_at = ss.view.sent_at THEN row.sent_at ELSE ss.new.sent_at
      /\ read.error   = IF ss.new.error = ss.view.error THEN row.error ELSE ss.new.error
  <2>1. read = Merged(row, ss.view, ss.new)
    BY DEF Read
  <2>2. row \in Notification /\ ss.view \in Notification /\ ss.new \in Notification
    BY <1>1, <1>4
  <2> HIDE DEF row, read, ss
  <2>3. Merged(row, ss.view, ss.new) =
          [type    |-> IF ss.new.type = ss.view.type THEN row.type ELSE ss.new.type,
           status  |-> IF ss.new.status = ss.view.status THEN row.status ELSE ss.new.status,
           sent_at |-> IF ss.new.sent_at = ss.view.sent_at THEN row.sent_at ELSE ss.new.sent_at,
           error   |-> IF ss.new.error = ss.view.error THEN row.error ELSE ss.new.error]
    BY ONLY <2>2, MergedNotification
  <2> QED
    BY ONLY <2>1, <2>3
<1>6. notification[ss.of] # Unused
  BY <1>1, IdAssumption DEF IdAssumption
<1>7. /\ row = IF ss.lock THEN ss.view ELSE notification[ss.of]
      /\ Dirty(s) <=> ss.new # ss.view
  BY DEF Row, Dirty
<1>8. /\ notification[ss.of].sent_at # s
      /\ notification[ss.of].sent_at \in accepted \cup {Never}
      /\ ss.of \notin patched => GoodRow(notification[ss.of])
  BY <1>2, <1>4, <1>6 DEF DeliveryInv, RowsGood
<1>9. After(ss.op) = CASE ss.op = "processing" -> "posting"
                       [] ss.op = "failed"     -> "raised"
                       [] OTHER                -> "answered"
  BY DEF After
<1>10. ss.op \in {"processing", "sent", "failed", "update", "cancel"}
  BY <1>1 DEF NotificationOps
<1> HIDE DEF read, row
\* What the call was to change, in fields.
<1>11. /\ ss.op = "processing" => ss.new.status = "processing" /\ ss.new.sent_at = ss.view.sent_at
       /\ ss.op = "cancel" => /\ ss.new.status = "cancelled" /\ ss.new.sent_at = ss.view.sent_at
                              /\ ss.view.status = "cancelled" => ss.new = ss.view
       /\ ss.op = "update" => ss.new.sent_at = ss.view.sent_at
       /\ ss.op = "sent" => ss.new.status = "sent" /\ ss.new.sent_at = s /\ ss.new.error = FALSE
       /\ ss.op = "failed" => ss.new.status = "failed" /\ ss.new.sent_at = ss.view.sent_at
  <2>1. ss.op = "cancel" /\ ss.view.status = "cancelled" => ss.new = ss.view
    BY <1>2, <1>3, <1>4 DEF Intends, Notification
  <2> QED
    BY <1>2, <1>3, <1>4, <2>1 DEF Intends, Notification
<1>12. Intends(s, session[s])'
  BY <1>1, <1>9, <1>10 DEF Intends
<1>13. Dated(s, session[s])'
  <2>1. row.sent_at # s /\ row.sent_at \in accepted \cup {Never}
    BY <1>2, <1>3, <1>7, <1>8 DEF Dated
  <2>2. row.sent_at \in {notification[ss.of].sent_at, s}
    BY <1>1, <1>3, <1>7 DEF Dated
  <2>3. CASE ss.op = "sent"
    <3>1. ss.new.sent_at # ss.view.sent_at /\ s \in accepted
      BY <1>2, <1>3, <1>11, <2>3 DEF Dated
    <3>2. read.sent_at = s /\ session'[s].lock
      BY <1>1, <1>5, <1>7, <1>11, <2>3, <3>1
    <3> QED
      BY <1>1, <1>2, <1>9, <2>3, <3>1, <3>2 DEF Dated
  <2>4. CASE ss.op # "sent"
    <3>1. read.sent_at = row.sent_at
      BY <1>5, <1>10, <1>11, <2>4
    <3> QED
      BY <1>1, <1>2, <2>1, <2>2, <2>4, <3>1 DEF Dated
  <2> QED
    BY <2>3, <2>4
<1>14. Unpatched(session[s])'
  <2> SUFFICES ASSUME ss.of \notin patched
               PROVE  /\ ss.op = "processing" => session'[s].lock
                      /\ session'[s].lock /\ ss.op \notin {"processing", "update"} => GoodRow(read)
    BY <1>1, <1>2, <1>9, <1>10 DEF Unpatched
  <2>1. CASE ss.op = "processing"
    BY <1>1, <1>2, <1>3, <1>7, <1>11, <2>1 DEF Unpatched
  <2>2. CASE ss.op = "sent"
    <3>1. row = ss.view
      BY <1>2, <1>3, <1>7, <2>2 DEF Unpatched
    <3>2. read.status = "sent" /\ read.sent_at = s /\ read.error = FALSE
      BY <1>5, <1>11, <2>2, <3>1
    <3> QED
      BY <2>2, <3>2, IdAssumption DEF GoodRow, IdAssumption
  <2>3. CASE ss.op = "failed"
    <3>1. row = ss.view
      BY <1>2, <1>3, <1>7, <2>3 DEF Unpatched
    <3>2. read.status = "failed"
      BY <1>5, <1>11, <2>3, <3>1
    <3> QED
      BY <2>3, <3>2 DEF GoodRow
  <2>4. CASE ss.op = "cancel"
    <3>1. session'[s].lock => read.status = "cancelled"
      BY <1>1, <1>2, <1>3, <1>5, <1>7, <1>11, <2>4 DEF Intends
    <3> QED
      BY <2>4, <3>1 DEF GoodRow
  <2> QED
    BY <1>10, <2>1, <2>2, <2>3, <2>4
<1>15. session'[s].pc # "committed"
  BY <1>1, <1>9, <1>10
<1> QED
  BY <1>1, <1>2, <1>12, <1>13, <1>14, <1>15, SessionDelivery DEF SessionGood

\* The insert of a notification.
LEMMA FlushNewDelivery ==
    ASSUME DeliveryInv, NEW s \in Sessions, FlushNewNotification(s) PROVE DeliveryInv'
<1> DEFINE ss == session[s]
<1>1. ShapeInv' /\ Moves(s, "answered", TRUE) /\ OnNotification(ss)
  BY FlushNewNotificationShape DEF DeliveryInv
<1>2. /\ ss.pc = "changed" /\ ss.op = "create"
      /\ UNCHANGED <<notification, template, accepted, patched>>
  BY DEF FlushNewNotification
<1>3. Intends(s, ss) /\ Dated(s, ss)
  BY <1>1, <1>2 DEF DeliveryInv, SessionGood, OpenPc, OnNotification
<1>4. Intends(s, session[s])'
  BY <1>1, <1>2, <1>3 DEF Moves, Intends
<1>5. Dated(s, session[s])'
  BY <1>1, <1>2, <1>3 DEF Moves, Dated
<1>6. Unpatched(session[s])'
  BY <1>1, <1>2, <1>3 DEF Moves, Unpatched, Intends, GoodRow
<1> QED
  BY <1>1, <1>2, <1>4, <1>5, <1>6, SessionDelivery DEF SessionGood, Moves

\* The provider's answer: the message's session is the first to name itself.
LEMMA PostDelivery ==
    ASSUME DeliveryInv, NEW s \in Sessions, Post(s) PROVE DeliveryInv'
<1> DEFINE ss == session[s]
<1>1. /\ ShapeInv' /\ OnlySession(s) /\ OnNotification(ss)
      /\ ss.op = "processing" /\ ss.pc = "posting"
      /\ session'[s].pc = "changed" /\ session'[s].of = ss.of
      /\ session'[s].view = ss.view /\ session'[s].lock = ss.lock
      /\ accepted \subseteq accepted' /\ UNCHANGED <<notification, template, patched>>
      /\ \/ session'[s].op = "sent" /\ session'[s].new = MarkedSent(s) /\ s \in accepted'
         \/ session'[s].op = "failed" /\ session'[s].new = MarkedFailed(s)
  BY PostShape DEF DeliveryInv
<1>2. Intends(s, ss) /\ Dated(s, ss) /\ Unpatched(ss)
  BY <1>1 DEF DeliveryInv, SessionGood, OpenPc, OnNotification
<1>3. Intends(s, session[s])'
  BY <1>1 DEF Intends, MarkedSent, MarkedFailed
<1>4. Dated(s, session[s])'
  BY <1>1, <1>2 DEF Dated
<1>5. Unpatched(session[s])'
  BY <1>1, <1>2 DEF Unpatched
<1> QED
  BY <1>1, <1>3, <1>4, <1>5, SessionDelivery DEF SessionGood

\* A rollback, of whatever session.
LEMMA RollbackDelivery ==
    ASSUME DeliveryInv, NEW s \in Sessions, Rollback(s), Open(s) PROVE DeliveryInv'
<1>1. ShapeInv' /\ Moves(s, "ended", FALSE)
  BY RollbackShape DEF DeliveryInv
<1>2. SessionGood(s, session[s])'
  BY <1>1 DEF Moves, SessionGood, OpenPc
<1> QED
  BY <1>1, <1>2, SessionDelivery DEF Moves, Rollback, Open

\* A step of a session on a template.
LEMMA TemplateDelivery ==
    ASSUME DeliveryInv, ShapeInv', NEW s \in Sessions, OnlySession(s),
           UNCHANGED <<notification, accepted, patched>>,
           session'[s].op \in TemplateOps,
           session[s].pc # "committed", session'[s].pc # "committed"
    PROVE  DeliveryInv'
<1>1. SessionGood(s, session[s])'
  BY DEF SessionGood, NotificationOps, TemplateOps
<1> QED
  BY <1>1, SessionDelivery

\* The commit of a session on a template, or of one that has written nothing.
LEMMA IdleCommitDelivery ==
    ASSUME DeliveryInv, NEW s \in Sessions, Commit(s),
           OnTemplate(session[s]) \/ ~session[s].lock
    PROVE  DeliveryInv'
<1> DEFINE ss == session[s]
<1>1. /\ ShapeInv' /\ Moves(s, "committed", FALSE)
      /\ notification' = notification /\ accepted' = accepted
      /\ patched \subseteq patched' /\ ss.pc \in {"answered", "raised"}
  BY CommitShape DEF DeliveryInv, Commit
<1>2. RowsGood'
  BY <1>1 DEF DeliveryInv, RowsGood, GoodRow, Moves, OnlySession
<1>3. ASSUME NEW t \in Sessions \ {s} PROVE SessionGood(t, session[t])' /\ OnRecord(session[t])'
  <2>1. session'[t] = session[t] /\ SessionGood(t, session[t]) /\ OnRecord(session[t])
    BY <1>1 DEF Moves, OnlySession, DeliveryInv
  <2>2. OnRecord(session[t])'
    BY <1>1, <2>1 DEF OnRecord
  <2>3. Intends(t, session[t]) => Intends(t, session[t])'
    BY <2>1 DEF Intends
  <2>4. Dated(t, session[t]) => Dated(t, session[t])'
    BY <1>1, <2>1 DEF Dated
  <2>5. Unpatched(session[t]) => Unpatched(session[t])'
    BY <1>1, <2>1 DEF Unpatched, GoodRow
  <2> QED
    BY <2>1, <2>2, <2>3, <2>4, <2>5 DEF SessionGood
<1>4. SessionGood(s, session[s])'
  BY <1>1 DEF Moves, SessionGood, OpenPc
<1>5. OnRecord(session[s])'
  <2> SUFFICES ASSUME ss.op = "sent" PROVE FALSE
    BY <1>1 DEF Moves, OnRecord
  <2>1. OnNotification(ss) /\ ~ss.lock
    BY <1>1 DEF DeliveryInv, ShapeInv, Kind, OpenPc, OnTemplate, TemplateOps
  <2>2. Intends(s, ss) /\ Dated(s, ss)
    BY <1>1, <2>1 DEF DeliveryInv, SessionGood, OpenPc, OnNotification
  <2> QED
    BY <1>1, <2>1, <2>2 DEF Intends, Dated
<1> QED
  BY <1>1, <1>2, <1>3, <1>4, <1>5 DEF DeliveryInv

\* The commit of a version of a notification.
LEMMA CommitDelivery ==
    ASSUME DeliveryInv, NEW s \in Sessions, Commit(s), OnNotification(session[s]), session[s].lock
    PROVE  DeliveryInv'
<1> DEFINE ss == session[s]
           n  == ss.of
<1>1. /\ ShapeInv' /\ Moves(s, "committed", FALSE)
      /\ notification' = [notification EXCEPT ![n] = ss.view]
      /\ accepted' = accepted /\ ss.pc \in {"answered", "raised"}
      /\ patched' = IF ss.op = "update" THEN patched \cup {n} ELSE patched
      /\ n \in Notifications /\ ss.view \in Notification /\ ss.op \in NotificationOps
  BY CommitShape DEF DeliveryInv, Commit, OnNotification
<1>2. Intends(s, ss) /\ Dated(s, ss) /\ Unpatched(ss)
  BY <1>1 DEF DeliveryInv, SessionGood, OpenPc
<1>3. notification'[n] = ss.view /\ \A m \in Notifications \ {n} : notification'[m] = notification[m]
  BY <1>1 DEF DeliveryInv, ShapeInv, TypeOK
<1>4. /\ ss.op = "create" => notification[n] = Unused /\ ss.view.sent_at = Never
      /\ ss.op # "create" => /\ notification[n] # Unused
                             /\ ss.view.sent_at \in {notification[n].sent_at, s}
  BY <1>1, <1>2 DEF DeliveryInv, ShapeInv, Begun, OpenPc, Intends, Dated
<1>5. session'[s].pc = "committed" /\ \A t \in Sessions \ {s} : session'[t] = session[t]
  BY <1>1 DEF Moves, OnlySession
<1>6. RowsGood'
  <2> SUFFICES ASSUME NEW m \in Notifications, notification'[m] # Unused
               PROVE  /\ notification'[m].sent_at \in accepted' \cup {Never}
                      /\ notification'[m].sent_at \in Sessions =>
                            session'[notification'[m].sent_at].pc = "committed"
                      /\ m \notin patched' => GoodRow(notification'[m])
    BY DEF RowsGood, GoodRow
  <2>1. CASE m = n
    <3>1. ss.view.sent_at \in accepted' \cup {Never}
      BY <1>1, <1>2 DEF Dated
    <3>2. ss.view.sent_at \in Sessions => session'[ss.view.sent_at].pc = "committed"
      <4>1. CASE ss.op = "create"
        BY <1>4, <4>1, IdAssumption DEF IdAssumption
      <4>2. CASE ss.op # "create"
        <5>1. notification[n].sent_at \in Sessions =>
                  session[notification[n].sent_at].pc = "committed"
          BY <1>1, <1>4, <4>2 DEF DeliveryInv, RowsGood
        <5> QED
          BY <1>4, <1>5, <4>2, <5>1
      <4> QED
        BY <4>1, <4>2
    <3>3. n \notin patched' => GoodRow(ss.view)
      BY <1>1, <1>2 DEF Unpatched
    <3> QED
      BY <1>3, <2>1, <3>1, <3>2, <3>3
  <2>2. CASE m # n
    <3>1. notification'[m] = notification[m]
      BY <1>3, <2>2
    <3>2. patched \subseteq patched' /\ accepted' = accepted
      BY <1>1
    <3> QED
      BY <1>5, <3>1, <3>2 DEF DeliveryInv, RowsGood
  <2> QED
    BY <2>1, <2>2
<1>7. ASSUME NEW t \in Sessions \ {s} PROVE SessionGood(t, session[t])' /\ OnRecord(session[t])'
  <2>1. session'[t] = session[t] /\ SessionGood(t, session[t]) /\ OnRecord(session[t])
    BY <1>5 DEF DeliveryInv
  <2>2. OnRecord(session[t])'
    <3> SUFFICES ASSUME session[t].pc = "committed", session[t].op = "sent"
                 PROVE  /\ session[t].of \in Notifications /\ notification'[session[t].of] # Unused
                        /\ notification'[session[t].of].sent_at # Never
      BY <2>1 DEF OnRecord
    <3>1. /\ session[t].of \in Notifications /\ notification[session[t].of] # Unused
          /\ notification[session[t].of].sent_at # Never
      BY <2>1 DEF OnRecord
    <3>2. CASE session[t].of = n
      BY <1>1, <1>3, <1>4, <3>1, <3>2, IdAssumption DEF IdAssumption
    <3>3. CASE session[t].of # n
      BY <1>3, <3>1, <3>3
    <3> QED
      BY <3>2, <3>3
  <2>3. Intends(t, session[t]) => Intends(t, session[t])'
    BY <2>1 DEF Intends
  <2>4. OnNotification(session[t]) /\ Dated(t, session[t]) => Dated(t, session[t])'
    <3>1. session[t].lock => session[t].of # n
      BY DEF DeliveryInv, ShapeInv, TypeOK
    <3>2. session[t].lock /\ session[t].of \in Notifications
            => notification'[session[t].of] = notification[session[t].of]
      BY <1>3, <3>1
    <3> QED
      BY <1>1, <2>1, <3>2 DEF Dated, OnNotification
  <2>5. Unpatched(session[t]) => Unpatched(session[t])'
    BY <1>1, <2>1 DEF Unpatched, GoodRow
  <2>6. session[t].pc \in OpenPc /\ session[t].op \in NotificationOps => OnNotification(session[t])
    BY DEF DeliveryInv, ShapeInv, Kind, OnTemplate, NotificationOps, TemplateOps
  <2> QED
    BY <2>1, <2>2, <2>3, <2>4, <2>5, <2>6 DEF SessionGood
<1>8. SessionGood(s, session[s])'
  BY <1>5 DEF SessionGood, OpenPc
<1>9. OnRecord(session[s])'
  <2> SUFFICES ASSUME ss.op = "sent"
               PROVE  ss.view.sent_at # Never
    BY <1>1, <1>3, IdAssumption DEF Moves, OnRecord, IdAssumption
  <2> QED
    BY <1>1, <1>2, IdAssumption DEF Intends, Dated, IdAssumption
<1> QED
  BY <1>1, <1>6, <1>7, <1>8, <1>9 DEF DeliveryInv

----------------------------------------------------------------------------
(* Templates                                                               *)

\* A session that has inserted a name is alone with it, and one that updates a
\* template leaves its name.
Naming(s) ==
    LET ss == session[s]
    IN  /\ ss.op = "create_template" => ss.new = ss.view
        /\ ss.op = "create_template" /\ ss.lock =>
              /\ ~NameTaken(ss.view.name)
              /\ \A t \in Sessions \ {s} :
                    session[t].op = "create_template" /\ session[t].lock
                        => session[t].view.name # ss.view.name
        /\ ss.op = "update_template" => ss.new.name = ss.view.name
        /\ ss.op = "update_template" /\ ss.lock =>
              Exists(ss.of) /\ ss.view.name = template[ss.of].name

\* The inductive invariant of templates.
TemplateInv == TemplatesAreDistinct /\ \A s \in Sessions : Naming(s)

\* It holds at first.
LEMMA InitTemplates == Init => TemplateInv
  BY DEF Init, TemplateInv, TemplatesAreDistinct, Exists, Naming, Idle

\* A step of one session that leaves the templates as they are.
LEMMA SessionTemplates ==
    ASSUME TemplateInv, NEW s \in Sessions, OnlySession(s), template' = template, Naming(s)'
    PROVE  TemplateInv'
<1>1. TemplatesAreDistinct'
  BY DEF TemplateInv, TemplatesAreDistinct, Exists
<1>2. ASSUME NEW t \in Sessions \ {s} PROVE Naming(t)'
  <2>1. session'[t] = session[t] /\ Naming(t)
    BY DEF OnlySession, TemplateInv
  <2>2. ASSUME session[t].op = "create_template", session[t].lock,
               NEW u \in Sessions \ {t},
               session'[u].op = "create_template", session'[u].lock
        PROVE  session'[u].view.name # session[t].view.name
    BY <2>1, <2>2 DEF Naming, OnlySession
  <2>3. /\ \A name : NameTaken(name)' <=> NameTaken(name)
        /\ Exists(session[t].of)' <=> Exists(session[t].of)
    BY <2>1 DEF NameTaken, Exists
  <2> QED
    BY <2>1, <2>2, <2>3 DEF Naming
<1> QED
  BY <1>1, <1>2 DEF TemplateInv

\* A step that leaves what session s is doing to a notification, or has ended it.
LEMMA OtherTemplates ==
    ASSUME TemplateInv, NEW s \in Sessions, OnlySession(s), template' = template,
           session'[s].op \notin TemplateOps
    PROVE  TemplateInv'
  BY SessionTemplates DEF Naming, TemplateOps

\* A session that moves on without a lock.
LEMMA UnlockedTemplates ==
    ASSUME TemplateInv, NEW s \in Sessions, NEW pc, Moves(s, pc, FALSE), template' = template
    PROVE  TemplateInv'
<1>1. Naming(s)'
  BY DEF Moves, Naming, TemplateInv
<1> QED
  BY <1>1, SessionTemplates DEF Moves

\* The calls of the template endpoints.
LEMMA TemplateCalls ==
    ASSUME DeliveryInv, TemplateInv, NEW s \in Sessions, NEW t \in Templates,
           TemplateEndpoints(s, t)
    PROVE  DeliveryInv' /\ TemplateInv'
<1>1. ASSUME NEW op \in TemplateOps, NEW view \in Template, NEW new \in Template,
             Begins(s, t, op, view, new), new.name = view.name,
             op = "create_template" => new = view
      PROVE  DeliveryInv' /\ TemplateInv'
  <2>1. /\ ShapeInv' /\ OnlySession(s)
        /\ session'[s].pc = "changed" /\ session'[s].op = op /\ session'[s].of = t
        /\ session'[s].view = view /\ session'[s].new = new /\ ~session'[s].lock
    BY <1>1, BeginsShape DEF DeliveryInv
  <2>2. session[s].pc = "idle" /\ UNCHANGED <<notification, template, accepted, patched>>
    BY <1>1 DEF Begins, Changes
  <2>3. Naming(s)'
    BY <1>1, <2>1 DEF Naming
  <2> QED
    BY <1>1, <2>1, <2>2, <2>3, TemplateDelivery, SessionTemplates
<1>2. Exists(t) => template[t] \in Template /\ template[t] # Unused
  BY DEF DeliveryInv, ShapeInv, TypeOK, Exists
<1>3. ASSUME NEW name \in Names, NEW active \in BOOLEAN, CreateTemplate(s, t, name, active)
      PROVE  DeliveryInv' /\ TemplateInv'
  <2> DEFINE new == [name |-> name, is_active |-> active]
  <2>1. new \in Template
    BY DEF Template
  <2>2. Begins(s, t, "create_template", new, new)
    BY <1>3, <2>1 DEF CreateTemplate, Begins, TemplateOps
  <2> HIDE DEF new
  <2> QED
    BY <1>1, <2>1, <2>2 DEF TemplateOps
<1>4. ASSUME Exists(t), NEW b \in BOOLEAN,
             Changes(s, t, "update_template", template[t], [template[t] EXCEPT !.is_active = b])
      PROVE  DeliveryInv' /\ TemplateInv'
  <2> DEFINE new == [template[t] EXCEPT !.is_active = b]
  <2>1. new \in Template /\ new.name = template[t].name
    BY <1>2, <1>4 DEF Template
  <2>2. Begins(s, t, "update_template", template[t], new)
    BY <1>2, <1>4, <2>1 DEF Begins, TemplateOps
  <2> HIDE DEF new
  <2> QED
    BY <1>1, <1>2, <1>4, <2>1, <2>2 DEF TemplateOps
<1>5. ASSUME DeleteTemplate(s, t) PROVE DeliveryInv' /\ TemplateInv'
  <2>1. Begins(s, t, "delete_template", template[t], template[t])
    BY <1>2, <1>5 DEF DeleteTemplate, Begins, TemplateOps
  <2> QED
    BY <1>1, <1>2, <1>5, <2>1 DEF TemplateOps, DeleteTemplate
<1> QED
  BY <1>3, <1>4, <1>5
     DEF TemplateEndpoints, UpdateTemplate, ActivateTemplate, DeactivateTemplate

\* A rollback, of whatever session.
LEMMA RollbackAll ==
    ASSUME DeliveryInv, TemplateInv, NEW s \in Sessions, Rollback(s), Open(s)
    PROVE  DeliveryInv' /\ TemplateInv'
<1>1. Moves(s, "ended", FALSE)
  BY RollbackShape DEF DeliveryInv
<1> QED
  BY <1>1, RollbackDelivery, UnlockedTemplates DEF Rollback

\* The insert of a template waits for, and then finds, whoever has the name.
LEMMA FlushNewTemplateAll ==
    ASSUME DeliveryInv, TemplateInv, NEW s \in Sessions, FlushNewTemplate(s)
    PROVE  DeliveryInv' /\ TemplateInv'
<1> DEFINE ss == session[s]
<1>1. ss.pc = "changed" /\ ss.op = "create_template"
  BY DEF FlushNewTemplate
<1>2. CASE Rollback(s)
  BY <1>1, <1>2, RollbackAll DEF Open
<1>3. CASE ~Rollback(s)
  <2>1. /\ ShapeInv' /\ Moves(s, "answered", TRUE)
        /\ UNCHANGED <<notification, template, accepted, patched>>
    BY <1>3, FlushNewTemplateShape DEF DeliveryInv, FlushNewTemplate
  <2>2. DeliveryInv'
    BY <1>1, <2>1, TemplateDelivery DEF Moves, TemplateOps
  <2>3. ss.new = ss.view
    BY <1>1 DEF TemplateInv, Naming
  <2>4. /\ ~NameTaken(ss.view.name)
        /\ \A t \in Sessions \ {s} : session[t].op = "create_template" /\ session[t].lock
                                        => session[t].view.name # ss.view.name
    BY <1>3, <2>3 DEF FlushNewTemplate
  <2>5. Naming(s)'
    BY <1>1, <2>1, <2>3, <2>4 DEF Naming, Moves, OnlySession, NameTaken, Exists
  <2> QED
    BY <2>1, <2>2, <2>5, SessionTemplates DEF Moves
<1> QED
  BY <1>2, <1>3

\* The update of a template leaves its name.
LEMMA FlushTemplateAll ==
    ASSUME DeliveryInv, TemplateInv, NEW s \in Sessions, FlushTemplate(s)
    PROVE  DeliveryInv' /\ TemplateInv'
<1> DEFINE ss == session[s]
<1>1. ss.pc = "changed" /\ ss.op = "update_template"
  BY DEF FlushTemplate
<1>2. CASE Rollback(s)
  BY <1>1, <1>2, RollbackAll DEF Open
<1>3. CASE ~Rollback(s)
  <2>1. /\ ShapeInv' /\ OnlySession(s) /\ OnTemplate(ss)
        /\ template[ss.of] \in Template
        /\ UNCHANGED <<notification, template, accepted, patched>>
        /\ session'[s].pc = "answered"
        /\ session'[s].op = ss.op /\ session'[s].of = ss.of
        /\ session'[s].view = ReadTemplate(s) /\ session'[s].new = ReadTemplate(s)
    BY <1>3, FlushTemplateShape DEF DeliveryInv
  <2>2. DeliveryInv'
    BY <1>1, <2>1, TemplateDelivery DEF TemplateOps
  <2>3. ReadTemplate(s).name = template[ss.of].name
    BY <1>1, <2>1, MergedTemplate DEF ReadTemplate, OnTemplate, TemplateInv, Naming
  <2>4. Exists(ss.of)
    BY <1>3 DEF FlushTemplate
  <2>5. Naming(s)'
    BY <1>1, <2>1, <2>3, <2>4 DEF Naming, Exists
  <2> QED
    BY <2>1, <2>2, <2>5, SessionTemplates
<1> QED
  BY <1>2, <1>3

\* The deletion of a template changes no name.
LEMMA FlushDeletedTemplateAll ==
    ASSUME DeliveryInv, TemplateInv, NEW s \in Sessions, FlushDeletedTemplate(s)
    PROVE  DeliveryInv' /\ TemplateInv'
<1>1. /\ ShapeInv' /\ Moves(s, "answered", Exists(session[s].of))
      /\ session[s].pc = "changed" /\ session[s].op = "delete_template"
      /\ UNCHANGED <<notification, template, accepted, patched>>
  BY FlushDeletedTemplateShape DEF DeliveryInv, FlushDeletedTemplate
<1>2. Naming(s)'
  BY <1>1 DEF Naming, Moves
<1> QED
  BY <1>1, <1>2, TemplateDelivery, SessionTemplates DEF Moves, TemplateOps

\* Only a committed insert brings a name, and it is the only one that has it.
LEMMA CommitTemplates ==
    ASSUME ShapeInv, TemplateInv, NEW s \in Sessions, Commit(s)
    PROVE  TemplateInv'
<1> DEFINE ss == session[s]
           i  == ss.of
<1>1. Moves(s, "committed", FALSE)
  BY CommitShape
<1>2. ss.pc \in OpenPc /\ (OnNotification(ss) \/ OnTemplate(ss))
  BY DEF Commit, OpenPc, ShapeInv, Kind
<1>3. CASE template' = template
  BY <1>1, <1>3, UnlockedTemplates
<1>4. CASE ss.lock /\ OnTemplate(ss)
  <2> DEFINE row == IF ss.op = "delete_template" THEN Deleted ELSE ss.view
  <2>1. /\ template' = [template EXCEPT ![i] = row] /\ i \in Templates
        /\ ss.view \in Template /\ ss.op \in TemplateOps
    BY <1>4, CommitShape DEF OnTemplate
  <2>2. template'[i] = row /\ \A t \in Templates \ {i} : template'[t] = template[t]
    BY <2>1 DEF ShapeInv, TypeOK
  <2>3. Naming(s)
    BY DEF TemplateInv
  <2>4. template'[i] \notin {Unused, Deleted} <=> ss.op # "delete_template"
    BY <2>2, <2>1, IdAssumption DEF Exists, IdAssumption
  <2>5. ss.op \in {"create_template", "update_template"} => template'[i].name = ss.view.name
    BY <2>2
  <2>6. \A t \in Templates \ {i} : /\ Exists(t)' <=> Exists(t)
                                   /\ template'[t] = template[t]
    BY <2>2 DEF Exists
  \* A name is there after the commit only if it was, or was inserted.
  <2>7. ASSUME NEW name, NameTaken(name)', ~NameTaken(name)
        PROVE  ss.op = "create_template" /\ ss.view.name = name
    <3>1. PICK t \in Templates : template'[t] \notin {Unused, Deleted} /\ template'[t].name = name
      BY <2>7 DEF NameTaken, Exists
    <3>2. t = i
      BY <2>6, <2>7, <3>1 DEF NameTaken, Exists
    <3> QED
      BY <1>4, <2>1, <2>3, <2>4, <2>5, <2>7, <3>1, <3>2 DEF NameTaken, Naming, TemplateOps
  <2>8. TemplatesAreDistinct'
    <3>1. \A t \in Templates \ {i} : template'[i] \notin {Unused, Deleted} /\ Exists(t)
                                        => template'[i].name # template[t].name
      BY <1>4, <2>1, <2>3, <2>4, <2>5
         DEF Naming, NameTaken, TemplateOps, TemplateInv, TemplatesAreDistinct
    <3> SUFFICES ASSUME NEW t \in Templates, NEW u \in Templates, t # u,
                        Exists(t)', Exists(u)', template'[t].name = template'[u].name
                 PROVE  FALSE
      BY DEF TemplatesAreDistinct, Exists
    <3>2. CASE t = i
      BY <2>6, <3>1, <3>2 DEF Exists
    <3>3. CASE u = i
      BY <2>6, <3>1, <3>3 DEF Exists
    <3>4. CASE t # i /\ u # i
      BY <2>6, <3>4 DEF TemplateInv, TemplatesAreDistinct
    <3> QED
      BY <3>2, <3>3, <3>4
  <2>9. ASSUME NEW t \in Sessions \ {s} PROVE Naming(t)'
    <3>1. session'[t] = session[t] /\ Naming(t)
      BY <1>1 DEF Moves, OnlySession, TemplateInv
    <3>2. session[t].op = "create_template" /\ session[t].lock => ~NameTaken(session[t].view.name)'
      BY <1>4, <2>3, <2>7, <3>1 DEF Naming
    <3>3. ASSUME session[t].op = "update_template", session[t].lock
          PROVE  Exists(session[t].of)' /\ session[t].view.name = template'[session[t].of].name
      <4>1. session[t].of \in Templates /\ session[t].of # i
        BY <1>4, <3>3
           DEF ShapeInv, TypeOK, Kind, OnTemplate, OnNotification, NotificationOps
      <4> QED
        BY <2>6, <3>1, <3>3, <4>1 DEF Naming
    <3>4. ASSUME session[t].op = "create_template", session[t].lock,
                 NEW u \in Sessions \ {t},
                 session'[u].op = "create_template", session'[u].lock
          PROVE  session'[u].view.name # session[t].view.name
      BY <1>1, <3>1, <3>4 DEF Naming, Moves, OnlySession
    <3> QED
      BY <3>1, <3>2, <3>3, <3>4 DEF Naming
  <2>10. Naming(s)'
    BY <1>1, <2>3 DEF Moves, Naming
  <2> QED
    BY <2>8, <2>9, <2>10 DEF TemplateInv
<1> QED
  BY <1>2, <1>3, <1>4, CommitShape

----------------------------------------------------------------------------
(* The theorems                                                            *)

\* The inductive invariant of the specification.
NotificationInv == DeliveryInv /\ TemplateInv

\* Every step keeps it.
LEMMA NextNotification == NotificationInv /\ [Next]_vars => NotificationInv'
<1> SUFFICES ASSUME DeliveryInv, TemplateInv, [Next]_vars PROVE DeliveryInv' /\ TemplateInv'
  BY DEF NotificationInv
<1>1. ASSUME NEW s \in Sessions, NEW n \in Notifications,
             Deliveries(s, n) \/ UpdateNotification(s, n) \/ CancelNotification(s, n)
      PROVE  DeliveryInv' /\ TemplateInv'
  <2>5. PICK op \in {"processing", "update", "cancel"} :
            \E new : Changes(s, n, op, notification[n], new)
    BY <1>1 DEF Deliveries, SendEmail, SendSMS, SendPush, Sends, UpdateNotification,
                CancelNotification
  <2>1. PICK new : Changes(s, n, op, notification[n], new)
    BY <2>5
  <2>2. DeliveryInv'
    BY <1>1, CallsDelivery
  <2>3. /\ session' = [session EXCEPT ![s] = [pc |-> "changed", op |-> op, of |-> n,
                              view |-> notification[n], new |-> new, lock |-> FALSE]]
        /\ template' = template
    BY <2>1 DEF Changes
  <2>4. OnlySession(s) /\ session'[s].op = op
    BY <2>2, <2>3 DEF OnlySession, DeliveryInv, ShapeInv, TypeOK
  <2> QED
    BY <2>2, <2>3, <2>4, OtherTemplates DEF TemplateOps
<1>2. ASSUME NEW s \in Sessions, NEW n \in Notifications, NEW type \in NotificationType,
             CreateNotification(s, n, type)
      PROVE  DeliveryInv' /\ TemplateInv'
  <2>1. DeliveryInv'
    BY <1>2, CreateDelivery
  <2>2. PICK new : Changes(s, n, "create", new, new)
    BY <1>2 DEF CreateNotification
  <2>3. /\ session' = [session EXCEPT ![s] = [pc |-> "changed", op |-> "create", of |-> n,
                              view |-> new, new |-> new, lock |-> FALSE]]
        /\ template' = template
    BY <2>2 DEF Changes
  <2>4. OnlySession(s) /\ session'[s].op = "create"
    BY <2>1, <2>3 DEF OnlySession, DeliveryInv, ShapeInv, TypeOK
  <2> QED
    BY <2>1, <2>3, <2>4, OtherTemplates DEF TemplateOps
<1>3. ASSUME NEW s \in Sessions, NEW t \in Templates, TemplateEndpoints(s, t)
      PROVE  DeliveryInv' /\ TemplateInv'
  BY <1>3, TemplateCalls
<1>4. ASSUME NEW s \in Sessions, Flush(s) PROVE DeliveryInv' /\ TemplateInv'
  <2>1. OnlySession(s) /\ session'[s].op \in NotificationOps /\ template' = template
    BY <1>4, FlushShape DEF DeliveryInv, Flush
  <2> QED
    BY <1>4, <2>1, FlushDelivery, OtherTemplates DEF NotificationOps, TemplateOps
<1>5. ASSUME NEW s \in Sessions, FlushNewNotification(s) PROVE DeliveryInv' /\ TemplateInv'
  <2>1. OnlySession(s) /\ session'[s].op \in NotificationOps /\ template' = template
    BY <1>5, FlushNewNotificationShape DEF DeliveryInv, FlushNewNotification, Moves, OnNotification
  <2> QED
    BY <1>5, <2>1, FlushNewDelivery, OtherTemplates DEF NotificationOps, TemplateOps
<1>6. ASSUME NEW s \in Sessions, Post(s) PROVE DeliveryInv' /\ TemplateInv'
  <2>1. OnlySession(s) /\ session'[s].op \in {"sent", "failed"} /\ template' = template
    BY <1>6, PostShape DEF DeliveryInv
  <2> QED
    BY <1>6, <2>1, PostDelivery, OtherTemplates DEF TemplateOps
<1>7. ASSUME NEW s \in Sessions, Commit(s) PROVE DeliveryInv' /\ TemplateInv'
  <2>1. TemplateInv'
    BY <1>7, CommitTemplates DEF DeliveryInv
  <2>2. OnNotification(session[s]) \/ OnTemplate(session[s])
    BY <1>7 DEF Commit, DeliveryInv, ShapeInv, Kind, OpenPc
  <2> QED
    BY <1>7, <2>1, <2>2, IdleCommitDelivery, CommitDelivery
<1>8. ASSUME NEW s \in Sessions, Abort(s) PROVE DeliveryInv' /\ TemplateInv'
  BY <1>8, RollbackAll DEF Abort
<1>9. CASE UNCHANGED vars
  <2> USE <1>9 DEF vars
  <2>1. ShapeInv'
    BY DEF DeliveryInv, ShapeInv, TypeOK, Begun, Kind, OnNotification, OnTemplate
  <2>2. RowsGood'
    BY DEF DeliveryInv, RowsGood, GoodRow
  <2>4. ASSUME NEW s \in Sessions PROVE SessionGood(s, session[s])' /\ OnRecord(session[s])'
    <3>1. SessionGood(s, session[s]) /\ OnRecord(session[s]) /\ session'[s] = session[s]
      BY DEF DeliveryInv
    <3>2. Intends(s, session[s]) => Intends(s, session[s])'
      BY DEF Intends
    <3>3. Dated(s, session[s]) => Dated(s, session[s])'
      BY DEF Dated
    <3>4. Unpatched(session[s]) => Unpatched(session[s])'
      BY DEF Unpatched, GoodRow
    <3>5. OnRecord(session[s])'
      BY <3>1 DEF OnRecord
    <3> QED
      BY <3>1, <3>2, <3>3, <3>4, <3>5 DEF SessionGood
  <2>3. TemplateInv'
    BY DEF TemplateInv, TemplatesAreDistinct, Naming, NameTaken, Exists
  <2> QED
    BY <2>1, <2>2, <2>3, <2>4 DEF DeliveryInv
<1> QED
  BY <1>1, <1>2, <1>3, <1>4, <1>5, <1>6, <1>7, <1>8, <1>9,
     FlushNewTemplateAll, FlushTemplateAll, FlushDeletedTemplateAll
     DEF Next, NotificationEndpoints

\* It holds of every behaviour.
LEMMA NotificationInvAlways == Spec => []NotificationInv
<1>1. Init => NotificationInv
  BY InitDelivery, InitTemplates DEF NotificationInv
<1> QED
  BY <1>1, NextNotification, PTL DEF Spec

\* Two sessions at the provider of one notification would both hold its row.
LEMMA PostingTakesTurns == NotificationInv => SendsTakeTurns
<1> SUFFICES ASSUME NotificationInv, NEW s \in Sessions, NEW t \in Sessions, s # t,
                    session[s].pc = "posting", session[t].pc = "posting",
                    session[s].of = session[t].of, session[s].of \notin patched
             PROVE  FALSE
  BY DEF SendsTakeTurns
<1>1. ASSUME NEW u \in {s, t} PROVE session[u].lock
  <2>1. Kind(session[u]) /\ session[u].pc = "posting"
    BY DEF NotificationInv, DeliveryInv, ShapeInv
  <2>2. session[u].op = "processing"
    BY <2>1 DEF Kind
  <2>3. Unpatched(session[u])
    BY <2>1, <2>2 DEF NotificationInv, DeliveryInv, SessionGood, OpenPc, NotificationOps
  <2> QED
    BY <2>1, <2>3 DEF Unpatched
<1> QED
  BY <1>1 DEF NotificationInv, DeliveryInv, ShapeInv, TypeOK

\* The types: in particular, two sessions never hold one row.
THEOREM NotificationTypes == Spec => []TypeOK
<1>1. NotificationInv => TypeOK
  BY DEF NotificationInv, DeliveryInv, ShapeInv
<1> QED
  BY <1>1, NotificationInvAlways, PTL

\* A notification that says it was sent was taken by its provider, however
\* deliveries, cancellations and lost transactions overlap.
THEOREM SentMeansAcceptedAlways == Spec => []SentMeansAccepted
<1>1. NotificationInv => SentMeansAccepted
  BY DEF NotificationInv, DeliveryInv, RowsGood, GoodRow, SentMeansAccepted
<1> QED
  BY <1>1, NotificationInvAlways, PTL

\* Two deliveries of one notification take turns, unless it was patched.
THEOREM SendsTakeTurnsAlways == Spec => []SendsTakeTurns
  BY PostingTakesTurns, NotificationInvAlways, PTL

\* A delivery that was committed stays on record.
THEOREM DeliveryIsOnRecordAlways == Spec => []DeliveryIsOnRecord
<1>1. NotificationInv => DeliveryIsOnRecord
  BY DEF NotificationInv, DeliveryInv, ShapeInv, TypeOK, OnRecord, DeliveryIsOnRecord
<1> QED
  BY <1>1, NotificationInvAlways, PTL

\* Template names are distinct, for every number of templates and sessions.
THEOREM TemplatesAlwaysDistinct == Spec => []TemplatesAreDistinct
<1>1. NotificationInv => TemplatesAreDistinct
  BY DEF NotificationInv, TemplateInv
<1> QED
  BY <1>1, NotificationInvAlways, PTL
=============================================================================
