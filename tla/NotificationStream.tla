------------------------- MODULE NotificationStream -------------------------
(***************************************************************************)
(* The notifications of one user and the server-sent event connections     *)
(* that announce them: notification-stream.service.ts, and the commit and  *)
(* publish halves of notifications.service.ts.                             *)
(*                                                                         *)
(* The database is the truth, the stream is a hint: rows are committed     *)
(* first and published after.  The server runs one callback at a time and  *)
(* switches at an await, so an action runs from one await to the next: the *)
(* drain of a connection asks the database whether the session is still    *)
(* good, and goes on when the answer is there.                             *)
(***************************************************************************)
EXTENDS Integers, Sequences, SequencesExt

CONSTANTS Notes,        \* ids of notifications of this user
          Conns,        \* connections, each opened at most once
          MaxPending    \* MAX_PENDING_EVENTS

ASSUME StreamAssumption == MaxPending \in Nat \ {0}

VARIABLES stored,       \* committed notification rows
          read,         \* those with a readAt
          publishing,   \* rows committed, publishCommitted still to run
          announcing,   \* read-state changes committed and not yet announced
          valid,        \* whether the session is good
          before,       \* history: the rows stored when the session was revoked
          conn,         \* the connections of the user
          told          \* history: what was written to each transport

streamVars ==
  <<stored, read, publishing, announcing, valid, before, conn, told>>
dbVars == <<stored, read, publishing, announcing>>

Created == [type : {"created"}, note : Notes]
Sync == [type |-> "sync_required"]
Changed == [type |-> "changed"]
Beat == [type |-> "heartbeat"]
Event == Created \union {Sync, Changed, Beat}

(***************************************************************************)
(* drain: IDLE, or processing: waiting for the session check (ASKING), or  *)
(* about to go on with its answer (ALLOWED, REFUSED).                      *)
(***************************************************************************)
Connection == [state : {"NEW", "OPEN", "CLOSED"},
               queue : Seq(Event),
               drain : {"IDLE", "ASKING", "ALLOWED", "REFUSED"}]

(***************************************************************************)
(* What a transport has carried: the rows of the created events, and the   *)
(* rows and read states that were in the database when the last event was  *)
(* written that asks the client to load them again.  What a client makes   *)
(* of the events is the module NotificationClient.                         *)
(***************************************************************************)
Told == [created : SUBSET Notes, rows : SUBSET Notes, read : SUBSET Notes]

StreamInit ==
  /\ stored = {} /\ read = {} /\ publishing = {} /\ announcing = 0
  /\ valid = TRUE /\ before = {}
  /\ conn = [c \in Conns |-> [state |-> "NEW", queue |-> <<>>, drain |-> "IDLE"]]
  /\ told = [c \in Conns |-> [created |-> {}, rows |-> {}, read |-> {}]]

----------------------------------------------------------------------------
\* Mutant: what is pending stays pending when the connection is removed.
RemovedWithQueue(k) == [k EXCEPT !.state = "CLOSED"]

\* removeConnection; terminate, which also ends the transport.
Removed(k) == [k EXCEPT !.state = "CLOSED", !.queue = <<>>]

\* Mutant: an event that does not fit is dropped.
EnqueuedOrDropped(k, event) ==
  IF k.state # "OPEN" \/ Len(k.queue) >= MaxPending THEN k
  ELSE [k EXCEPT !.queue = Append(@, event),
                 !.drain = IF @ = "IDLE" THEN "ASKING" ELSE @]

\* Mutant: the limit is looked at after the push.
EnqueuedOverLimit(k, event) ==
  IF k.state # "OPEN" THEN k
  ELSE IF Len(k.queue) > MaxPending THEN Removed(k)
  ELSE [k EXCEPT !.queue = Append(@, event),
                 !.drain = IF @ = "IDLE" THEN "ASKING" ELSE @]

\* enqueue: a full connection is closed; drain starts if it is not running.
Enqueued(k, event) ==
  IF k.state # "OPEN" THEN k
  ELSE IF Len(k.queue) >= MaxPending THEN Removed(k)
  ELSE [k EXCEPT !.queue = Append(@, event),
                 !.drain = IF @ = "IDLE" THEN "ASKING" ELSE @]

ToAll(event) == conn' = [c \in Conns |-> Enqueued(conn[c], event)]

----------------------------------------------------------------------------
(* Rows and their announcement.                                            *)

CommitNotification(n) ==
  /\ n \notin stored
  /\ stored' = stored \union {n}
  /\ publishing' = publishing \union {n}
  /\ UNCHANGED <<read, announcing, valid, before, conn, told>>

\* publishCommitted and publishCreated.
PublishCreated(n) ==
  /\ n \in publishing
  /\ publishing' = publishing \ {n}
  /\ ToAll([type |-> "created", note |-> n])
  /\ UNCHANGED <<stored, read, announcing, valid, before, told>>

\* markReadForUser, markAllReadForUser: only rows not read are written.
MarkRead(rows) ==
  /\ rows # {} /\ rows \subseteq stored \ read
  /\ read' = read \union rows
  /\ announcing' = announcing + 1
  /\ UNCHANGED <<stored, publishing, valid, before, conn, told>>

\* publishReadStateChanged and publishChanged.
PublishChanged ==
  /\ announcing > 0
  /\ announcing' = announcing - 1
  /\ ToAll(Changed)
  /\ UNCHANGED <<stored, read, publishing, valid, before, told>>

\* The session is revoked or expires, or its user is banned or deleted.
RevokeSession ==
  /\ valid
  /\ valid' = FALSE
  /\ before' = stored
  /\ UNCHANGED <<dbVars, conn, told>>

\* The server stops: connections and announcements under way are lost.
Restart ==
  /\ conn' = [c \in Conns |->
       IF conn[c].state = "NEW" THEN conn[c]
       ELSE [state |-> "CLOSED", queue |-> <<>>, drain |-> "IDLE"]]
  /\ publishing' = {} /\ announcing' = 0
  /\ UNCHANGED <<stored, read, valid, before, told>>

----------------------------------------------------------------------------
(* One connection.                                                         *)

\* connect: registered first, then told to load what is there.
Connect(c) ==
  /\ conn[c].state = "NEW" /\ valid
  /\ conn' = [conn EXCEPT ![c] = Enqueued([@ EXCEPT !.state = "OPEN"], Sync)]
  /\ UNCHANGED <<dbVars, valid, before, told>>

\* The client goes away: the teardown of the observable.
Disconnect(c) ==
  /\ conn[c].state = "OPEN"
  /\ conn' = [conn EXCEPT ![c] = Removed(@)]
  /\ UNCHANGED <<dbVars, valid, before, told>>

\* Mutant: the heartbeat is written to the transport at once.
HeartbeatAtOnce(c) ==
  /\ conn[c].state = "OPEN" /\ conn[c].queue = <<>> /\ conn[c].drain = "IDLE"
  /\ UNCHANGED streamVars

\* The interval: only when there is nothing else to send.
Heartbeat(c) ==
  /\ conn[c].state = "OPEN" /\ conn[c].queue = <<>> /\ conn[c].drain = "IDLE"
  /\ conn' = [conn EXCEPT ![c] = Enqueued(@, Beat)]
  /\ UNCHANGED <<dbVars, valid, before, told>>

\* isAuthorized is answered, or its query throws.
CheckSession(c) ==
  /\ conn[c].drain = "ASKING"
  /\ \E answer \in {"ALLOWED", "REFUSED"} :
       /\ answer = "ALLOWED" => valid
       /\ conn' = [conn EXCEPT ![c].drain = answer]
  /\ UNCHANGED <<dbVars, valid, before, told>>

\* History: what the transport has carried once event is written to it.
With(t, event) ==
  CASE event.type = "created" -> [t EXCEPT !.created = @ \union {event.note}]
    [] event.type \in {"sync_required", "changed"} ->
         [t EXCEPT !.rows = stored, !.read = read]
    [] event.type = "heartbeat" -> t

\* Mutant: the drain ends after one event.
DeliverOne(c) ==
  /\ conn[c].drain = "ALLOWED"
  /\ told' = [told EXCEPT ![c] =
       IF conn[c].queue = <<>> THEN @ ELSE With(@, Head(conn[c].queue))]
  /\ conn' = [conn EXCEPT
       ![c].queue = IF @ = <<>> THEN @ ELSE Tail(@), ![c].drain = "IDLE"]
  /\ UNCHANGED <<dbVars, valid, before>>

\* Mutant: one check lets the whole queue go.
DeliverAll(c) ==
  /\ conn[c].drain = "ALLOWED"
  /\ told' = [told EXCEPT ![c] = FoldLeft(With, @, conn[c].queue)]
  /\ conn' = [conn EXCEPT ![c].queue = <<>>, ![c].drain = "IDLE"]
  /\ UNCHANGED <<dbVars, valid, before>>

\* drain goes on: closed is not asked again, a closed queue is empty.
Deliver(c) ==
  /\ conn[c].drain = "ALLOWED"
  /\ IF conn[c].queue = <<>>
     THEN /\ conn' = [conn EXCEPT ![c].drain = "IDLE"]
          /\ UNCHANGED told
     ELSE /\ told' = [told EXCEPT ![c] = With(@, Head(conn[c].queue))]
          /\ conn' = [conn EXCEPT
               ![c].queue = Tail(@),
               ![c].drain = IF Len(conn[c].queue) > 1
                              /\ conn[c].state = "OPEN" THEN "ASKING" ELSE "IDLE"]
  /\ UNCHANGED <<dbVars, valid, before>>

Refuse(c) ==
  /\ conn[c].drain = "REFUSED"
  /\ conn' = [conn EXCEPT ![c] = Removed([@ EXCEPT !.drain = "IDLE"])]
  /\ UNCHANGED <<dbVars, valid, before, told>>

StreamNext ==
  \/ \E n \in Notes : CommitNotification(n) \/ PublishCreated(n)
  \/ \E rows \in SUBSET Notes : MarkRead(rows)
  \/ PublishChanged
  \/ RevokeSession
  \/ Restart
  \/ \E c \in Conns :
       \/ Connect(c)
       \/ Disconnect(c)
       \/ Heartbeat(c)
       \/ CheckSession(c)
       \/ Deliver(c)
       \/ Refuse(c)

(***************************************************************************)
(* Awaited queries settle, callbacks that are due run, and the interval of *)
(* a connection fires.  Nothing makes users act, sessions end or clients   *)
(* connect.                                                                *)
(***************************************************************************)
StreamFairness ==
  /\ \A n \in Notes : WF_streamVars(PublishCreated(n))
  /\ WF_streamVars(PublishChanged)
  /\ \A c \in Conns :
       /\ WF_streamVars(Heartbeat(c))
       /\ WF_streamVars(CheckSession(c))
       /\ WF_streamVars(Deliver(c))
       /\ WF_streamVars(Refuse(c))

StreamSpec == StreamInit /\ [][StreamNext]_streamVars /\ StreamFairness

----------------------------------------------------------------------------
(* Type correctness; no connection holds more than MAX_PENDING_EVENTS.     *)
StreamTypeOK ==
  /\ stored \in SUBSET Notes /\ read \in SUBSET Notes
  /\ publishing \in SUBSET Notes /\ announcing \in Nat
  /\ valid \in BOOLEAN /\ before \in SUBSET Notes
  /\ conn \in [Conns -> Connection]
  /\ \A c \in Conns : Len(conn[c].queue) <= MaxPending
  /\ told \in [Conns -> Told]

Awaits(c, event) == \E i \in DOMAIN conn[c].queue : conn[c].queue[i] = event

\* The transport has carried n: its own event, or one that asks to load it.
Carried(c, n) == n \in told[c].created \union told[c].rows

(* An open connection leaves no gap: every committed row and every read    *)
(* state was announced on its transport after it was committed, or its     *)
(* announcement is still to come.                                          *)
NothingIsMissed ==
  \A c \in Conns : conn[c].state = "OPEN" =>
    \/ Awaits(c, Sync)
    \/ /\ \A n \in stored :
            \/ Carried(c, n)
            \/ n \in publishing
            \/ Awaits(c, [type |-> "created", note |-> n])
       /\ read \subseteq told[c].read \/ announcing > 0 \/ Awaits(c, Changed)

(* A closed connection stays silent, even when its drain was waiting for   *)
(* the session check at the moment it was closed.                          *)
NothingAfterClose ==
  [][\A c \in Conns : conn[c].state = "CLOSED" => told'[c] = told[c]]_streamVars

(* No row written after the session was revoked is sent to its clients:    *)
(* the check of the session is older than the event it lets through by     *)
(* nothing but the wait for its answer.                                    *)
NothingNewAfterRevocation ==
  ~valid => \A c \in Conns : told[c].created \subseteq before

(* What is committed is announced to every open connection, or that        *)
(* connection is closed, and the next one starts with a sync.              *)
ToldOrClosed ==
  \A c \in Conns, n \in Notes :
    (n \in stored /\ conn[c].state = "OPEN")
      ~> (Carried(c, n) \/ conn[c].state = "CLOSED")

(* A connection does not outlive its session, even if nothing happens that *)
(* would have to be sent: the heartbeat finds out.                         *)
RevokedIsClosed ==
  \A c \in Conns :
    (~valid /\ conn[c].state = "OPEN") ~> conn[c].state = "CLOSED"
=============================================================================
