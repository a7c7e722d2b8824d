------------------------- MODULE NotificationClient -------------------------
(***************************************************************************)
(* One browser tab behind the stream: notificationStream.ts, which keeps   *)
(* one EventSource and opens the next when it fails, and                   *)
(* useServerNotifications.ts, which keeps the first page of the list in a  *)
(* query of react-query and changes it by what the events say.             *)
(*                                                                         *)
(* Events and answers travel apart: an event is written to a wire and      *)
(* handled later, a request is sent, answered by the database and applied  *)
(* in three steps, so an answer may be older than an event handled before  *)
(* it.  The first page is taken to hold the rows there are; in the code it *)
(* holds the newest NOTIFICATION_PAGE_SIZE.  Connections are numbered as   *)
(* the tab opens them.                                                     *)
(***************************************************************************)
EXTENDS NotificationStream

ASSUME ClientAssumption == Conns \subseteq Nat \ {0}

VARIABLES source,       \* the connection of the current EventSource
          wire,         \* events written to it and not yet handled
          query,        \* the list query of react-query
          overtaken     \* history: the list may lack what the tab was told of

NoConn == 0

tabVars == <<source, wire, query, overtaken>>
clientVars == <<streamVars, tabVars>>

(***************************************************************************)
(* fetch: no request, one that the database has not answered, or one whose *)
(* answer, page, has not arrived.                                          *)
(***************************************************************************)
Query == [loaded : BOOLEAN, list : SUBSET Notes,
          fetch : {"IDLE", "ASKED", "ANSWERED"}, page : SUBSET Notes]

ClientInit ==
  /\ StreamInit
  /\ source = NoConn /\ wire = <<>>
  /\ query = [loaded |-> FALSE, list |-> {}, fetch |-> "IDLE", page |-> {}]
  /\ overtaken = FALSE

----------------------------------------------------------------------------
(* The list query.                                                         *)

Asked(q) == [q EXCEPT !.fetch = "ASKED", !.page = {}]

\* The list is shown, the window gets the focus, the user presses retry.
AskList ==
  /\ query.fetch = "IDLE"
  /\ query' = Asked(query)
  /\ overtaken' = FALSE
  /\ UNCHANGED <<streamVars, source, wire>>

\* findForUser.
ReadList ==
  /\ query.fetch = "ASKED" /\ valid
  /\ query' = [query EXCEPT !.fetch = "ANSWERED", !.page = stored]
  /\ UNCHANGED <<streamVars, source, wire, overtaken>>

\* The answer replaces the list, with the events handled meanwhile.
ApplyList ==
  /\ query.fetch = "ANSWERED"
  /\ query' = [loaded |-> TRUE, list |-> query.page, fetch |-> "IDLE", page |-> {}]
  /\ overtaken' = (overtaken \/ query.list \ query.page # {})
  /\ UNCHANGED <<streamVars, source, wire>>

\* The request fails, or cancelQueries of a read mutation drops it.
DropList ==
  /\ query.fetch # "IDLE"
  /\ query' = [query EXCEPT !.fetch = "IDLE", !.page = {}]
  /\ overtaken' = TRUE
  /\ UNCHANGED <<streamVars, source, wire>>

\* Mutant: a request in flight is joined even when it is a refetch.
InvalidatedIfIdle(q) == IF q.fetch = "IDLE" THEN Asked(q) ELSE q

\* invalidateQueries: a refetch in flight is cancelled and sent again, the
\* first fetch is joined.
Invalidated(q) == IF q.loaded \/ q.fetch = "IDLE" THEN Asked(q) ELSE q

InvalidateList ==
  /\ query' = Invalidated(query)
  /\ overtaken' = IF query.loaded \/ query.fetch = "IDLE" THEN FALSE
                  ELSE overtaken \/ query.fetch = "ANSWERED"

----------------------------------------------------------------------------
(* The EventSource.                                                        *)

\* connect: one source at a time.
OpenSource(c) ==
  /\ source = NoConn
  /\ \A d \in Conns : conn[d].state = "NEW" => c <= d
  /\ Connect(c)
  /\ source' = c
  /\ UNCHANGED <<wire, query, overtaken>>

\* The server writes; nothing in the tab listens to a heartbeat.
Send(c) ==
  /\ Deliver(c)
  /\ wire' = IF c = source /\ conn[c].queue # <<>> /\ Head(conn[c].queue) # Beat
             THEN Append(wire, Head(conn[c].queue)) ELSE wire
  /\ UNCHANGED <<source, query, overtaken>>

\* onerror: what was not handled is lost, and a reconnect is scheduled.
SourceFails ==
  /\ source # NoConn
  /\ conn[source].state = "CLOSED"
  /\ source' = NoConn /\ wire' = <<>>
  /\ UNCHANGED <<streamVars, query, overtaken>>

\* sync, on sync_required and on changed.
SyncRequired ==
  /\ wire # <<>> /\ Head(wire).type \in {"sync_required", "changed"}
  /\ wire' = Tail(wire)
  /\ InvalidateList
  /\ UNCHANGED <<streamVars, source>>

\* onCreated: into the list that is there, else the list is asked for.  The
\* server announces a row once, so that seenCreatedIds finds nothing to drop.
NotificationCreated ==
  /\ wire # <<>> /\ Head(wire).type = "created"
  /\ wire' = Tail(wire)
  /\ IF query.loaded
     THEN /\ query' = [query EXCEPT !.list = @ \union {Head(wire).note}]
          /\ UNCHANGED overtaken
     ELSE InvalidateList
  /\ UNCHANGED <<streamVars, source>>

ServerStep ==
  \/ \E n \in Notes : CommitNotification(n) \/ PublishCreated(n)
  \/ \E rows \in SUBSET Notes : MarkRead(rows)
  \/ PublishChanged \/ RevokeSession \/ Restart
  \/ \E c \in Conns :
       Disconnect(c) \/ Heartbeat(c) \/ CheckSession(c) \/ Refuse(c)

ClientNext ==
  \/ ServerStep /\ UNCHANGED tabVars
  \/ AskList \/ ReadList \/ ApplyList \/ DropList
  \/ \E c \in Conns : OpenSource(c) \/ Send(c)
  \/ SourceFails \/ SyncRequired \/ NotificationCreated

\* The fairness is that of the server; the tab and the network owe nothing.
ClientSpec == ClientInit /\ [][ClientNext]_clientVars /\ StreamFairness

----------------------------------------------------------------------------
\* Connected, and nothing under way between the database and the list.
AtRest ==
  /\ source # NoConn
  /\ conn[source].state = "OPEN" /\ conn[source].queue = <<>>
  /\ conn[source].drain = "IDLE"
  /\ publishing = {} /\ wire = <<>> /\ query.fetch = "IDLE"

(* Events and answers together leave no row out, reconnects included,      *)
(* unless one of three things happened since the list was last asked for:  *)
(* an answer replaced a newer list, a sync joined the first fetch after    *)
(* the database had answered it, or a request was dropped.                 *)
ListCompleteUnlessOvertaken ==
  AtRest /\ ~overtaken => stored \subseteq query.list
=============================================================================
