------------------------------- MODULE LiveRoom -------------------------------
(***************************************************************************)
(* Who hears the live board: live-monitor.gateway.ts over the handlers of  *)
(* LiveMonitor.  A socket that connects is in the restaurant's room after  *)
(* two awaited queries, of its session and of its user's access; one that  *)
(* subscribes after one.  It leaves at once.  Messages are taken while a   *)
(* connection is still being checked, and access is not asked for again.   *)
(* The page behind a socket also fetches all tables over HTTP; like the    *)
(* socket it is known here by what the server sends it, and shows of each  *)
(* table what came last.                                                   *)
(***************************************************************************)
EXTENDS LiveMonitor

CONSTANTS Joiners,   \* connections and subscriptions that are being checked
          Sockets,   \* ids of sockets, never used twice
          Users, Nobody

ASSUME NobodyAssumption == Nobody \notin Users
ASSUME JoinersAssumption == Joiners \cap Sockets = {}

VARIABLES
  access,    \* users the restaurant lets in: its owner, its active staff
  link,      \* what a socket is: NEW, OPEN or CLOSED
  identity,  \* client.data.userId of a socket, Nobody before it is set
  joiners,   \* what handleConnection and subscribeToRestaurant wait for
  room,      \* sockets in the restaurant's room
  fetches,   \* requests for all tables, one of each page
  view,      \* per page and table, the snapshot it was sent last
  wish,      \* history: whether a socket asked last to be in the room
  refused,   \* history: sockets that were refused since they asked
  late,      \* history: joiners whose socket unsubscribed since they began,
             \* and sockets that such a joiner let in
  lapsed,    \* history: joiners and sockets in the room whose user lost
             \* access after it was checked
  behind     \* history: tables a page may not show right: it was not in the
             \* room for an emit, was sent one while it fetched, or its
             \* last fetch failed

sockets == <<link, identity, joiners, room>>
pages == <<fetches, view, behind>>
asked == <<wish, refused, late>>
roomVars == <<access, sockets, pages, asked, lapsed>>

Idle == [at |-> "idle"]
Fetched == [Tables -> Snapshots \union {Null}]
Open(s) == link[s] = "OPEN"

\* Joiners of a socket.
Of(s) == {j \in Joiners : joiners[j] # Idle /\ joiners[j].socket = s}

RoomTypeOK ==
  /\ TypeOK
  /\ access \subseteq Users
  /\ link \in [Sockets -> {"NEW", "OPEN", "CLOSED"}]
  /\ identity \in [Sockets -> Users \union {Nobody}]
  /\ joiners \in [Joiners -> {Idle} \union
       [at : {"token", "access", "join"}, socket : Sockets, user : Users,
        opening : BOOLEAN, joins : BOOLEAN]]
  /\ room \subseteq {s \in Sockets : Open(s) /\ identity[s] # Nobody}
  /\ fetches \in [Sockets -> {Idle} \union [at : {"orders", "answer"}, seen : Fetched]]
  /\ view \in [Sockets -> [Tables -> Snapshots \union {Null, Unsent}]]
  /\ wish \in [Sockets -> BOOLEAN] /\ refused \subseteq Sockets
  /\ late \subseteq Joiners \union Sockets /\ lapsed \subseteq Joiners \union Sockets
  /\ behind \in [Sockets -> SUBSET Tables]

RoomInit ==
  /\ Init
  /\ access = Users
  /\ link = [s \in Sockets |-> "NEW"] /\ identity = [s \in Sockets |-> Nobody]
  /\ joiners = [j \in Joiners |-> Idle] /\ room = {}
  /\ fetches = [s \in Sockets |-> Idle]
  /\ view = [s \in Sockets |-> [t \in Tables |-> Unsent]]
  /\ wish = [s \in Sockets |-> FALSE]
  /\ refused = {} /\ late = {} /\ lapsed = {}
  /\ behind = [s \in Sockets |-> {}]

-------------------------------------------------------------------------------
(* Connections and subscriptions.                                           *)

\* A socket is connected for user u, with the restaurant (joins) or without.
Connect(j, s, u, joins) ==
  /\ joiners[j] = Idle /\ link[s] = "NEW"
  /\ link' = [link EXCEPT ![s] = "OPEN"]
  /\ joiners' = [joiners EXCEPT ![j] = [at |-> "token", socket |-> s, user |-> u,
                                        opening |-> TRUE, joins |-> joins]]
  /\ wish' = [wish EXCEPT ![s] = joins]
  /\ UNCHANGED <<access, identity, room, pages, refused, late, lapsed>>

\* validateSessionToken: the session is there and not over.
Validate(j) ==
  /\ joiners[j].at = "token"
  /\ identity' = [identity EXCEPT ![joiners[j].socket] = joiners[j].user]
  /\ joiners' = [joiners EXCEPT ![j] = IF @.joins THEN [@ EXCEPT !.at = "access"] ELSE Idle]
  /\ late' = IF joiners[j].joins THEN late ELSE late \ {j}
  /\ UNCHANGED <<access, link, room, pages, wish, refused, lapsed>>

\* A subscription of who is known goes on at the given place.
Pending(j, s, at) ==
  /\ joiners[j] = Idle /\ Open(s) /\ identity[s] # Nobody
  /\ joiners' = [joiners EXCEPT ![j] = [at |-> at, socket |-> s, user |-> identity[s],
                                        opening |-> FALSE, joins |-> TRUE]]
  /\ wish' = [wish EXCEPT ![s] = TRUE]
  /\ refused' = refused \ {s}
  /\ UNCHANGED <<access, link, identity, room, pages, late, lapsed>>

\* Faulty: who is known needs no check.
SubscribeUnchecked(j, s) == Pending(j, s, "join")

\* subscribeToRestaurant, up to the query.
Subscribe(j, s) == Pending(j, s, "access")

\* The token is still being looked up: errors.invalid_payload.
SubscribeEarly(s) ==
  /\ Open(s) /\ identity[s] = Nobody
  /\ wish' = [wish EXCEPT ![s] = TRUE]
  /\ refused' = refused \union {s}
  /\ UNCHANGED <<access, sockets, pages, late, lapsed>>

\* ensureRestaurantAccess: the user may.  One query decides: of a member it is that
\* of the row, of an owner the one after it.
CheckAccess(j) ==
  /\ joiners[j].at = "access" /\ joiners[j].user \in access
  /\ joiners' = [joiners EXCEPT ![j].at = "join"]
  /\ UNCHANGED <<access, link, identity, room, pages, asked, lapsed>>

\* A joiner that has the mark hands it on to its socket.
HandOn(marked, j, s) == IF j \in marked THEN (marked \ {j}) \union {s} ELSE marked \ {s}

\* Faulty: a socket that has gone is put in the room.
JoinAnyway(j) ==
  LET s == joiners[j].socket IN
  /\ joiners[j].at = "join"
  /\ joiners' = [joiners EXCEPT ![j] = Idle]
  /\ room' = room \union {s}
  /\ late' = HandOn(late, j, s) /\ lapsed' = HandOn(lapsed, j, s)
  /\ UNCHANGED <<access, link, identity, pages, wish, refused>>

\* The handler goes on, and joins; a socket that has gone joins nothing.
Join(j) ==
  LET s == joiners[j].socket IN
  /\ joiners[j].at = "join"
  /\ joiners' = [joiners EXCEPT ![j] = Idle]
  /\ IF Open(s)
     THEN /\ room' = room \union {s}
          /\ late' = HandOn(late, j, s) /\ lapsed' = HandOn(lapsed, j, s)
     ELSE /\ room' = room
          /\ late' = late \ {j} /\ lapsed' = lapsed \ {j}
  /\ UNCHANGED <<access, link, identity, pages, wish, refused>>

\* Faulty: another room is left.
UnsubscribeElsewhere(s) ==
  /\ Open(s)
  /\ wish' = [wish EXCEPT ![s] = FALSE]
  /\ late' = (late \ {s}) \union Of(s)
  /\ refused' = refused \ {s}
  /\ UNCHANGED <<access, sockets, pages, lapsed>>

\* unsubscribeFromRestaurant leaves at once and asks nothing.
Unsubscribe(s) ==
  /\ Open(s)
  /\ room' = room \ {s}
  /\ wish' = [wish EXCEPT ![s] = FALSE]
  /\ late' = (late \ {s}) \union Of(s)
  /\ refused' = refused \ {s} /\ lapsed' = lapsed \ {s}
  /\ UNCHANGED <<access, link, identity, joiners, pages>>

\* Sockets go, with what their pages have.
Close(gone) ==
  /\ link' = [s \in Sockets |-> IF s \in gone THEN "CLOSED" ELSE link[s]]
  /\ room' = room \ gone
  /\ fetches' = [s \in Sockets |-> IF s \in gone THEN Idle ELSE fetches[s]]
  /\ view' = [s \in Sockets |-> IF s \in gone THEN [t \in Tables |-> Unsent] ELSE view[s]]
  /\ behind' = [s \in Sockets |-> IF s \in gone THEN {} ELSE behind[s]]
  /\ wish' = [s \in Sockets |-> wish[s] /\ s \notin gone]
  /\ refused' = refused \ gone

Disconnect(s) ==
  /\ Open(s)
  /\ Close({s})
  /\ late' = late \ {s} /\ lapsed' = lapsed \ {s}
  /\ UNCHANGED <<access, identity, joiners>>

\* No session, no access, or a query that fails: a connection is closed, and a
\* subscription answered with an error, which takes nobody out of the room.
Refuse(j) ==
  LET s == joiners[j].socket IN
  /\ joiners[j].at \in {"token", "access"}
  /\ joiners' = [joiners EXCEPT ![j] = Idle]
  /\ IF joiners[j].opening
     THEN /\ Close({x \in {s} : Open(x)})
          /\ late' = late \ {j, s} /\ lapsed' = lapsed \ {j, s}
     ELSE /\ refused' = IF Open(s) THEN refused \union {s} ELSE refused
          /\ late' = late \ {j} /\ lapsed' = lapsed \ {j}
          /\ UNCHANGED <<link, room, pages, wish>>
  /\ UNCHANGED <<access, identity>>

-------------------------------------------------------------------------------
(* The staff: a member is deactivated or deleted, or active again.          *)

Behind(u) == {s \in room : identity[s] = u} \union
             {j \in Joiners : joiners[j].at = "join" /\ joiners[j].user = u}

LoseAccess(u) ==
  /\ u \in access /\ access' = access \ {u}
  /\ lapsed' = lapsed \union Behind(u)
  /\ UNCHANGED <<sockets, pages, asked>>

GainAccess(u) ==
  /\ u \notin access /\ access' = access \union {u}
  /\ lapsed' = lapsed \ Behind(u)
  /\ UNCHANGED <<sockets, pages, asked>>

-------------------------------------------------------------------------------
(* getTablesWithActiveOrders, and the emits.                                *)

\* The rows of some tables.  What the page missed is made up for.
Fetching(s, ts) ==
  /\ Open(s) /\ fetches[s] = Idle
  /\ fetches' = [fetches EXCEPT ![s] =
       [at |-> "orders",
        seen |-> [t \in Tables |-> IF t \in ts THEN Snapshot(rowVersion[t], 0) ELSE Null]]]
  /\ behind' = [behind EXCEPT ![s] = {}]
  /\ UNCHANGED <<access, sockets, view, asked, lapsed>>

\* Faulty: tables that are not ACTIVE are read too.
FetchEveryTable(s) == Fetching(s, Tables)

\* The tables that are ACTIVE.
FetchTables(s) == Fetching(s, {t \in Tables : status[t] = "ACTIVE"})

\* Their orders, by a query of their own.
FetchOrders(s) ==
  /\ fetches[s].at = "orders"
  /\ fetches' = [fetches EXCEPT ![s] =
       [at |-> "answer",
        seen |-> [t \in Tables |->
                    IF @.seen[t] = Null THEN Null ELSE [@.seen[t] EXCEPT !.orders = orderVersion[t]]]]]
  /\ UNCHANGED <<access, sockets, view, behind, asked, lapsed>>

AnswerFetch(s) ==
  /\ fetches[s].at = "answer"
  /\ view' = [view EXCEPT ![s] = fetches[s].seen]
  /\ fetches' = [fetches EXCEPT ![s] = Idle]
  /\ UNCHANGED <<access, sockets, behind, asked, lapsed>>

\* A query fails, or the answer is lost: the page keeps what it had.
FailFetch(s) ==
  /\ fetches[s] # Idle
  /\ fetches' = [fetches EXCEPT ![s] = Idle]
  /\ behind' = [behind EXCEPT ![s] = Tables]
  /\ UNCHANGED <<access, sockets, view, asked, lapsed>>

\* Emit reaches who is in the room then.
Deliver(h) ==
  LET t == jobs[h].table IN
  /\ view' = [s \in Sockets |-> IF s \in room THEN [view[s] EXCEPT ![t] = jobs[h].seen] ELSE view[s]]
  /\ behind' = [s \in Sockets |->
       IF ~Open(s) THEN {}
       ELSE IF s \in room /\ fetches[s] = Idle THEN behind[s] \ {t} ELSE behind[s] \union {t}]
  /\ UNCHANGED <<access, sockets, fetches, asked, lapsed>>

\* The process restarts: every socket is gone, and who was being let in.
CloseAll ==
  /\ Close({s \in Sockets : Open(s)})
  /\ joiners' = [j \in Joiners |-> Idle]
  /\ late' = {} /\ lapsed' = {}
  /\ UNCHANGED <<access, identity>>

-------------------------------------------------------------------------------
Admission(j) ==
  \/ \E s \in Sockets : Subscribe(j, s) \/ \E u \in Users, joins \in BOOLEAN : Connect(j, s, u, joins)
  \/ Validate(j) \/ CheckAccess(j) \/ Join(j) \/ Refuse(j)

Page(s) ==
  \/ SubscribeEarly(s) \/ Unsubscribe(s) \/ Disconnect(s)
  \/ FetchTables(s) \/ FetchOrders(s) \/ AnswerFetch(s) \/ FailFetch(s)

RoomNext ==
  \/ Unheard /\ UNCHANGED roomVars
  \/ \E h \in Handlers : Emit(h) /\ Deliver(h)
  \/ Restart /\ CloseAll
  \/ UNCHANGED vars /\ \E j \in Joiners : Admission(j)
  \/ UNCHANGED vars /\ \E s \in Sockets : Page(s)
  \/ UNCHANGED vars /\ \E u \in Users : LoseAccess(u) \/ GainAccess(u)

\* A fetch that awaits a query is answered, or fails.
Answered(s) == FetchOrders(s) \/ AnswerFetch(s) \/ FailFetch(s)

RoomFairness == Fairness /\ \A s \in Sockets : WF_roomVars(UNCHANGED vars /\ Answered(s))

RoomSpec == RoomInit /\ [][RoomNext]_<<vars, roomVars>> /\ RoomFairness

-------------------------------------------------------------------------------
(* Properties.                                                              *)

\* A socket is in the room only if it asked last to be, or was let in by a
\* request that its unsubscribe had overtaken; and who asked last to be in it is,
\* once no request of it is under way, unless it was refused.
RoomIsAsAsked ==
  \A s \in Sockets :
    /\ s \in room => wish[s] \/ s \in late
    /\ wish[s] /\ Of(s) = {} => s \in room \union refused

\* The user of a socket in the room has access to the restaurant, or lost it
\* after it was checked: nobody asks again.
ListenersHaveAccess ==
  \A s \in room : identity[s] \in access \/ s \in lapsed

\* A page in the room that has fetched the tables shows each as it is when
\* nobody is busy announcing it, unless it was not in the room for an emit,
\* was sent one while it fetched or its fetch failed; or the table drifted.
PageIsCurrentWhenQuiet ==
  \A s \in Sockets : \A t \in Tables \ (drifted \union behind[s]) :
    view[s][t] \in {Unsent, Current(t)} \/ fetches[s] # Idle
      \/ \E h \in Handlers : jobs[h].at \in {"table", "orders", "emit"} /\ jobs[h].table = t

\* Every change of a table's row, or of its orders, that is made while a page that
\* shows the table is in the room comes to be shown by the page, or a later one is;
\* unless the page leaves the room or misses an emit, or the table drifted: its
\* change was not announced, the snapshot failed, or two announcements overlapped.
ListenersAreTold ==
  \A s \in Sockets, t \in Tables, n \in 1 .. MaxChanges, part \in {"row", "orders"} :
    (s \in room /\ view[s][t] # Unsent /\ Current(t) \in Snapshots /\ Current(t)[part] = n)
      ~> \/ s \notin room \/ t \in drifted \union behind[s]
         \/ view[s][t] \in Snapshots /\ view[s][t][part] >= n
===============================================================================
