---------------------------- MODULE LiveRoom_proofs ----------------------------
(***************************************************************************)
(* Proofs about the live board: of LiveMonitor, that the room is shown what *)
(* is so and in the order it was so, and that a waiter call is raised once; *)
(* and of LiveRoom, that the room holds who asked to be in it and may be,   *)
(* and that a page shows what is so.                                        *)
(***************************************************************************)
EXTENDS LiveRoom, TLAPS

-------------------------------------------------------------------------------
(* The inductive invariant of LiveMonitor.                                  *)

Announces(h, t) == jobs[h].at \in {"table", "orders", "emit"} /\ jobs[h].table = t
Announced(t) == \E h \in Handlers : Announces(h, t)
ByAnother(h, t) == \E g \in Handlers \ {h} : Announces(g, t)

\* What a handler knows at each place.
Fits(j) ==
  /\ j.at # "idle" => j.table \in Tables
  /\ j.at = "delete" => j.order \in OrderIds
  /\ j.at = "trigger" => j.call \in CallTypes
  /\ j.at = "orders" => j.seen \in Snapshots

JobsFit == \A h \in Handlers : Fits(jobs[h])

\* What a handler has read, and what was emitted, is of the past.
ReadIsPast ==
  \A h \in Handlers :
    LET j == jobs[h] IN
    j.at \in {"orders", "emit"} /\ j.seen \in Snapshots
      => j.seen.row <= rowVersion[j.table] /\ j.seen.orders <= orderVersion[j.table]

BoardIsPast ==
  \A t \in Tables :
    board[t] \in Snapshots => board[t].row <= rowVersion[t] /\ board[t].orders <= orderVersion[t]

\* What a handler has read is no older than what was emitted, unless another one
\* has emitted since the handler began to read...
ReadIsAhead ==
  \A h \in Handlers \ overlapped :
    LET j == jobs[h] IN
    j.at \in {"orders", "emit"} /\ j.seen \in Snapshots /\ board[j.table] \in Snapshots
      => /\ j.seen.row >= board[j.table].row
         /\ j.at = "emit" => j.seen.orders >= board[j.table].orders

\* ...and is what the table is now, unless another one is still to announce it.
ReadIsCurrent ==
  \A h \in Handlers \ overlapped :
    LET j == jobs[h] IN
    j.at \in {"orders", "emit"} /\ j.table \notin drifted /\ ~ByAnother(h, j.table)
      => /\ j.at = "orders" => status[j.table] = "ACTIVE" /\ j.seen.row = rowVersion[j.table]
         /\ j.at = "emit" => j.seen = Current(j.table)

\* A call that is about to be raised is not the active one, unless another
\* request has raised one since the table was read.
CallsDiffer ==
  \A h \in Handlers \ overlapped : jobs[h].at = "trigger" => calls[jobs[h].table] # jobs[h].call

MonitorInv ==
  /\ TypeOK /\ JobsFit
  /\ ReadIsPast /\ BoardIsPast /\ ReadIsAhead
  /\ ReadIsCurrent /\ BoardIsCurrentWhenQuiet
  /\ CallsDiffer

-------------------------------------------------------------------------------
(* The inductive invariant of LiveRoom.                                     *)

\* Only a socket that has been connected has requests, only an open one wants to be
\* in the room, and nothing is sent to the page of another.
SocketsFit ==
  \A s \in Sockets :
    /\ link[s] = "NEW" => Of(s) = {} /\ identity[s] = Nobody
    /\ wish[s] => Open(s)

PagesFit ==
  \A s \in Sockets : ~Open(s) => fetches[s] = Idle /\ view[s] = [t \in Tables |-> Unsent]

\* A joiner's socket has its user once the session is validated, and nobody before;
\* it wants to be in the room unless it unsubscribed or was closed since.
JoinerFits(j, q) ==
  /\ q.at = "token" => identity[q.socket] = Nobody
  /\ q.at # "token" => q.joins /\ identity[q.socket] = q.user
  /\ q.joins /\ Open(q.socket) => wish[q.socket] \/ j \in late
  /\ ~q.joins /\ wish[q.socket] => q.socket \in refused
  /\ q.at = "join" => q.user \in access \/ j \in lapsed

JoinersFit == \A j \in Joiners : joiners[j] # Idle => JoinerFits(j, joiners[j])

\* A socket is connected once.
OneConnection ==
  \A j, k \in Joiners :
    joiners[j].at = "token" /\ joiners[k].at = "token" /\ joiners[j].socket = joiners[k].socket
      => j = k

\* What a page is being sent of a table is so, as far as it has been read, unless the
\* table is still to be announced, drifted or was emitted meanwhile.
RowIsCurrent(row, t) ==
  IF status[t] = "ACTIVE" THEN row \in Snapshots /\ row.row = rowVersion[t] ELSE row = Null

FetchIsCurrent ==
  \A s \in Sockets : \A t \in Tables \ (drifted \union behind[s]) :
    ~Announced(t) =>
      /\ fetches[s].at = "orders" => RowIsCurrent(fetches[s].seen[t], t)
      /\ fetches[s].at = "answer" => fetches[s].seen[t] = Current(t)

Admitted == SocketsFit /\ JoinersFit /\ OneConnection /\ RoomIsAsAsked /\ ListenersHaveAccess

Shown == PagesFit /\ FetchIsCurrent /\ PageIsCurrentWhenQuiet

RoomInv == MonitorInv /\ RoomTypeOK /\ Admitted /\ Shown

-------------------------------------------------------------------------------
(* The jobs of handlers.                                                    *)

\* What is left to do once a change of the table is made.
Announcement(t) == [Done EXCEPT !.at = "table", !.table = t]

LEMMA DoneFits == Done \in Job /\ Fits(Done) /\ Done.at = "idle"
  BY DEF Done, Job, Fits

LEMMA AnnouncementFits ==
  ASSUME NEW t \in Tables
  PROVE  /\ Announcement(t) \in Job /\ Fits(Announcement(t))
         /\ Announcement(t).at = "table" /\ Announcement(t).table = t
  BY DEF Announcement, Done, Job, Fits

LEMMA JobsMove ==
  ASSUME jobs \in [Handlers -> Job], JobsFit, NEW h \in Handlers, NEW j \in Job, Fits(j),
         jobs' = [jobs EXCEPT ![h] = j]
  PROVE  /\ jobs' \in [Handlers -> Job] /\ JobsFit'
         /\ jobs'[h] = j /\ \A g \in Handlers : g # h => jobs'[g] = jobs[g]
<1>1. jobs' \in [Handlers -> Job] /\ jobs'[h] = j /\ \A g \in Handlers : g # h => jobs'[g] = jobs[g]
  OBVIOUS
<1>2. ASSUME NEW g \in Handlers PROVE Fits(jobs'[g])
  <2>1. PICK k \in Job : k = jobs'[g]
    BY <1>1
  <2>2. Fits(k)
    BY <1>1, <2>1 DEF JobsFit
  <2> QED BY <2>1, <2>2
<1> QED BY <1>1, <1>2 DEF JobsFit, Fits

\* No table's row or orders changes but one that drifts or is to be announced by a
\* handler that has not begun to read, and no announcement is given up.
Same(t) ==
  status'[t] = status[t] /\ rowVersion'[t] = rowVersion[t] /\ orderVersion'[t] = orderVersion[t]

ChangesAnnounced ==
  /\ drifted \subseteq drifted'
  /\ \A t \in Tables \ drifted' :
       /\ Same(t) \/ \E g \in Handlers : jobs'[g].at = "table" /\ jobs'[g].table = t
       /\ \A g \in Handlers : Announces(g, t) => Announces(g, t)'

\* A step that reads and emits nothing.
Commits ==
  /\ board' = board
  /\ \A t \in Tables : rowVersion'[t] >= rowVersion[t] /\ orderVersion'[t] >= orderVersion[t]
  /\ \A g \in Handlers :
       \/ jobs'[g] = jobs[g] /\ (g \in overlapped => g \in overlapped')
       \/ jobs'[g].at \notin {"orders", "emit"}
  /\ ChangesAnnounced

LEMMA CommitsKeep ==
  ASSUME MonitorInv, Commits, TypeOK', JobsFit', CallsDiffer'
  PROVE  MonitorInv'
<1>0. /\ TypeOK /\ JobsFit /\ ReadIsPast /\ BoardIsPast /\ ReadIsAhead /\ ReadIsCurrent
      /\ BoardIsCurrentWhenQuiet /\ ChangesAnnounced
  BY DEF MonitorInv, Commits
<1>1. BoardIsPast'
  <2> SUFFICES ASSUME NEW t \in Tables, board'[t] \in Snapshots
               PROVE  board'[t].row <= rowVersion'[t] /\ board'[t].orders <= orderVersion'[t]
    BY DEF BoardIsPast
  <2>1. board[t] \in Snapshots /\ board'[t] = board[t]
    BY DEF Commits
  <2>2. board[t].row <= rowVersion[t] /\ board[t].orders <= orderVersion[t]
    BY <1>0, <2>1 DEF BoardIsPast
  <2>3. /\ rowVersion[t] \in Nat /\ orderVersion[t] \in Nat
        /\ rowVersion'[t] \in Nat /\ orderVersion'[t] \in Nat
    BY <1>0, MaxChangesAssumption DEF TypeOK
  <2>4. rowVersion'[t] >= rowVersion[t] /\ orderVersion'[t] >= orderVersion[t]
    BY DEF Commits
  <2> QED BY <2>1, <2>2, <2>3, <2>4, MaxChangesAssumption DEF Snapshots
<1>2. ReadIsPast'
  <2> SUFFICES ASSUME NEW h \in Handlers, jobs'[h].at \in {"orders", "emit"}, jobs'[h].seen \in Snapshots
               PROVE  /\ jobs'[h].seen.row <= rowVersion'[jobs'[h].table]
                      /\ jobs'[h].seen.orders <= orderVersion'[jobs'[h].table]
    BY DEF ReadIsPast
  <2>1. PICK j \in Job : j = jobs[h] /\ j = jobs'[h]
    BY <1>0 DEF Commits, TypeOK
  <2>2. j.table \in Tables
    BY <1>0, <2>1 DEF JobsFit, Fits
  <2>3. j.seen.row <= rowVersion[j.table] /\ j.seen.orders <= orderVersion[j.table]
    BY <1>0, <2>1 DEF ReadIsPast
  <2>4. /\ rowVersion[j.table] \in Nat /\ orderVersion[j.table] \in Nat
        /\ rowVersion'[j.table] \in Nat /\ orderVersion'[j.table] \in Nat
    BY <1>0, <2>2, MaxChangesAssumption DEF TypeOK
  <2>5. rowVersion'[j.table] >= rowVersion[j.table] /\ orderVersion'[j.table] >= orderVersion[j.table]
    BY <2>2 DEF Commits
  <2> QED BY <2>1, <2>3, <2>4, <2>5, MaxChangesAssumption DEF Snapshots
<1>3. ReadIsAhead'
  <2> SUFFICES ASSUME NEW h \in Handlers \ overlapped', jobs'[h].at \in {"orders", "emit"},
                      jobs'[h].seen \in Snapshots, board'[jobs'[h].table] \in Snapshots
               PROVE  /\ jobs'[h].seen.row >= board'[jobs'[h].table].row
                      /\ jobs'[h].at = "emit" => jobs'[h].seen.orders >= board'[jobs'[h].table].orders
    BY DEF ReadIsAhead
  <2>1. jobs'[h] = jobs[h] /\ h \notin overlapped /\ board' = board
    BY DEF Commits
  <2> QED BY <1>0, <2>1 DEF ReadIsAhead
<1>4. ReadIsCurrent'
  <2> SUFFICES ASSUME NEW h \in Handlers \ overlapped', NEW j \in Job, j = jobs'[h],
                      j.at \in {"orders", "emit"}, j.table \notin drifted', ~ByAnother(h, j.table)'
               PROVE  /\ j.at = "orders" => status'[j.table] = "ACTIVE" /\ j.seen.row = rowVersion'[j.table]
                      /\ j.at = "emit" => j.seen = Current(j.table)'
    BY DEF ReadIsCurrent, Current, TypeOK
  <2>1. j = jobs[h]
    BY DEF Commits
  <2>2. h \notin overlapped
    BY <2>1 DEF Commits
  <2>3. j.table \in Tables \ drifted'
    BY <1>0, <2>1 DEF JobsFit, Fits
  <2>4. ~\E g \in Handlers \ {h} : jobs'[g].at \in {"table", "orders", "emit"} /\ jobs'[g].table = j.table
    BY DEF ByAnother, Announces
  <2>5. Same(j.table)
    BY <1>0, <2>1, <2>3, <2>4 DEF ChangesAnnounced
  <2>6. ~ByAnother(h, j.table)
    BY <1>0, <2>3, <2>4 DEF ChangesAnnounced, ByAnother, Announces
  <2>7. /\ j.at = "orders" => status[j.table] = "ACTIVE" /\ j.seen.row = rowVersion[j.table]
        /\ j.at = "emit" => j.seen = Current(j.table)
    BY <1>0, <2>1, <2>2, <2>3, <2>6 DEF ReadIsCurrent, ChangesAnnounced
  <2> QED BY <2>1, <2>5, <2>7 DEF Same, Current
<1>5. BoardIsCurrentWhenQuiet'
  <2> SUFFICES ASSUME NEW t \in Tables \ drifted', ~Announced(t)'
               PROVE  board'[t] = Unsent \/ board'[t] = Current(t)'
    BY DEF BoardIsCurrentWhenQuiet, Announced, Announces, Current
  <2>1. Same(t) /\ ~Announced(t)
    BY <1>0 DEF ChangesAnnounced, Announced, Announces
  <2>2. board[t] = Unsent \/ board[t] = Current(t)
    BY <1>0, <2>1 DEF BoardIsCurrentWhenQuiet, Announced, Announces, ChangesAnnounced
  <2> QED BY <2>1, <2>2 DEF Same, Current, Commits
<1> QED BY <1>1, <1>2, <1>3, <1>4, <1>5 DEF MonitorInv

LEMMA HandlerCommits ==
  ASSUME MonitorInv, TypeOK', NEW h \in Handlers, NEW j \in Job, Fits(j),
         jobs' = [jobs EXCEPT ![h] = j], j.at \notin {"orders", "emit"},
         board' = board, overlapped \ {h} \subseteq overlapped', drifted \subseteq drifted',
         \A t \in Tables : rowVersion'[t] >= rowVersion[t] /\ orderVersion'[t] >= orderVersion[t],
         \A t \in Tables \ drifted' : Same(t) \/ (j.at = "table" /\ j.table = t),
         \A t \in Tables \ drifted' : Announces(h, t) => j.at = "table" /\ j.table = t,
         CallsDiffer'
  PROVE  MonitorInv' /\ ChangesAnnounced
<1>1. /\ TypeOK /\ JobsFit
  BY DEF MonitorInv
<1>2. JobsFit' /\ jobs'[h] = j /\ \A g \in Handlers : g # h => jobs'[g] = jobs[g]
  BY <1>1, JobsMove DEF TypeOK
<1>3. ASSUME NEW t \in Tables \ drifted', NEW g \in Handlers, Announces(g, t)
      PROVE  Announces(g, t)'
  BY <1>2, <1>3 DEF Announces
<1>4. ChangesAnnounced
  BY <1>2, <1>3 DEF ChangesAnnounced
<1>5. Commits
  BY <1>2, <1>4 DEF Commits
<1> QED BY <1>2, <1>4, <1>5, CommitsKeep

\* Calls stay as they are.
LEMMA CallsKept ==
  ASSUME MonitorInv, NEW h \in Handlers, NEW j \in Job, jobs' = [jobs EXCEPT ![h] = j],
         overlapped \ {h} \subseteq overlapped', calls' = calls,
         j.at = "trigger" => calls[j.table] # j.call
  PROVE  CallsDiffer'
<1> SUFFICES ASSUME NEW g \in Handlers \ overlapped', NEW k \in Job, k = jobs'[g], k.at = "trigger"
             PROVE  calls'[k.table] # k.call
  BY DEF CallsDiffer, MonitorInv, TypeOK
<1>1. CASE g = h
  <2>1. k = j
    BY <1>1 DEF MonitorInv, TypeOK
  <2> QED BY <2>1
<1>2. CASE g # h
  <2>1. k = jobs[g] /\ g \notin overlapped
    BY <1>2
  <2> QED BY <2>1 DEF CallsDiffer, MonitorInv
<1> QED BY <1>1, <1>2

-------------------------------------------------------------------------------
(* The steps of LiveMonitor that emit nothing.                              *)

LEMMA MonitorInit == Init => MonitorInv
<1> SUFFICES ASSUME Init PROVE MonitorInv
  OBVIOUS
<1>1. TypeOK
  BY DoneFits, MaxChangesAssumption DEF Init, TypeOK
<1>2. \A h \in Handlers : jobs[h] = Done
  BY DEF Init
<1>3. JobsFit
  BY <1>2, DoneFits DEF JobsFit
<1>4. ReadIsPast /\ ReadIsAhead /\ ReadIsCurrent /\ CallsDiffer
  BY <1>2, DoneFits DEF ReadIsPast, ReadIsAhead, ReadIsCurrent, CallsDiffer
<1>5. \A t \in Tables : board[t] = Unsent
  BY DEF Init
<1>6. BoardIsPast /\ BoardIsCurrentWhenQuiet
  BY <1>5, SnapshotAssumption DEF BoardIsPast, BoardIsCurrentWhenQuiet
<1> QED BY <1>1, <1>3, <1>4, <1>6 DEF MonitorInv

\* A counted change leaves the versions typed and no earlier than they were.
LEMMA RowCounted ==
  ASSUME TypeOK, NEW t \in Tables, RowChanges(t), UNCHANGED orderVersion
  PROVE  /\ changes' \in 0 .. MaxChanges
         /\ rowVersion' \in [Tables -> 0 .. changes'] /\ orderVersion' \in [Tables -> 0 .. changes']
         /\ \A u \in Tables : rowVersion'[u] >= rowVersion[u] /\ orderVersion'[u] >= orderVersion[u]
         /\ \A u \in Tables : u # t => rowVersion'[u] = rowVersion[u]
  BY MaxChangesAssumption DEF TypeOK, RowChanges, Count

LEMMA OrdersCounted ==
  ASSUME TypeOK, NEW ts, OrdersChange(ts), UNCHANGED rowVersion
  PROVE  /\ changes' \in 0 .. MaxChanges
         /\ rowVersion' \in [Tables -> 0 .. changes'] /\ orderVersion' \in [Tables -> 0 .. changes']
         /\ \A u \in Tables : rowVersion'[u] >= rowVersion[u] /\ orderVersion'[u] >= orderVersion[u]
         /\ \A u \in Tables \ ts : orderVersion'[u] = orderVersion[u]
<1>1. /\ changes \in Nat /\ MaxChanges \in Nat /\ changes' = changes + 1 /\ changes < MaxChanges
      /\ rowVersion \in [Tables -> 0 .. changes] /\ orderVersion \in [Tables -> 0 .. changes]
      /\ orderVersion' = [t \in Tables |-> IF t \in ts THEN changes + 1 ELSE orderVersion[t]]
  BY MaxChangesAssumption DEF TypeOK, OrdersChange, Count
<1>2. ASSUME NEW u \in Tables
      PROVE  /\ orderVersion'[u] \in 0 .. changes' /\ orderVersion'[u] >= orderVersion[u]
             /\ u \notin ts => orderVersion'[u] = orderVersion[u]
  BY <1>1
<1>3. orderVersion' \in [Tables -> 0 .. changes']
  BY <1>1, <1>2
<1> QED BY <1>1, <1>2, <1>3

LEMMA PlaceOrderStep ==
  ASSUME MonitorInv, NEW h \in Handlers, NEW o \in OrderIds, NEW t \in Tables, PlaceOrder(h, o, t)
  PROVE  MonitorInv' /\ ChangesAnnounced
<1> DEFINE j == Announcement(t)
<1>0. /\ TypeOK /\ JobsFit /\ OrdersChange({t}) /\ jobs' = [jobs EXCEPT ![h] = j]
      /\ jobs[h].at = "idle" /\ place' = [place EXCEPT ![o] = t]
      /\ UNCHANGED <<status, calls, rowVersion, board, overlapped, drifted>>
  BY DEF MonitorInv, PlaceOrder, Announce, Announcement, rows, history
<1>1. j \in Job /\ Fits(j) /\ j.at = "table" /\ j.table = t
  BY AnnouncementFits
<1> HIDE DEF j
<1>2. jobs' \in [Handlers -> Job]
  BY <1>0, <1>1, JobsMove DEF TypeOK
<1>3. TypeOK'
  BY <1>0, <1>2, OrdersCounted DEF TypeOK
<1>4. CallsDiffer'
  BY <1>0, <1>1, CallsKept
<1>5. \A u \in Tables : u # t => Same(u)
  BY <1>0, OrdersCounted DEF Same
<1>6. \A u \in Tables : ~Announces(h, u)
  BY <1>0 DEF Announces
<1> QED BY <1>0, <1>1, <1>3, <1>4, <1>5, <1>6, OrdersCounted, HandlerCommits

LEMMA AmendOrderStep ==
  ASSUME MonitorInv, NEW h \in Handlers, NEW o \in OrderIds, NEW t \in Tables, AmendOrder(h, o, t)
  PROVE  MonitorInv' /\ ChangesAnnounced
<1> DEFINE j == Announcement(t)
<1>0. /\ TypeOK /\ JobsFit /\ OrdersChange({t, place[o]}) /\ jobs' = [jobs EXCEPT ![h] = j]
      /\ jobs[h].at = "idle" /\ place' = [place EXCEPT ![o] = t] /\ place[o] # NoTable
      /\ drifted' = drifted \union ({place[o]} \ {t})
      /\ UNCHANGED <<status, calls, rowVersion, board, overlapped>>
  BY DEF MonitorInv, AmendOrder, Announce, Announcement, rows
<1>1. j \in Job /\ Fits(j) /\ j.at = "table" /\ j.table = t
  BY AnnouncementFits
<1> HIDE DEF j
<1>2. jobs' \in [Handlers -> Job]
  BY <1>0, <1>1, JobsMove DEF TypeOK
<1>3. TypeOK'
  BY <1>0, <1>2, OrdersCounted DEF TypeOK
<1>4. CallsDiffer'
  BY <1>0, <1>1, CallsKept
<1>5. \A u \in Tables \ drifted' : u # t => Same(u)
  BY <1>0, OrdersCounted DEF Same
<1>6. \A u \in Tables : ~Announces(h, u)
  BY <1>0 DEF Announces
<1> QED BY <1>0, <1>1, <1>3, <1>4, <1>5, <1>6, OrdersCounted, HandlerCommits

LEMMA BeginDeleteStep ==
  ASSUME MonitorInv, NEW h \in Handlers, NEW o \in OrderIds, BeginDelete(h, o)
  PROVE  MonitorInv' /\ ChangesAnnounced
<1> DEFINE j == [Done EXCEPT !.at = "delete", !.order = o, !.table = place[o]]
<1>0. /\ TypeOK /\ JobsFit /\ jobs' = [jobs EXCEPT ![h] = j]
      /\ jobs[h].at = "idle" /\ place[o] # NoTable
      /\ UNCHANGED <<status, calls, rowVersion, orderVersion, changes, place, board, overlapped, drifted>>
  BY DEF MonitorInv, BeginDelete, rows, book, history
<1>1. j \in Job /\ Fits(j) /\ j.at = "delete"
  BY <1>0 DEF TypeOK, Done, Job, Fits
<1> HIDE DEF j
<1>2. jobs' \in [Handlers -> Job]
  BY <1>0, <1>1, JobsMove DEF TypeOK
<1>3. TypeOK'
  BY <1>0, <1>2 DEF TypeOK
<1>4. CallsDiffer'
  BY <1>0, <1>1, CallsKept
<1>5. \A u \in Tables : Same(u) /\ ~Announces(h, u)
  BY <1>0 DEF Same, Announces
<1>6. \A u \in Tables : rowVersion'[u] >= rowVersion[u] /\ orderVersion'[u] >= orderVersion[u]
  BY <1>0 DEF TypeOK
<1> QED BY <1>0, <1>1, <1>3, <1>4, <1>5, <1>6, HandlerCommits

LEMMA DeleteOrderStep ==
  ASSUME MonitorInv, NEW h \in Handlers, DeleteOrder(h)
  PROVE  MonitorInv' /\ ChangesAnnounced
<1> DEFINE o == jobs[h].order
           t == jobs[h].table
           j == Announcement(t)
<1>0. /\ TypeOK /\ JobsFit /\ jobs' = [jobs EXCEPT ![h] = j] /\ jobs[h].at = "delete"
      /\ \/ UNCHANGED <<place, orderVersion, changes, drifted>>
         \/ /\ OrdersChange({place[o]}) /\ place' = [place EXCEPT ![o] = NoTable]
            /\ drifted' = drifted \union ({place[o]} \ {t}) /\ place[o] # NoTable
      /\ UNCHANGED <<status, calls, rowVersion, board, overlapped>>
  BY DEF MonitorInv, DeleteOrder, Announce, Announcement, rows, book
<1>7. o \in OrderIds /\ t \in Tables
  BY <1>0 DEF JobsFit, Fits
<1>1. j \in Job /\ Fits(j) /\ j.at = "table" /\ j.table = t
  BY <1>7, AnnouncementFits
<1> HIDE DEF o, t, j
<1>2. jobs' \in [Handlers -> Job]
  BY <1>0, <1>1, JobsMove DEF TypeOK
<1>3. TypeOK'
  <2>1. CASE UNCHANGED <<place, orderVersion, changes, drifted>>
    BY <1>0, <1>2, <2>1 DEF TypeOK
  <2>2. CASE OrdersChange({place[o]})
    BY <1>0, <1>7, <1>2, <2>2, OrdersCounted DEF TypeOK
  <2> QED BY <1>0, <2>1, <2>2
<1>4. CallsDiffer'
  BY <1>0, <1>1, CallsKept
<1>5. \A u \in Tables \ drifted' : u # t => Same(u)
  BY <1>0, OrdersCounted DEF Same
<1>6. \A u \in Tables : ~Announces(h, u)
  BY <1>0 DEF Announces
<1>8. \A u \in Tables : rowVersion'[u] >= rowVersion[u] /\ orderVersion'[u] >= orderVersion[u]
  BY <1>0, OrdersCounted DEF TypeOK
<1> QED BY <1>0, <1>1, <1>3, <1>4, <1>5, <1>6, <1>8, HandlerCommits

LEMMA BeginTriggerStep ==
  ASSUME MonitorInv, NEW h \in Handlers, NEW t \in Tables, NEW type \in CallTypes,
         BeginTrigger(h, t, type)
  PROVE  MonitorInv' /\ ChangesAnnounced
<1> DEFINE j == [Done EXCEPT !.at = "trigger", !.table = t, !.call = type]
<1>1. /\ TypeOK /\ JobsFit /\ jobs' = [jobs EXCEPT ![h] = j]
      /\ jobs[h].at = "idle" /\ calls[t] # type
      /\ UNCHANGED <<status, calls, rowVersion, orderVersion, changes, place, board, overlapped, drifted>>
  BY DEF MonitorInv, BeginTrigger, rows, book, history
<1>2. j \in Job /\ Fits(j) /\ j.at = "trigger" /\ j.table = t /\ j.call = type
  BY <1>1 DEF Done, Job, Fits
<1> HIDE DEF j
<1>3. jobs' \in [Handlers -> Job]
  BY <1>1, <1>2, JobsMove DEF TypeOK
<1>4. TypeOK'
  BY <1>1, <1>3 DEF TypeOK
<1>5. CallsDiffer'
  BY <1>1, <1>2, CallsKept
<1>6. \A u \in Tables : Same(u) /\ ~Announces(h, u)
  BY <1>1 DEF Same, Announces
<1>7. \A u \in Tables : rowVersion'[u] >= rowVersion[u] /\ orderVersion'[u] >= orderVersion[u]
  BY <1>1 DEF TypeOK
<1> QED BY <1>1, <1>2, <1>4, <1>5, <1>6, <1>7, HandlerCommits

LEMMA RaiseCallStep ==
  ASSUME MonitorInv, NEW h \in Handlers, RaiseCall(h)
  PROVE  MonitorInv' /\ ChangesAnnounced
<1> DEFINE t == jobs[h].table
           j == Announcement(t)
<1>1. /\ TypeOK /\ JobsFit /\ RowChanges(t) /\ jobs' = [jobs EXCEPT ![h] = j]
      /\ jobs[h].at = "trigger" /\ calls' = [calls EXCEPT ![t] = jobs[h].call]
      /\ overlapped' = (overlapped \ {h}) \union
           {g \in Handlers \ {h} : jobs[g].at = "trigger" /\ jobs[g].table = t}
      /\ UNCHANGED <<status, orderVersion, place, board, drifted>>
  BY DEF MonitorInv, RaiseCall, Announce, Announcement, book
<1>2. t \in Tables /\ jobs[h].call \in CallTypes
  BY <1>1 DEF JobsFit, Fits
<1>3. j \in Job /\ Fits(j) /\ j.at = "table" /\ j.table = t
  BY <1>2, AnnouncementFits
<1> HIDE DEF t, j
<1>4. jobs' \in [Handlers -> Job]
  BY <1>1, <1>3, JobsMove DEF TypeOK
<1>5. TypeOK'
  BY <1>1, <1>2, <1>4, RowCounted DEF TypeOK
<1>6. CallsDiffer'
  <2> SUFFICES ASSUME NEW g \in Handlers \ overlapped', NEW k \in Job, k = jobs'[g], k.at = "trigger"
               PROVE  calls'[k.table] # k.call
    BY <1>4 DEF CallsDiffer
  <2>1. g # h /\ k = jobs[g]
    BY <1>1, <1>3 DEF TypeOK
  <2>2. g \notin overlapped /\ k.table # t
    BY <1>1, <2>1
  <2>3. calls[k.table] # k.call
    BY <2>1, <2>2 DEF MonitorInv, CallsDiffer
  <2>4. k.table \in Tables
    BY <1>1, <2>1 DEF JobsFit, Fits
  <2> QED BY <1>1, <2>2, <2>3, <2>4 DEF TypeOK
<1>7. \A u \in Tables : u # t => Same(u)
  BY <1>1, <1>2, RowCounted DEF Same
<1>8. \A u \in Tables : ~Announces(h, u)
  BY <1>1 DEF Announces
<1> QED BY <1>1, <1>2, <1>3, <1>5, <1>6, <1>7, <1>8, RowCounted, HandlerCommits

LEMMA DismissCallStep ==
  ASSUME MonitorInv, NEW h \in Handlers, NEW t \in Tables, DismissCall(h, t)
  PROVE  MonitorInv' /\ ChangesAnnounced
<1> DEFINE j == Announcement(t)
<1>1. /\ TypeOK /\ JobsFit /\ RowChanges(t) /\ jobs' = [jobs EXCEPT ![h] = j]
      /\ jobs[h].at = "idle" /\ calls' = [calls EXCEPT ![t] = "NONE"]
      /\ UNCHANGED <<status, orderVersion, place, board, overlapped, drifted>>
  BY DEF MonitorInv, DismissCall, Announce, Announcement, book, history
<1>2. j \in Job /\ Fits(j) /\ j.at = "table" /\ j.table = t
  BY AnnouncementFits
<1> HIDE DEF j
<1>3. jobs' \in [Handlers -> Job]
  BY <1>1, <1>2, JobsMove DEF TypeOK
<1>4. TypeOK'
  BY <1>1, <1>3, RowCounted DEF TypeOK
<1>5. CallsDiffer'
  <2> SUFFICES ASSUME NEW g \in Handlers \ overlapped', NEW k \in Job, k = jobs'[g], k.at = "trigger"
               PROVE  calls'[k.table] # k.call
    BY <1>3 DEF CallsDiffer
  <2>1. k = jobs[g] /\ g \notin overlapped
    BY <1>1, <1>2 DEF TypeOK
  <2>2. calls[k.table] # k.call
    BY <2>1 DEF MonitorInv, CallsDiffer
  <2>3. k.call \in CallTypes /\ k.table \in Tables
    BY <1>1, <2>1 DEF JobsFit, Fits
  <2> QED BY <1>1, <2>2, <2>3 DEF TypeOK, CallTypes
<1>6. \A u \in Tables : u # t => Same(u)
  BY <1>1, RowCounted DEF Same
<1>7. \A u \in Tables : ~Announces(h, u)
  BY <1>1 DEF Announces
<1> QED BY <1>1, <1>2, <1>4, <1>5, <1>6, <1>7, RowCounted, HandlerCommits

\* A handler gives up: in a snapshot, its table drifts.
LEMMA RejectStep ==
  ASSUME MonitorInv, NEW h \in Handlers, Reject(h) \/ FailSnapshot(h)
  PROVE  MonitorInv' /\ ChangesAnnounced
<1>1. /\ TypeOK /\ JobsFit /\ jobs' = [jobs EXCEPT ![h] = Done]
      /\ overlapped' = overlapped \ {h}
      /\ UNCHANGED <<status, calls, rowVersion, orderVersion, changes, place, board>>
  BY DEF MonitorInv, Reject, FailSnapshot, rows, book
<1>2. jobs' \in [Handlers -> Job]
  BY <1>1, DoneFits, JobsMove DEF TypeOK
<1>3. /\ drifted \subseteq drifted' /\ drifted' \subseteq Tables
      /\ \A t \in Tables \ drifted' : ~Announces(h, t)
  <2>1. CASE Reject(h)
    BY <1>1, <2>1 DEF Reject, Announces, TypeOK
  <2>2. CASE FailSnapshot(h)
    <3>1. jobs[h].table \in Tables /\ drifted' = drifted \union {jobs[h].table}
      BY <1>1, <2>2 DEF FailSnapshot, JobsFit, Fits
    <3> QED BY <1>1, <3>1 DEF Announces, TypeOK
  <2> QED BY <2>1, <2>2
<1>4. TypeOK'
  BY <1>1, <1>2, <1>3 DEF TypeOK
<1>5. CallsDiffer'
  BY <1>1, DoneFits, CallsKept
<1>6. \A u \in Tables : Same(u)
  BY <1>1 DEF Same
<1>7. \A u \in Tables : rowVersion'[u] >= rowVersion[u] /\ orderVersion'[u] >= orderVersion[u]
  BY <1>1 DEF TypeOK
<1> QED BY <1>1, <1>3, <1>4, <1>5, <1>6, <1>7, DoneFits, HandlerCommits

\* A change that nobody announces: the table drifts.
LEMMA SilentStep ==
  ASSUME MonitorInv, Silent
  PROVE  MonitorInv' /\ ChangesAnnounced
<1>0. TypeOK /\ JobsFit
  BY DEF MonitorInv
<1>1. /\ TypeOK' /\ drifted \subseteq drifted'
      /\ UNCHANGED <<calls, jobs, board, overlapped>>
      /\ \A t \in Tables : rowVersion'[t] >= rowVersion[t] /\ orderVersion'[t] >= orderVersion[t]
      /\ \A t \in Tables \ drifted' : Same(t)
  <2>1. CASE \E o \in OrderIds : SilentOrderChange(o)
    <3>1. PICK o \in OrderIds : SilentOrderChange(o)
      BY <2>1
    <3>2. /\ place[o] \in Tables /\ OrdersChange({place[o]}) /\ drifted' = drifted \union {place[o]}
          /\ \E t \in {place[o], NoTable} : place' = [place EXCEPT ![o] = t]
          /\ UNCHANGED <<status, calls, rowVersion, jobs, board, overlapped>>
      BY <1>0, <3>1 DEF SilentOrderChange, TypeOK, rows
    <3>3. TypeOK'
      BY <1>0, <3>2, OrdersCounted DEF TypeOK
    <3> QED BY <1>0, <3>2, <3>3, OrdersCounted DEF Same
  <2>2. CASE \E t \in Tables, new \in {"ACTIVE", "INACTIVE"} : UpdateTable(t, new)
    <3>1. PICK t \in Tables, new \in {"ACTIVE", "INACTIVE"} : UpdateTable(t, new)
      BY <2>2
    <3>2. /\ RowChanges(t) /\ drifted' = drifted \union {t} /\ status' = [status EXCEPT ![t] = new]
          /\ UNCHANGED <<calls, place, orderVersion, jobs, board, overlapped>>
      BY <3>1 DEF UpdateTable, book
    <3>3. TypeOK'
      BY <1>0, <3>2, RowCounted DEF TypeOK
    <3> QED BY <1>0, <3>2, <3>3, RowCounted DEF Same, TypeOK
  <2>3. CASE \E t \in Tables : DeleteTable(t)
    <3>1. PICK t \in Tables : DeleteTable(t)
      BY <2>3
    <3>2. TypeOK'
      BY <1>0, <3>1 DEF TypeOK, DeleteTable
    <3> QED BY <1>0, <3>1, <3>2 DEF DeleteTable, Same, TypeOK
  <2> QED BY <2>1, <2>2, <2>3 DEF Silent
<1>2. JobsFit' /\ CallsDiffer'
  BY <1>1 DEF MonitorInv, JobsFit, CallsDiffer, Fits
<1>3. ChangesAnnounced
  BY <1>1 DEF ChangesAnnounced, Announces
<1>4. Commits
  BY <1>1, <1>3 DEF Commits
<1> QED BY <1>1, <1>2, <1>3, <1>4, CommitsKeep

-------------------------------------------------------------------------------
(* The steps of LiveMonitor that read, emit or restart.                     *)

\* A handler reads on, and everything else stays.
LEMMA Reads ==
  ASSUME MonitorInv, NEW h \in Handlers, NEW j \in Job, Fits(j), jobs' = [jobs EXCEPT ![h] = j],
         jobs[h].at \in {"table", "orders"}, j.at \in {"orders", "emit"}, j.table = jobs[h].table,
         UNCHANGED <<rows, book, changes, board, history>>,
         j.seen \in Snapshots =>
           j.seen.row <= rowVersion[j.table] /\ j.seen.orders <= orderVersion[j.table],
         j.seen \in Snapshots /\ board[j.table] \in Snapshots /\ h \notin overlapped
           => /\ j.seen.row >= board[j.table].row
              /\ j.at = "emit" => j.seen.orders >= board[j.table].orders,
         h \notin overlapped /\ j.table \notin drifted /\ ~ByAnother(h, j.table)
           => /\ j.at = "orders" => status[j.table] = "ACTIVE" /\ j.seen.row = rowVersion[j.table]
              /\ j.at = "emit" => j.seen = Current(j.table)
  PROVE  MonitorInv' /\ ChangesAnnounced
<1>1. /\ TypeOK /\ JobsFit
      /\ UNCHANGED <<status, calls, rowVersion, orderVersion, changes, place, board, overlapped, drifted>>
  BY DEF MonitorInv, rows, book, history
<1>2. /\ jobs' \in [Handlers -> Job] /\ JobsFit' /\ jobs'[h] = j
      /\ \A g \in Handlers : g # h => jobs'[g] = jobs[g]
  BY <1>1, JobsMove DEF TypeOK
<1>3. TypeOK'
  BY <1>1, <1>2 DEF TypeOK
<1>4. CallsDiffer'
  BY <1>1, CallsKept
<1>5. ReadIsPast'
  <2> SUFFICES ASSUME NEW g \in Handlers, NEW k \in Job, k = jobs'[g],
                      k.at \in {"orders", "emit"}, k.seen \in Snapshots
               PROVE  k.seen.row <= rowVersion[k.table] /\ k.seen.orders <= orderVersion[k.table]
    BY <1>1, <1>2 DEF ReadIsPast
  <2>1. CASE g = h
    BY <1>2, <2>1
  <2>2. CASE g # h
    BY <1>2, <2>2 DEF MonitorInv, ReadIsPast
  <2> QED BY <2>1, <2>2
<1>6. ReadIsAhead'
  <2> SUFFICES ASSUME NEW g \in Handlers \ overlapped, NEW k \in Job, k = jobs'[g],
                      k.at \in {"orders", "emit"}, k.seen \in Snapshots, board[k.table] \in Snapshots
               PROVE  /\ k.seen.row >= board[k.table].row
                      /\ k.at = "emit" => k.seen.orders >= board[k.table].orders
    BY <1>1, <1>2 DEF ReadIsAhead
  <2>1. CASE g = h
    BY <1>2, <2>1
  <2>2. CASE g # h
    BY <1>2, <2>2 DEF MonitorInv, ReadIsAhead
  <2> QED BY <2>1, <2>2
<1>7. \A g \in Handlers, t \in Tables : Announces(g, t)' <=> Announces(g, t)
  BY <1>2 DEF Announces
<1>8. ReadIsCurrent'
  <2> SUFFICES ASSUME NEW g \in Handlers \ overlapped, NEW k \in Job, k = jobs'[g],
                      k.at \in {"orders", "emit"}, k.table \notin drifted, ~ByAnother(g, k.table)'
               PROVE  /\ k.at = "orders" => status[k.table] = "ACTIVE" /\ k.seen.row = rowVersion[k.table]
                      /\ k.at = "emit" => k.seen = Current(k.table)
    BY <1>1, <1>2 DEF ReadIsCurrent, Current
  <2>1. k.table \in Tables
    BY <1>2 DEF JobsFit, Fits
  <2>2. ~ByAnother(g, k.table)
    BY <1>7, <2>1 DEF ByAnother
  <2>3. CASE g = h
    BY <1>2, <2>2, <2>3
  <2>4. CASE g # h
    BY <1>2, <2>2, <2>4 DEF MonitorInv, ReadIsCurrent
  <2> QED BY <2>3, <2>4
<1>9. BoardIsPast' /\ BoardIsCurrentWhenQuiet'
  <2>1. BoardIsPast'
    BY <1>1 DEF MonitorInv, BoardIsPast
  <2>2. BoardIsCurrentWhenQuiet'
    BY <1>1, <1>7 DEF MonitorInv, BoardIsCurrentWhenQuiet, Announces, Current
  <2> QED BY <2>1, <2>2
<1>10. ChangesAnnounced
  BY <1>1, <1>7 DEF ChangesAnnounced, Same
<1> QED BY <1>2, <1>3, <1>4, <1>5, <1>6, <1>8, <1>9, <1>10 DEF MonitorInv

LEMMA ReadTableStep ==
  ASSUME MonitorInv, NEW h \in Handlers, ReadTable(h)
  PROVE  MonitorInv' /\ ChangesAnnounced
<1> DEFINE t == jobs[h].table
           active == [jobs[h] EXCEPT !.at = "orders", !.seen = Snapshot(rowVersion[t], 0)]
           gone == [jobs[h] EXCEPT !.at = "emit", !.seen = Null]
<1>1. /\ TypeOK /\ JobsFit /\ jobs[h] \in Job /\ jobs[h].at = "table" /\ t \in Tables
      /\ UNCHANGED <<rows, book, changes, board, history>>
  BY DEF MonitorInv, ReadTable, TypeOK, JobsFit, Fits
<1>2. rowVersion[t] \in 0 .. MaxChanges /\ orderVersion[t] \in 0 .. MaxChanges
  BY <1>1, MaxChangesAssumption DEF TypeOK
<1>3. CASE status[t] = "ACTIVE"
  <2>1. jobs' = [jobs EXCEPT ![h] = active]
    BY <1>1, <1>3 DEF ReadTable, TypeOK
  <2>2. /\ active \in Job /\ active.at = "orders" /\ active.table = t
        /\ active.seen \in Snapshots /\ active.seen.row = rowVersion[t] /\ active.seen.orders = 0
    <3>1. /\ Snapshot(rowVersion[t], 0) \in Snapshots
          /\ Snapshot(rowVersion[t], 0).row = rowVersion[t] /\ Snapshot(rowVersion[t], 0).orders = 0
      BY <1>2, MaxChangesAssumption DEF Snapshot, Snapshots
    <3> QED BY <1>1, <3>1 DEF Job
  <2> HIDE DEF active
  <2>3. Fits(active)
    BY <1>1, <2>2 DEF Fits
  <2>4. active.seen.row <= rowVersion[t] /\ active.seen.orders <= orderVersion[t]
    BY <1>2, <2>2, MaxChangesAssumption
  <2>5. board[t] \in Snapshots => active.seen.row >= board[t].row
    BY <1>1, <2>2 DEF MonitorInv, BoardIsPast, Snapshots
  <2> QED BY <1>1, <1>3, <2>1, <2>2, <2>3, <2>4, <2>5, Reads
<1>4. CASE status[t] # "ACTIVE"
  <2>1. jobs' = [jobs EXCEPT ![h] = gone]
    BY <1>1, <1>4 DEF ReadTable, TypeOK
  <2>2. gone \in Job /\ gone.at = "emit" /\ gone.table = t /\ gone.seen = Null
    BY <1>1 DEF Job
  <2> HIDE DEF gone
  <2>3. Fits(gone) /\ gone.seen \notin Snapshots /\ gone.seen = Current(t)
    BY <1>1, <1>4, <2>2, SnapshotAssumption DEF Fits, Current
  <2> QED BY <1>1, <2>1, <2>2, <2>3, Reads
<1> QED BY <1>3, <1>4

LEMMA ReadOrdersStep ==
  ASSUME MonitorInv, NEW h \in Handlers, ReadOrders(h)
  PROVE  MonitorInv' /\ ChangesAnnounced
<1> DEFINE t == jobs[h].table
           j == [jobs[h] EXCEPT !.at = "emit", !.seen.orders = orderVersion[t]]
<1>1. /\ TypeOK /\ JobsFit /\ jobs[h] \in Job /\ jobs[h].at = "orders" /\ t \in Tables
      /\ jobs[h].seen \in Snapshots
      /\ UNCHANGED <<rows, book, changes, board, history>>
  BY DEF MonitorInv, ReadOrders, TypeOK, JobsFit, Fits
<1>2. jobs' = [jobs EXCEPT ![h] = j]
  BY DEF ReadOrders, MonitorInv, TypeOK
<1>3. rowVersion[t] \in 0 .. MaxChanges /\ orderVersion[t] \in 0 .. MaxChanges
  BY <1>1, MaxChangesAssumption DEF TypeOK
<1>4. /\ j \in Job /\ j.at = "emit" /\ j.table = t
      /\ j.seen \in Snapshots /\ j.seen.row = jobs[h].seen.row /\ j.seen.orders = orderVersion[t]
      /\ j.seen = Snapshot(jobs[h].seen.row, orderVersion[t])
  BY <1>1, <1>3 DEF Job, Snapshots, Snapshot
<1> HIDE DEF j
<1>5. Fits(j)
  BY <1>1, <1>4 DEF Fits
<1>6. j.seen.row <= rowVersion[t] /\ j.seen.orders <= orderVersion[t]
  <2>1. jobs[h].seen.row <= rowVersion[t]
    BY <1>1 DEF MonitorInv, ReadIsPast
  <2> QED BY <1>3, <1>4, <2>1, MaxChangesAssumption
<1>7. board[t] \in Snapshots /\ h \notin overlapped
        => j.seen.row >= board[t].row /\ j.seen.orders >= board[t].orders
  <2> SUFFICES ASSUME board[t] \in Snapshots, h \notin overlapped
               PROVE  j.seen.row >= board[t].row /\ j.seen.orders >= board[t].orders
    OBVIOUS
  <2>1. jobs[h].seen.row >= board[t].row
    BY <1>1 DEF MonitorInv, ReadIsAhead
  <2>2. board[t].orders <= orderVersion[t]
    BY <1>1 DEF MonitorInv, BoardIsPast
  <2> QED BY <1>3, <1>4, <2>1, <2>2, MaxChangesAssumption DEF Snapshots
<1>8. h \notin overlapped /\ t \notin drifted /\ ~ByAnother(h, t) => j.seen = Current(t)
  <2> SUFFICES ASSUME h \notin overlapped, t \notin drifted, ~ByAnother(h, t)
               PROVE  j.seen = Current(t)
    OBVIOUS
  <2>1. status[t] = "ACTIVE" /\ jobs[h].seen.row = rowVersion[t]
    BY <1>1 DEF MonitorInv, ReadIsCurrent
  <2> QED BY <1>4, <2>1 DEF Current
<1> QED BY <1>1, <1>2, <1>4, <1>5, <1>6, <1>7, <1>8, Reads

LEMMA EmitStep ==
  ASSUME MonitorInv, NEW h \in Handlers, Emit(h)
  PROVE  MonitorInv'
<1> DEFINE t == jobs[h].table
           seen == jobs[h].seen
<1>1. /\ TypeOK /\ JobsFit /\ jobs[h] \in Job /\ jobs[h].at = "emit" /\ t \in Tables
      /\ seen \in Snapshots \union {Null}
      /\ board' = [board EXCEPT ![t] = seen] /\ jobs' = [jobs EXCEPT ![h] = Done]
      /\ overlapped' = (overlapped \ {h}) \union
           {g \in Handlers \ {h} : jobs[g].at \in {"orders", "emit"} /\ jobs[g].table = t}
      /\ drifted' = IF h \in overlapped THEN drifted \union {t} ELSE drifted
      /\ UNCHANGED <<status, calls, rowVersion, orderVersion, changes, place>>
  BY DEF MonitorInv, Emit, TypeOK, JobsFit, Fits, Job, rows, book
<1> HIDE DEF t, seen
<1>2. /\ jobs' \in [Handlers -> Job] /\ JobsFit' /\ jobs'[h] = Done
      /\ \A g \in Handlers : g # h => jobs'[g] = jobs[g]
  BY <1>1, DoneFits, JobsMove DEF TypeOK
<1>3. TypeOK'
  BY <1>1, <1>2 DEF TypeOK
<1>4. CallsDiffer'
  BY <1>1, DoneFits, CallsKept
\* The others are as they were; those that had read the table are overlapped.
<1>5. ASSUME NEW g \in Handlers, NEW k \in Job, k = jobs'[g], k.at \in {"table", "orders", "emit"}
      PROVE  /\ g # h /\ k = jobs[g] /\ k.table \in Tables
             /\ g \notin overlapped' /\ k.at # "table" => g \notin overlapped /\ k.table # t
  BY <1>1, <1>2, <1>5, DoneFits DEF JobsFit, Fits
<1>6. \A u \in Tables : u # t => board'[u] = board[u]
  BY <1>1
<1>7. board' \in [Tables -> Snapshots \union {Null, Unsent}] /\ board'[t] = seen
  BY <1>1 DEF TypeOK
<1>8. BoardIsPast'
  <2> SUFFICES ASSUME NEW u \in Tables, board'[u] \in Snapshots
               PROVE  board'[u].row <= rowVersion[u] /\ board'[u].orders <= orderVersion[u]
    BY <1>1 DEF BoardIsPast
  <2>1. CASE u = t
    BY <1>1, <1>7, <2>1 DEF MonitorInv, ReadIsPast, t, seen
  <2>2. CASE u # t
    BY <1>6, <2>2 DEF MonitorInv, BoardIsPast
  <2> QED BY <2>1, <2>2
<1>9. ReadIsPast'
  <2> SUFFICES ASSUME NEW g \in Handlers, NEW k \in Job, k = jobs'[g],
                      k.at \in {"orders", "emit"}, k.seen \in Snapshots
               PROVE  k.seen.row <= rowVersion[k.table] /\ k.seen.orders <= orderVersion[k.table]
    BY <1>1, <1>2 DEF ReadIsPast
  <2> QED BY <1>5 DEF MonitorInv, ReadIsPast
<1>10. ReadIsAhead'
  <2> SUFFICES ASSUME NEW g \in Handlers \ overlapped', NEW k \in Job, k = jobs'[g],
                      k.at \in {"orders", "emit"}, k.seen \in Snapshots, board'[k.table] \in Snapshots
               PROVE  /\ k.seen.row >= board'[k.table].row
                      /\ k.at = "emit" => k.seen.orders >= board'[k.table].orders
    BY <1>1, <1>2 DEF ReadIsAhead
  <2> QED BY <1>5, <1>6 DEF MonitorInv, ReadIsAhead
<1>11. ReadIsCurrent'
  <2> SUFFICES ASSUME NEW g \in Handlers \ overlapped', NEW k \in Job, k = jobs'[g],
                      k.at \in {"orders", "emit"}, k.table \notin drifted', ~ByAnother(g, k.table)'
               PROVE  /\ k.at = "orders" => status[k.table] = "ACTIVE" /\ k.seen.row = rowVersion[k.table]
                      /\ k.at = "emit" => k.seen = Current(k.table)
    BY <1>1, <1>2 DEF ReadIsCurrent, Current
  <2>1. k = jobs[g] /\ g \notin overlapped /\ k.table # t /\ k.table \notin drifted
    BY <1>1, <1>5
  <2>2. ~ByAnother(g, k.table)
    BY <1>2, <2>1 DEF ByAnother, Announces, t
  <2> QED BY <2>1, <2>2 DEF MonitorInv, ReadIsCurrent
<1>12. BoardIsCurrentWhenQuiet'
  <2> SUFFICES ASSUME NEW u \in Tables \ drifted', ~Announced(u)'
               PROVE  board'[u] = Unsent \/ board'[u] = Current(u)
    BY <1>1 DEF BoardIsCurrentWhenQuiet, Announced, Announces, Current
  <2>1. ~ByAnother(h, u)
    BY <1>2 DEF Announced, ByAnother, Announces
  <2>2. CASE u = t
    <3>1. h \notin overlapped /\ t \notin drifted
      BY <1>1, <2>2
    <3>2. seen = Current(t)
      BY <1>1, <2>1, <2>2, <3>1 DEF MonitorInv, ReadIsCurrent, t, seen
    <3> QED BY <1>7, <2>2, <3>2
  <2>3. CASE u # t
    <3>1. ~Announced(u) /\ u \notin drifted
      BY <1>1, <2>1, <2>3 DEF Announced, ByAnother, Announces, t
    <3> QED BY <1>6, <2>3, <3>1 DEF MonitorInv, BoardIsCurrentWhenQuiet, Announced, Announces
  <2> QED BY <2>2, <2>3
<1> QED BY <1>2, <1>3, <1>4, <1>8, <1>9, <1>10, <1>11, <1>12 DEF MonitorInv

LEMMA RestartStep ==
  ASSUME MonitorInv, Restart
  PROVE  MonitorInv'
<1>1. /\ TypeOK /\ jobs' = [h \in Handlers |-> Done] /\ board' = [t \in Tables |-> Unsent]
      /\ overlapped' = {} /\ drifted' = {}
      /\ UNCHANGED <<status, calls, rowVersion, orderVersion, changes, place>>
  BY DEF MonitorInv, Restart, rows, book
<1>2. TypeOK'
  BY <1>1, DoneFits DEF TypeOK
<1>3. \A h \in Handlers : jobs'[h] = Done
  BY <1>1
<1>4. JobsFit' /\ ReadIsPast' /\ ReadIsAhead' /\ ReadIsCurrent' /\ CallsDiffer'
  <2>1. JobsFit'
    BY <1>3, DoneFits DEF JobsFit, Fits
  <2> QED BY <1>3, <2>1, DoneFits DEF ReadIsPast, ReadIsAhead, ReadIsCurrent, CallsDiffer
<1>5. BoardIsPast' /\ BoardIsCurrentWhenQuiet'
  BY <1>1, SnapshotAssumption DEF BoardIsPast, BoardIsCurrentWhenQuiet
<1> QED BY <1>2, <1>4, <1>5 DEF MonitorInv

LEMMA MonitorStutter ==
  ASSUME MonitorInv, UNCHANGED vars
  PROVE  MonitorInv'
  BY DEF MonitorInv, vars, rows, book, history, TypeOK, JobsFit, Fits, ReadIsPast, BoardIsPast,
         ReadIsAhead, ReadIsCurrent, ByAnother, Announces, Current, BoardIsCurrentWhenQuiet, CallsDiffer

\* What no socket hears of is announced, or the table drifts.
LEMMA UnheardStep ==
  ASSUME MonitorInv, Unheard
  PROVE  MonitorInv' /\ ChangesAnnounced
  BY SilentStep, PlaceOrderStep, AmendOrderStep, BeginDeleteStep, DeleteOrderStep, BeginTriggerStep,
     RaiseCallStep, DismissCallStep, RejectStep, ReadTableStep, ReadOrdersStep
     DEF Unheard, Change, Continue

LEMMA MonitorStep == MonitorInv /\ [Next]_vars => MonitorInv'
  BY UnheardStep, EmitStep, RestartStep, MonitorStutter DEF Next

-------------------------------------------------------------------------------
(* Theorems about LiveMonitor.                                              *)

\* The inductive invariant holds in every state.
LEMMA MonitorInvariance == Spec => []MonitorInv
<1> QED BY MonitorInit, MonitorStep, PTL DEF Spec

\* When nobody is busy announcing a table, the room was told last what the table is
\* now, unless the table drifted: for any number of handlers, tables and orders.
THEOREM BoardIsCurrent == Spec => []BoardIsCurrentWhenQuiet
<1>1. MonitorInv => BoardIsCurrentWhenQuiet
  BY DEF MonitorInv
<1> QED BY MonitorInvariance, <1>1, PTL

\* The emits of a table to the room (emitOrdersChanged) are in the order of what they
\* say, unless one of them had begun to read before the one before was emitted.
THEOREM BoardInOrder == Spec => BoardGoesBackOnlyOnOverlap
<1> DEFINE GoesBack(t) ==
             (board[t] \in Snapshots /\ board'[t] \in Snapshots /\ ~AtLeast(board'[t], board[t]))
           ByOverlapped(t) ==
             \E h \in overlapped : jobs[h].at = "emit" /\ jobs[h].table = t /\ jobs'[h] = Done
           Step == \A t \in Tables : GoesBack(t) => ByOverlapped(t)
<1>1. ASSUME MonitorInv, [Next]_vars PROVE Step
  <2> SUFFICES ASSUME NEW t \in Tables, GoesBack(t) PROVE ByOverlapped(t)
    OBVIOUS
  <2>1. board'[t] # board[t]
    BY DEF AtLeast, Snapshots
  <2>2. ~Unheard
    BY <2>1 DEF Unheard, Silent, Change, Continue, SilentOrderChange, UpdateTable, DeleteTable,
                PlaceOrder, AmendOrder, BeginDelete, DeleteOrder, BeginTrigger, RaiseCall,
                DismissCall, Reject, FailSnapshot, ReadTable, ReadOrders
  <2>3. ~Restart /\ ~UNCHANGED vars
    BY <2>1, SnapshotAssumption DEF Restart, vars
  <2>4. PICK h \in Handlers : Emit(h)
    BY <1>1, <2>2, <2>3 DEF Next
  <2>5. /\ jobs[h].at = "emit" /\ jobs'[h] = Done /\ board' = [board EXCEPT ![jobs[h].table] = jobs[h].seen]
    BY <1>1, <2>4 DEF Emit, MonitorInv, TypeOK
  <2>6. jobs[h].table = t /\ board'[t] = jobs[h].seen
    BY <1>1, <2>1, <2>5 DEF MonitorInv, TypeOK
  <2>7. h \in overlapped
    BY <2>5, <2>6, <1>1 DEF MonitorInv, ReadIsAhead, AtLeast
  <2> QED BY <2>5, <2>6, <2>7
<1>2. MonitorInv /\ [Next]_vars => [Step]_vars
  BY <1>1
<1> QED BY MonitorInvariance, <1>2, PTL DEF Spec, BoardGoesBackOnlyOnOverlap

\* A waiter call is raised over one of its own type (triggerPublicCall) only by a
\* request that had read the table before that one was raised.
THEOREM CallRaisedOnce == Spec => CallRaisedTwiceOnlyOnOverlap
<1> DEFINE Step == \A h \in Handlers :
             (jobs[h].at = "trigger" /\ jobs'[h].at = "table" /\ calls[jobs[h].table] = jobs[h].call)
               => h \in overlapped
<1>1. MonitorInv => Step
  BY DEF MonitorInv, CallsDiffer
<1>2. MonitorInv /\ [Next]_vars => [Step]_vars
  BY <1>1
<1> QED BY MonitorInvariance, <1>2, PTL DEF Spec, CallRaisedTwiceOnlyOnOverlap

-------------------------------------------------------------------------------
(* What pages show.                                                         *)

LEMMA VarsKept == UNCHANGED vars => ChangesAnnounced
  BY DEF vars, rows, book, history, ChangesAnnounced, Same, Announces

\* The pages keep what they have.
LEMMA PagesKept ==
  ASSUME Shown, ChangesAnnounced, UNCHANGED <<fetches, view, behind>>,
         \A s \in Sockets : Open(s) => Open(s)'
  PROVE  Shown'
<1>1. PagesFit'
  BY DEF Shown, PagesFit
<1>2. ASSUME NEW t \in Tables \ drifted', ~Announced(t)'
      PROVE  ~Announced(t) /\ t \notin drifted /\ Same(t)
  BY <1>2 DEF ChangesAnnounced, Announced, Announces
<1>3. FetchIsCurrent'
  <2> SUFFICES ASSUME NEW s \in Sockets, NEW t \in Tables \ (drifted' \union behind[s]), ~Announced(t)'
               PROVE  /\ fetches[s].at = "orders" => RowIsCurrent(fetches[s].seen[t], t)'
                      /\ fetches[s].at = "answer" => fetches[s].seen[t] = Current(t)'
    BY DEF FetchIsCurrent, RowIsCurrent, Current
  <2>1. ~Announced(t) /\ t \notin drifted /\ Same(t)
    BY <1>2
  <2> QED BY <2>1 DEF Shown, FetchIsCurrent, Same, RowIsCurrent, Current
<1>4. PageIsCurrentWhenQuiet'
  <2> SUFFICES ASSUME NEW s \in Sockets, NEW t \in Tables \ (drifted' \union behind[s]), ~Announced(t)',
                      fetches[s] = Idle
               PROVE  view[s][t] \in {Unsent, Current(t)'}
    BY DEF PageIsCurrentWhenQuiet, Announced, Announces, Current
  <2>1. ~Announced(t) /\ t \notin drifted /\ Same(t)
    BY <1>2
  <2> QED BY <2>1 DEF Shown, PageIsCurrentWhenQuiet, Announced, Announces, Same, Current
<1> QED BY <1>1, <1>3, <1>4 DEF Shown

\* Some pages go, the rest keep what they have.
LEMMA PagesClosed ==
  ASSUME Shown, UNCHANGED vars, NEW gone, Close(gone)
  PROVE  Shown'
<1>1. UNCHANGED <<status, rowVersion, orderVersion, jobs, drifted>>
  BY DEF vars, rows, book, history
<1>2. ASSUME NEW s \in Sockets
      PROVE  \/ /\ s \in gone /\ ~Open(s)' /\ fetches'[s] = Idle
                /\ view'[s] = [t \in Tables |-> Unsent]
             \/ /\ s \notin gone /\ (Open(s)' <=> Open(s)) /\ fetches'[s] = fetches[s]
                /\ view'[s] = view[s] /\ behind'[s] = behind[s]
  BY <1>2 DEF Close, Open
<1>3. PagesFit'
  BY <1>2 DEF Shown, PagesFit
<1>4. FetchIsCurrent'
  <2> SUFFICES ASSUME NEW s \in Sockets, NEW t \in Tables \ (drifted \union behind'[s]), ~Announced(t)
               PROVE  /\ fetches'[s].at = "orders" => RowIsCurrent(fetches'[s].seen[t], t)
                      /\ fetches'[s].at = "answer" => fetches'[s].seen[t] = Current(t)
    BY <1>1 DEF FetchIsCurrent, RowIsCurrent, Current, Announced, Announces
  <2> QED BY <1>2 DEF Shown, FetchIsCurrent, Idle
<1>5. PageIsCurrentWhenQuiet'
  <2> SUFFICES ASSUME NEW s \in Sockets, NEW t \in Tables \ (drifted \union behind'[s]), ~Announced(t),
                      fetches'[s] = Idle
               PROVE  view'[s][t] \in {Unsent, Current(t)}
    BY <1>1 DEF PageIsCurrentWhenQuiet, Announced, Announces, Current
  <2> QED BY <1>2 DEF Shown, PageIsCurrentWhenQuiet, Announced, Announces
<1> QED BY <1>3, <1>4, <1>5 DEF Shown

\* One page goes on: what it fetches, shows and misses is as given, the rest stays.
LEMMA PageMoves ==
  ASSUME RoomTypeOK, Shown, UNCHANGED <<vars, link>>, NEW s \in Sockets, Open(s), NEW f, NEW v, NEW b,
         fetches' = [fetches EXCEPT ![s] = f], view' = [view EXCEPT ![s] = v],
         behind' = [behind EXCEPT ![s] = b],
         \A t \in Tables \ (drifted \union b) : ~Announced(t) =>
            /\ f.at = "orders" => RowIsCurrent(f.seen[t], t)
            /\ f.at = "answer" => f.seen[t] = Current(t)
            /\ f = Idle => v[t] \in {Unsent, Current(t)}
  PROVE  Shown'
<1>1. /\ UNCHANGED <<status, rowVersion, orderVersion, jobs, drifted>>
      /\ \A q \in Sockets : Open(q)' <=> Open(q)
  BY DEF vars, rows, book, history, Open
<1>2. ASSUME NEW q \in Sockets
      PROVE  \/ q = s /\ fetches'[q] = f /\ view'[q] = v /\ behind'[q] = b
             \/ q # s /\ fetches'[q] = fetches[q] /\ view'[q] = view[q] /\ behind'[q] = behind[q]
  BY DEF RoomTypeOK
<1>3. PagesFit'
  BY <1>1, <1>2 DEF Shown, PagesFit
<1>4. FetchIsCurrent'
  <2> SUFFICES ASSUME NEW q \in Sockets, NEW t \in Tables \ (drifted \union behind'[q]), ~Announced(t)
               PROVE  /\ fetches'[q].at = "orders" => RowIsCurrent(fetches'[q].seen[t], t)
                      /\ fetches'[q].at = "answer" => fetches'[q].seen[t] = Current(t)
    BY <1>1 DEF FetchIsCurrent, RowIsCurrent, Current, Announced, Announces
  <2> QED BY <1>2 DEF Shown, FetchIsCurrent
<1>5. PageIsCurrentWhenQuiet'
  <2> SUFFICES ASSUME NEW q \in Sockets, NEW t \in Tables \ (drifted \union behind'[q]), ~Announced(t),
                      fetches'[q] = Idle
               PROVE  view'[q][t] \in {Unsent, Current(t)}
    BY <1>1 DEF PageIsCurrentWhenQuiet, Announced, Announces, Current
  <2> QED BY <1>2 DEF Shown, PageIsCurrentWhenQuiet, Announced, Announces
<1> QED BY <1>3, <1>4, <1>5 DEF Shown

\* What a page fetches.
Fetch == [at : {"orders", "answer"}, seen : Fetched]

LEMMA Fetches ==
  ASSUME RoomTypeOK, Shown, NEW s \in Sockets, fetches[s] # Idle
  PROVE  fetches[s] \in Fetch /\ Open(s)
  BY DEF RoomTypeOK, Fetch, Shown, PagesFit

LEMMA FetchTablesShown ==
  ASSUME RoomTypeOK, Shown, UNCHANGED vars, NEW s \in Sockets, FetchTables(s)
  PROVE  Shown' /\ RoomTypeOK'
<1> DEFINE active == {t \in Tables : status[t] = "ACTIVE"}
           read == [t \in Tables |-> IF t \in active THEN Snapshot(rowVersion[t], 0) ELSE Null]
           f == [at |-> "orders", seen |-> read]
<1>1. /\ Open(s) /\ fetches' = [fetches EXCEPT ![s] = f] /\ behind' = [behind EXCEPT ![s] = {}]
      /\ UNCHANGED <<access, link, identity, joiners, room, view, wish, refused, late, lapsed>>
  BY DEF FetchTables, Fetching, sockets, asked
<1>2. ASSUME NEW t \in active
      PROVE  Snapshot(rowVersion[t], 0) \in Snapshots /\ Snapshot(rowVersion[t], 0).row = rowVersion[t]
  BY MaxChangesAssumption DEF RoomTypeOK, TypeOK, Snapshot, Snapshots
<1>3. read \in Fetched
  BY <1>2 DEF Fetched
<1>4. \A t \in Tables : RowIsCurrent(read[t], t)
  BY <1>2 DEF RowIsCurrent
<1>5. f \in Fetch /\ f.at = "orders" /\ f.seen = read /\ f # Idle
  BY <1>3 DEF Fetch, Idle
<1> HIDE DEF read, f, active
<1>6. view' = [view EXCEPT ![s] = view[s]]
  BY <1>1 DEF RoomTypeOK
<1>7. Shown'
  BY <1>1, <1>4, <1>5, <1>6, PageMoves DEF RoomTypeOK
<1>8. TypeOK' /\ RoomTypeOK'
  <2>1. TypeOK'
    BY DEF RoomTypeOK, TypeOK, vars, rows, book, history
  <2> QED BY <1>1, <1>5, <2>1 DEF RoomTypeOK, Open, Fetch
<1> QED BY <1>7, <1>8

LEMMA FetchOrdersShown ==
  ASSUME RoomTypeOK, Shown, UNCHANGED vars, NEW s \in Sockets, FetchOrders(s)
  PROVE  Shown' /\ RoomTypeOK'
<1> DEFINE old == fetches[s].seen
           read == [t \in Tables |->
                      IF old[t] = Null THEN Null ELSE [old[t] EXCEPT !.orders = orderVersion[t]]]
           f == [at |-> "answer", seen |-> read]
<1>1. /\ fetches[s].at = "orders" /\ fetches' = [fetches EXCEPT ![s] = f]
      /\ UNCHANGED <<access, link, identity, joiners, room, view, behind, wish, refused, late, lapsed>>
  BY DEF FetchOrders, sockets, asked, RoomTypeOK
<1>2. fetches[s] \in Fetch /\ Open(s) /\ old \in Fetched
  BY <1>1, Fetches DEF Fetch, Idle
<1>3. ASSUME NEW t \in Tables, old[t] # Null
      PROVE  /\ old[t] \in Snapshots /\ read[t] \in Snapshots
             /\ read[t] = Snapshot(old[t].row, orderVersion[t])
  <2>1. old[t] \in Snapshots
    BY <1>2, <1>3 DEF Fetched
  <2>2. orderVersion[t] \in 0 .. MaxChanges
    BY MaxChangesAssumption DEF RoomTypeOK, TypeOK
  <2> QED BY <1>3, <2>1, <2>2 DEF Snapshots, Snapshot
<1>4. \A t \in Tables : old[t] = Null => read[t] = Null
  OBVIOUS
<1>5. read \in Fetched
  BY <1>3 DEF Fetched
<1>6. ASSUME NEW t \in Tables \ (drifted \union behind[s]), ~Announced(t)
      PROVE  read[t] = Current(t)
  <2>1. RowIsCurrent(old[t], t)
    BY <1>1, <1>6 DEF Shown, FetchIsCurrent
  <2>2. CASE status[t] = "ACTIVE"
    <3>1. old[t] # Null /\ old[t].row = rowVersion[t]
      BY <2>1, <2>2, SnapshotAssumption DEF RowIsCurrent
    <3> QED BY <1>3, <2>2, <3>1 DEF Current
  <2>3. CASE status[t] # "ACTIVE"
    BY <1>4, <2>1, <2>3 DEF RowIsCurrent, Current
  <2> QED BY <2>2, <2>3
<1>7. f \in Fetch /\ f.at = "answer" /\ f.seen = read /\ f # Idle
  BY <1>5 DEF Fetch, Idle
<1> HIDE DEF old, read, f
<1>8. view' = [view EXCEPT ![s] = view[s]] /\ behind' = [behind EXCEPT ![s] = behind[s]]
  BY <1>1 DEF RoomTypeOK
<1>9. Shown'
  <2>1. \A t \in Tables \ (drifted \union behind[s]) : ~Announced(t) =>
            /\ f.at = "orders" => RowIsCurrent(f.seen[t], t)
            /\ f.at = "answer" => f.seen[t] = Current(t)
            /\ f = Idle => view[s][t] \in {Unsent, Current(t)}
    BY <1>6, <1>7
  <2>2. fetches' = [fetches EXCEPT ![s] = f] /\ Open(s) /\ UNCHANGED <<vars, link>>
    BY <1>1, <1>2
  <2> QED BY <1>8, <2>1, <2>2, PageMoves, Zenon
<1>10. RoomTypeOK'
  <2>1. TypeOK'
    BY DEF RoomTypeOK, TypeOK, vars, rows, book, history
  <2> QED BY <1>1, <1>7, <2>1 DEF RoomTypeOK, Open, Fetch
<1> QED BY <1>9, <1>10

LEMMA AnswerFetchShown ==
  ASSUME RoomTypeOK, Shown, UNCHANGED vars, NEW s \in Sockets, AnswerFetch(s)
  PROVE  Shown' /\ RoomTypeOK'
<1>1. /\ fetches[s].at = "answer" /\ view' = [view EXCEPT ![s] = fetches[s].seen]
      /\ fetches' = [fetches EXCEPT ![s] = Idle]
      /\ UNCHANGED <<access, link, identity, joiners, room, behind, wish, refused, late, lapsed>>
  BY DEF AnswerFetch, sockets, asked
<1>2. fetches[s] \in Fetch /\ Open(s) /\ fetches[s].seen \in Fetched
  BY <1>1, Fetches DEF Fetch, Idle
<1>3. behind' = [behind EXCEPT ![s] = behind[s]]
  BY <1>1 DEF RoomTypeOK
<1>4. \A t \in Tables \ (drifted \union behind[s]) :
        ~Announced(t) => fetches[s].seen[t] \in {Unsent, Current(t)}
  BY <1>1 DEF Shown, FetchIsCurrent
<1>5. Shown'
  BY <1>1, <1>2, <1>3, <1>4, PageMoves DEF Idle
<1>6. RoomTypeOK'
  <2>1. TypeOK'
    BY DEF RoomTypeOK, TypeOK, vars, rows, book, history
  <2>2. fetches[s].seen \in [Tables -> Snapshots \union {Null, Unsent}]
    BY <1>2 DEF Fetched
  <2> QED BY <1>1, <2>1, <2>2 DEF RoomTypeOK, Open
<1> QED BY <1>5, <1>6

LEMMA FailFetchShown ==
  ASSUME RoomTypeOK, Shown, UNCHANGED vars, NEW s \in Sockets, FailFetch(s)
  PROVE  Shown' /\ RoomTypeOK'
<1>1. /\ fetches[s] # Idle /\ fetches' = [fetches EXCEPT ![s] = Idle]
      /\ behind' = [behind EXCEPT ![s] = Tables]
      /\ UNCHANGED <<access, link, identity, joiners, room, view, wish, refused, late, lapsed>>
  BY DEF FailFetch, sockets, asked
<1>2. view' = [view EXCEPT ![s] = view[s]] /\ Open(s)
  BY <1>1, Fetches DEF RoomTypeOK
<1>3. Shown'
  BY <1>1, <1>2, PageMoves
<1>4. RoomTypeOK'
  <2>1. TypeOK'
    BY DEF RoomTypeOK, TypeOK, vars, rows, book, history
  <2> QED BY <1>1, <2>1 DEF RoomTypeOK, Open
<1> QED BY <1>3, <1>4

\* An emit reaches the room.
LEMMA DeliverShown ==
  ASSUME MonitorInv, RoomTypeOK, Shown, NEW h \in Handlers, Emit(h), Deliver(h)
  PROVE  Shown' /\ RoomTypeOK'
<1> DEFINE t == jobs[h].table
           seen == jobs[h].seen
<1>0. MonitorInv'
  BY EmitStep
<1>1. /\ TypeOK /\ JobsFit /\ t \in Tables /\ seen \in Snapshots \union {Null}
      /\ jobs[h].at = "emit" /\ board' = [board EXCEPT ![t] = seen] /\ jobs' = [jobs EXCEPT ![h] = Done]
      /\ drifted \subseteq drifted'
      /\ UNCHANGED <<status, rowVersion, orderVersion>>
  BY DEF MonitorInv, Emit, TypeOK, JobsFit, Fits, Job, rows, book
<1>2. /\ view' = [s \in Sockets |-> IF s \in room THEN [view[s] EXCEPT ![t] = seen] ELSE view[s]]
      /\ behind' = [s \in Sockets |->
           IF ~Open(s) THEN {}
           ELSE IF s \in room /\ fetches[s] = Idle THEN behind[s] \ {t} ELSE behind[s] \union {t}]
      /\ UNCHANGED <<access, link, identity, joiners, room, fetches, wish, refused, late, lapsed>>
  BY DEF Deliver, sockets, asked
<1> HIDE DEF t, seen
<1>3. ASSUME NEW u \in Tables \ drifted', ~Announced(u)'
      PROVE  /\ u = t => seen = Current(u)'
             /\ u # t => ~Announced(u) /\ u \notin drifted /\ Same(u)
  <2>1. ASSUME u = t PROVE seen = Current(u)'
    <3>1. board'[u] = seen
      BY <1>1, <2>1 DEF TypeOK
    <3>2. board'[u] = Unsent \/ board'[u] = Current(u)'
      BY <1>0, <1>3 DEF MonitorInv, BoardIsCurrentWhenQuiet, Announced, Announces, Current
    <3> QED BY <1>1, <3>1, <3>2, SnapshotAssumption
  <2>2. ASSUME u # t PROVE ~Announced(u) /\ u \notin drifted /\ Same(u)
    <3>1. ASSUME NEW g \in Handlers, Announces(g, u) PROVE FALSE
      <4>1. g # h
        BY <2>2, <3>1 DEF Announces, t
      <4>2. jobs'[g] = jobs[g]
        BY <1>1, <4>1 DEF TypeOK
      <4> QED BY <1>3, <3>1, <4>2 DEF Announced, Announces
    <3> QED BY <1>1, <3>1 DEF Announced, Same
  <2> QED BY <2>1, <2>2
<1>4. PagesFit'
  <2>1. \A s \in Sockets : s \in room => Open(s)
    BY DEF RoomTypeOK
  <2> QED BY <1>2, <2>1 DEF Shown, PagesFit, Open
<1>5. FetchIsCurrent'
  <2> SUFFICES ASSUME NEW s \in Sockets, NEW u \in Tables \ (drifted' \union behind'[s]), ~Announced(u)'
               PROVE  /\ fetches[s].at = "orders" => RowIsCurrent(fetches[s].seen[u], u)'
                      /\ fetches[s].at = "answer" => fetches[s].seen[u] = Current(u)'
    BY <1>2 DEF FetchIsCurrent, RowIsCurrent, Current
  <2>1. CASE fetches[s] = Idle
    BY <2>1 DEF Idle
  <2>2. CASE fetches[s] # Idle
    <3>1. u # t /\ u \notin behind[s]
      BY <1>2, <2>2, Fetches
    <3>2. ~Announced(u) /\ u \notin drifted /\ Same(u)
      BY <1>3, <3>1
    <3> QED BY <1>2, <3>1, <3>2 DEF Shown, FetchIsCurrent, RowIsCurrent, Current, Same
  <2> QED BY <2>1, <2>2
<1>6. PageIsCurrentWhenQuiet'
  <2> SUFFICES ASSUME NEW s \in Sockets, NEW u \in Tables \ (drifted' \union behind'[s]), ~Announced(u)',
                      fetches[s] = Idle
               PROVE  view'[s][u] \in {Unsent, Current(u)'}
    BY <1>2 DEF PageIsCurrentWhenQuiet, Announced, Announces, Current
  <2>1. view[s] \in [Tables -> Snapshots \union {Null, Unsent}]
    BY DEF RoomTypeOK
  <2>2. CASE s \in room /\ u = t
    BY <1>1, <1>2, <1>3, <2>1, <2>2
  <2>3. CASE Open(s) /\ u # t
    <3>1. view'[s][u] = view[s][u] /\ u \notin behind[s]
      BY <1>2, <2>1, <2>3
    <3>2. ~Announced(u) /\ u \notin drifted /\ Same(u)
      BY <1>3, <2>3
    <3> QED BY <3>1, <3>2 DEF Shown, PageIsCurrentWhenQuiet, Announced, Announces, Current, Same
  <2>4. CASE ~Open(s)
    BY <1>2, <2>4 DEF Shown, PagesFit, RoomTypeOK
  <2>5. CASE Open(s) /\ s \notin room /\ u = t
    BY <1>2, <2>5
  <2> QED BY <2>2, <2>3, <2>4, <2>5
<1>7. RoomTypeOK'
  <2>1. TypeOK'
    BY <1>0 DEF MonitorInv
  <2>2. view' \in [Sockets -> [Tables -> Snapshots \union {Null, Unsent}]]
    BY <1>1, <1>2 DEF RoomTypeOK
  <2>3. behind' \in [Sockets -> SUBSET Tables]
    BY <1>1, <1>2 DEF RoomTypeOK
  <2> QED BY <1>2, <2>1, <2>2, <2>3 DEF RoomTypeOK, Open
<1> QED BY <1>4, <1>5, <1>6, <1>7 DEF Shown

\* A restart leaves every page empty.
LEMMA CloseAllShown ==
  ASSUME MonitorInv, RoomTypeOK, Shown, Restart, CloseAll
  PROVE  Shown'
<1>1. ASSUME NEW s \in Sockets
      PROVE  fetches'[s] = Idle /\ view'[s] = [t \in Tables |-> Unsent]
  BY <1>1 DEF CloseAll, Close, Shown, PagesFit
<1>2. PagesFit'
  BY <1>1 DEF PagesFit
<1>3. FetchIsCurrent'
  BY <1>1 DEF FetchIsCurrent, Idle
<1>4. PageIsCurrentWhenQuiet'
  BY <1>1 DEF PageIsCurrentWhenQuiet
<1> QED BY <1>2, <1>3, <1>4 DEF Shown

-------------------------------------------------------------------------------
(* Who is in the room.                                                      *)

Joiner == [at : {"token", "access", "join"}, socket : Sockets, user : Users,
           opening : BOOLEAN, joins : BOOLEAN]

LEMMA JoinerKinds ==
  ASSUME NEW x \in {Idle} \union Joiner
  PROVE  /\ x # Idle <=> x.at \in {"token", "access", "join"}
         /\ x # Idle => x \in Joiner
  BY DEF Idle, Joiner

LEMMA JoinerMoves ==
  ASSUME RoomTypeOK, NEW j \in Joiners, NEW x \in {Idle} \union Joiner,
         joiners' = [joiners EXCEPT ![j] = x]
  PROVE  /\ joiners' \in [Joiners -> {Idle} \union Joiner] /\ joiners'[j] = x
         /\ \A k \in Joiners : k # j => joiners'[k] = joiners[k]
         /\ \A s, k : k # j => (k \in Of(s)' <=> k \in Of(s))
         /\ \A s : j \in Of(s)' <=> x # Idle /\ x.socket = s
<1>1. joiners \in [Joiners -> {Idle} \union Joiner]
  BY DEF RoomTypeOK, Joiner
<1>2. /\ joiners' \in [Joiners -> {Idle} \union Joiner] /\ joiners'[j] = x
      /\ \A k \in Joiners : k # j => joiners'[k] = joiners[k]
  BY <1>1
<1> QED BY <1>2 DEF Of

\* The types of what sockets and joiners have.
LEMMA AdmissionTypes ==
  ASSUME RoomTypeOK, UNCHANGED <<vars, fetches, view, behind>>,
         access' \subseteq Users, link' \in [Sockets -> {"NEW", "OPEN", "CLOSED"}],
         identity' \in [Sockets -> Users \union {Nobody}],
         joiners' \in [Joiners -> {Idle} \union Joiner],
         \A s \in room' : s \in Sockets /\ Open(s)' /\ identity'[s] # Nobody,
         wish' \in [Sockets -> BOOLEAN], refused' \subseteq Sockets,
         late' \subseteq Joiners \union Sockets, lapsed' \subseteq Joiners \union Sockets
  PROVE  RoomTypeOK'
<1>1. TypeOK'
  BY DEF RoomTypeOK, TypeOK, vars, rows, book, history
<1>2. room' \subseteq {s \in Sockets : Open(s)' /\ identity'[s] # Nobody}
  OBVIOUS
<1> QED BY <1>1, <1>2 DEF RoomTypeOK, Joiner, Open

LEMMA ConnectStep ==
  ASSUME RoomTypeOK, Admitted, UNCHANGED vars, NEW j \in Joiners, NEW s \in Sockets, NEW u \in Users,
         NEW joins \in BOOLEAN, Connect(j, s, u, joins)
  PROVE  RoomTypeOK' /\ Admitted'
<1> DEFINE x == [at |-> "token", socket |-> s, user |-> u, opening |-> TRUE, joins |-> joins]
<1>1. /\ joiners[j] = Idle /\ link[s] = "NEW" /\ link' = [link EXCEPT ![s] = "OPEN"]
      /\ joiners' = [joiners EXCEPT ![j] = x] /\ wish' = [wish EXCEPT ![s] = joins]
      /\ UNCHANGED <<access, identity, room, fetches, view, behind, refused, late, lapsed>>
  BY DEF Connect, pages
<1>2. x \in Joiner /\ x # Idle /\ x.at = "token" /\ x.socket = s /\ x.joins = joins
  BY DEF Joiner, Idle
<1> HIDE DEF x
<1>3. /\ joiners' \in [Joiners -> {Idle} \union Joiner] /\ joiners'[j] = x
      /\ \A k \in Joiners : k # j => joiners'[k] = joiners[k]
      /\ \A q, k : k # j => (k \in Of(q)' <=> k \in Of(q))
      /\ \A q : j \in Of(q)' <=> q = s
  BY <1>1, <1>2, JoinerMoves
<1>4. /\ \A q \in Sockets : q # s => link'[q] = link[q] /\ wish'[q] = wish[q]
      /\ link'[s] = "OPEN" /\ wish'[s] = joins
      /\ \A q \in Sockets : Open(q) => Open(q)' /\ q # s
  BY <1>1 DEF RoomTypeOK, Open
<1>5. Of(s) = {} /\ identity[s] = Nobody
  BY <1>1 DEF Admitted, SocketsFit
<1>6. \A k \in Joiners : k # j /\ joiners[k] # Idle => joiners[k].socket # s /\ joiners[k] \in Joiner
  BY <1>5, JoinerKinds DEF Of, RoomTypeOK, Joiner
<1>7. RoomTypeOK'
  BY <1>1, <1>3, <1>4, AdmissionTypes DEF RoomTypeOK
<1>8. SocketsFit'
  <2>1. ASSUME NEW q \in Sockets, link'[q] = "NEW" PROVE Of(q)' = {} /\ identity'[q] = Nobody
    <3>1. q # s /\ Of(q) = {} /\ identity[q] = Nobody
      BY <1>4, <2>1 DEF Admitted, SocketsFit
    <3>2. Of(q)' \subseteq Of(q)
      BY <1>3, <3>1
    <3> QED BY <1>1, <3>1, <3>2
  <2>2. ASSUME NEW q \in Sockets, wish'[q] PROVE Open(q)'
    BY <1>4, <2>2 DEF Admitted, SocketsFit, Open
  <2> QED BY <2>1, <2>2 DEF SocketsFit
<1>9. JoinersFit'
  <2> SUFFICES ASSUME NEW k \in Joiners, NEW q \in Joiner, q = joiners'[k], q # Idle
               PROVE  JoinerFits(k, q)'
    BY <1>3 DEF JoinersFit, JoinerFits, Open
  <2>1. CASE k = j
    BY <1>1, <1>2, <1>3, <1>4, <1>5, <2>1 DEF JoinerFits
  <2>2. CASE k # j
    <3>1. q = joiners[k] /\ q.socket # s /\ q.socket \in Sockets
      BY <1>3, <1>6, <2>2 DEF Joiner
    <3>2. JoinerFits(k, q)
      BY <3>1 DEF Admitted, JoinersFit
    <3> QED BY <1>1, <1>4, <3>1, <3>2 DEF JoinerFits, Open
  <2> QED BY <2>1, <2>2
<1>10. OneConnection'
  <2> SUFFICES ASSUME NEW k \in Joiners, NEW m \in Joiners, joiners'[k].at = "token",
                      joiners'[m].at = "token", joiners'[k].socket = joiners'[m].socket
               PROVE  k = m
    BY DEF OneConnection
  <2> QED BY <1>2, <1>3, <1>6 DEF Admitted, OneConnection, Idle
<1>11. RoomIsAsAsked'
  <2> SUFFICES ASSUME NEW q \in Sockets
               PROVE  /\ q \in room => wish'[q] \/ q \in late
                      /\ wish'[q] /\ Of(q)' = {} => q \in room \union refused
    BY <1>1 DEF RoomIsAsAsked
  <2>1. q \in room => q # s
    BY <1>4 DEF RoomTypeOK
  <2>2. Of(q)' = {} => q # s /\ Of(q) = {}
    BY <1>3, <1>1 DEF Of
  <2> QED BY <1>4, <2>1, <2>2 DEF Admitted, RoomIsAsAsked
<1>12. ListenersHaveAccess'
  BY <1>1 DEF Admitted, ListenersHaveAccess
<1> QED BY <1>7, <1>8, <1>9, <1>10, <1>11, <1>12 DEF Admitted

\* A joiner that is no longer asked for its session, or is done.
LEMMA JoinerGoesOn ==
  ASSUME RoomTypeOK, Admitted, NEW j \in Joiners, NEW x \in {Idle} \union Joiner,
         joiners' = [joiners EXCEPT ![j] = x], x.at # "token",
         x # Idle => link[x.socket] # "NEW",
         \A q \in Sockets : link'[q] = "NEW" => link[q] = "NEW" /\ identity'[q] = identity[q],
         \A q \in Sockets : wish'[q] => Open(q)'
  PROVE  SocketsFit' /\ OneConnection'
<1>1. /\ joiners' \in [Joiners -> {Idle} \union Joiner] /\ joiners'[j] = x
      /\ \A k \in Joiners : k # j => joiners'[k] = joiners[k]
      /\ \A q, k : k # j => (k \in Of(q)' <=> k \in Of(q))
      /\ \A q : j \in Of(q)' <=> x # Idle /\ x.socket = q
  <2>1. RoomTypeOK /\ joiners' = [joiners EXCEPT ![j] = x] /\ x \in {Idle} \union Joiner
    OBVIOUS
  <2> QED BY ONLY <2>1, j \in Joiners, JoinerMoves
<1>2. OneConnection'
  BY <1>1 DEF Admitted, OneConnection
<1>3. ASSUME NEW q \in Sockets, link'[q] = "NEW" PROVE Of(q)' = {} /\ identity'[q] = Nobody
  <2>1. link[q] = "NEW" /\ Of(q) = {} /\ identity[q] = Nobody /\ identity'[q] = identity[q]
    BY <1>3 DEF Admitted, SocketsFit
  <2>2. \A k : k \notin Of(q)'
    BY <1>1, <2>1
  <2> QED BY <2>1, <2>2
<1> QED BY <1>2, <1>3 DEF SocketsFit

\* Where a joiner is, its socket has been connected.
LEMMA JoinerAt ==
  ASSUME RoomTypeOK, Admitted, NEW j \in Joiners, joiners[j] # Idle
  PROVE  /\ joiners[j] \in Joiner /\ joiners[j].socket \in Sockets /\ joiners[j].user \in Users
         /\ link[joiners[j].socket] # "NEW" /\ JoinerFits(j, joiners[j])
<1>1. joiners[j] \in Joiner
  BY JoinerKinds DEF RoomTypeOK, Joiner
<1>2. joiners[j].socket \in Sockets /\ joiners[j].user \in Users
  BY <1>1 DEF Joiner
<1>3. j \in Of(joiners[j].socket)
  BY DEF Of
<1> QED BY <1>1, <1>2, <1>3 DEF Admitted, SocketsFit, JoinersFit

LEMMA ValidateStep ==
  ASSUME RoomTypeOK, Admitted, UNCHANGED vars, NEW j \in Joiners, Validate(j)
  PROVE  RoomTypeOK' /\ Admitted'
<1> DEFINE s == joiners[j].socket
           u == joiners[j].user
           x == IF joiners[j].joins THEN [joiners[j] EXCEPT !.at = "access"] ELSE Idle
<1>1. /\ joiners[j].at = "token" /\ identity' = [identity EXCEPT ![s] = u]
      /\ joiners' = [joiners EXCEPT ![j] = x]
      /\ late' = IF joiners[j].joins THEN late ELSE late \ {j}
      /\ UNCHANGED <<access, link, room, fetches, view, behind, wish, refused, lapsed>>
  BY DEF Validate, pages, RoomTypeOK
<1>2. /\ joiners[j] \in Joiner /\ joiners[j] # Idle /\ s \in Sockets /\ u \in Users /\ link[s] # "NEW"
      /\ JoinerFits(j, joiners[j]) /\ identity[s] = Nobody
  BY <1>1, JoinerAt DEF Idle, JoinerFits
<1>3. /\ x \in {Idle} \union Joiner /\ x.at # "token"
      /\ x # Idle <=> joiners[j].joins
      /\ x # Idle => x.at = "access" /\ x.socket = s /\ x.user = u /\ x.joins
  BY <1>2 DEF Joiner, Idle
<1> HIDE DEF x
<1>4. /\ joiners' \in [Joiners -> {Idle} \union Joiner] /\ joiners'[j] = x
      /\ \A k \in Joiners : k # j => joiners'[k] = joiners[k]
      /\ \A q, k : k # j => (k \in Of(q)' <=> k \in Of(q))
      /\ \A q : j \in Of(q)' <=> x # Idle /\ x.socket = q
  BY <1>1, <1>3, JoinerMoves
<1>5. /\ identity'[s] = u /\ \A q \in Sockets : q # s => identity'[q] = identity[q]
      /\ identity' \in [Sockets -> Users \union {Nobody}]
  BY <1>1, <1>2 DEF RoomTypeOK
<1>6. ASSUME NEW k \in Joiners, k # j, joiners[k] # Idle PROVE joiners[k].socket # s
  <2> SUFFICES ASSUME joiners[k].socket = s PROVE FALSE
    OBVIOUS
  <2>1. joiners[k] \in Joiner /\ JoinerFits(k, joiners[k])
    BY <1>6, JoinerAt
  <2>2. joiners[k].at # "token"
    BY <1>1, <1>6 DEF Admitted, OneConnection
  <2>3. joiners[k].user = Nobody
    BY <1>2, <2>1, <2>2 DEF JoinerFits
  <2> QED BY <2>1, <2>3, NobodyAssumption DEF Joiner
<1>7. s \notin room /\ j \notin Sockets
  BY <1>2, JoinersAssumption DEF RoomTypeOK
<1>8. RoomTypeOK'
  <2>1. \A q \in room : q \in Sockets /\ Open(q)' /\ identity'[q] # Nobody
    BY <1>1, <1>5, <1>7 DEF RoomTypeOK, Open
  <2>2. late' \subseteq Joiners \union Sockets
    BY <1>1 DEF RoomTypeOK
  <2> QED BY <1>1, <1>4, <1>5, <2>1, <2>2, AdmissionTypes DEF RoomTypeOK
<1>9. SocketsFit' /\ OneConnection'
  <2>1. \A q \in Sockets : link'[q] = "NEW" => link[q] = "NEW" /\ identity'[q] = identity[q]
    BY <1>1, <1>2, <1>5
  <2>2. \A q \in Sockets : wish'[q] => Open(q)'
    BY <1>1 DEF Admitted, SocketsFit, Open
  <2> QED BY <1>1, <1>2, <1>3, <2>1, <2>2, JoinerGoesOn
<1>10. JoinersFit'
  <2> SUFFICES ASSUME NEW k \in Joiners, NEW q \in Joiner, q = joiners'[k], q # Idle
               PROVE  JoinerFits(k, q)'
    BY <1>4, JoinerKinds DEF JoinersFit, JoinerFits, Open
  <2>1. CASE k = j
    BY <1>1, <1>2, <1>3, <1>4, <1>5, <2>1 DEF JoinerFits, Open
  <2>2. CASE k # j
    <3>1. q = joiners[k] /\ q.socket # s /\ q.socket \in Sockets
      BY <1>4, <1>6, <2>2 DEF Joiner
    <3>2. JoinerFits(k, q)
      BY <3>1 DEF Admitted, JoinersFit
    <3> QED BY <1>1, <1>5, <2>2, <3>1, <3>2 DEF JoinerFits, Open
  <2> QED BY <2>1, <2>2
<1>11. RoomIsAsAsked'
  <2> SUFFICES ASSUME NEW q \in Sockets
               PROVE  /\ q \in room => wish[q] \/ q \in late'
                      /\ wish[q] /\ Of(q)' = {} => q \in room \union refused
    BY <1>1 DEF RoomIsAsAsked
  <2>1. q \in room => wish[q] \/ q \in late'
    BY <1>1, <1>7 DEF Admitted, RoomIsAsAsked
  <2>2. ASSUME wish[q], Of(q)' = {} PROVE q \in room \union refused
    <3>1. CASE q = s
      BY <1>2, <1>3, <1>4, <2>2, <3>1 DEF JoinerFits
    <3>2. CASE q # s
      <4>1. Of(q) = {}
        BY <1>4, <2>2, <3>2 DEF Of
      <4> QED BY <2>2, <4>1 DEF Admitted, RoomIsAsAsked
    <3> QED BY <3>1, <3>2
  <2> QED BY <2>1, <2>2
<1>12. ListenersHaveAccess'
  <2>1. \A q \in room : q \in Sockets /\ q # s
    BY <1>7 DEF RoomTypeOK
  <2> QED BY <1>1, <1>5, <2>1 DEF Admitted, ListenersHaveAccess
<1> QED BY <1>8, <1>9, <1>10, <1>11, <1>12 DEF Admitted

LEMMA SubscribeStep ==
  ASSUME RoomTypeOK, Admitted, UNCHANGED vars, NEW j \in Joiners, NEW s \in Sockets, Subscribe(j, s)
  PROVE  RoomTypeOK' /\ Admitted'
<1> DEFINE x == [at |-> "access", socket |-> s, user |-> identity[s], opening |-> FALSE, joins |-> TRUE]
<1>1. /\ joiners[j] = Idle /\ Open(s) /\ identity[s] # Nobody
      /\ joiners' = [joiners EXCEPT ![j] = x]
      /\ wish' = [wish EXCEPT ![s] = TRUE] /\ refused' = refused \ {s}
      /\ UNCHANGED <<access, link, identity, room, fetches, view, behind, late, lapsed>>
  BY DEF Subscribe, Pending, pages
<1>2. /\ x \in {Idle} \union Joiner /\ x # Idle /\ x.at = "access" /\ x.socket = s /\ x.user = identity[s] /\ x.joins
  BY <1>1 DEF Joiner, Idle, RoomTypeOK
<1> HIDE DEF x
<1>3. /\ joiners' \in [Joiners -> {Idle} \union Joiner] /\ joiners'[j] = x
      /\ \A k \in Joiners : k # j => joiners'[k] = joiners[k]
      /\ \A q, k : k # j => (k \in Of(q)' <=> k \in Of(q))
      /\ \A q : j \in Of(q)' <=> x # Idle /\ x.socket = q
  BY <1>1, <1>2, JoinerMoves
<1>4. /\ wish' \in [Sockets -> BOOLEAN] /\ wish'[s]
      /\ \A q \in Sockets : q # s => wish'[q] = wish[q]
  BY <1>1 DEF RoomTypeOK
<1>5. RoomTypeOK'
  <2>1. \A q \in room : q \in Sockets /\ Open(q)' /\ identity[q] # Nobody
    BY <1>1 DEF RoomTypeOK, Open
  <2>2. refused' \subseteq Sockets
    BY <1>1 DEF RoomTypeOK
  <2> QED BY <1>1, <1>3, <1>4, <2>1, <2>2, AdmissionTypes DEF RoomTypeOK
<1>6. SocketsFit' /\ OneConnection'
  <2>1. \A q \in Sockets : link'[q] = "NEW" => link[q] = "NEW" /\ identity'[q] = identity[q]
    BY <1>1
  <2>2. \A q \in Sockets : wish'[q] => Open(q)'
    BY <1>1, <1>4 DEF Admitted, SocketsFit, Open
  <2>3. link[s] # "NEW"
    BY <1>1 DEF Open
  <2> QED BY <1>1, <1>2, <2>1, <2>2, <2>3, JoinerGoesOn
<1>7. JoinersFit'
  <2> SUFFICES ASSUME NEW k \in Joiners, NEW q \in Joiner, q = joiners'[k], q # Idle
               PROVE  JoinerFits(k, q)'
    BY <1>3, JoinerKinds DEF JoinersFit, JoinerFits, Open
  <2>1. CASE k = j
    BY <1>1, <1>2, <1>3, <1>4, <2>1 DEF JoinerFits, Open
  <2>2. CASE k # j
    <3>1. q = joiners[k] /\ q.socket \in Sockets
      BY <1>3, <2>2 DEF Joiner
    <3>2. JoinerFits(k, q)
      BY <3>1 DEF Admitted, JoinersFit
    <3>3. ~q.joins => q.socket # s
      BY <1>1, <3>2 DEF JoinerFits
    <3> QED BY <1>1, <1>4, <3>1, <3>2, <3>3 DEF JoinerFits, Open
  <2> QED BY <2>1, <2>2
<1>8. RoomIsAsAsked'
  <2> SUFFICES ASSUME NEW q \in Sockets
               PROVE  /\ q \in room => wish'[q] \/ q \in late
                      /\ wish'[q] /\ Of(q)' = {} => q \in room \union refused'
    BY <1>1 DEF RoomIsAsAsked
  <2>1. Of(q)' = {} => q # s /\ Of(q) = {}
    BY <1>1, <1>2, <1>3 DEF Of
  <2> QED BY <1>1, <1>4, <2>1 DEF Admitted, RoomIsAsAsked
<1>9. ListenersHaveAccess'
  BY <1>1 DEF Admitted, ListenersHaveAccess
<1> QED BY <1>5, <1>6, <1>7, <1>8, <1>9 DEF Admitted

LEMMA CheckAccessStep ==
  ASSUME RoomTypeOK, Admitted, UNCHANGED vars, NEW j \in Joiners, CheckAccess(j)
  PROVE  RoomTypeOK' /\ Admitted'
<1> DEFINE x == [joiners[j] EXCEPT !.at = "join"]
<1>1. /\ joiners[j].at = "access" /\ joiners[j].user \in access
      /\ joiners' = [joiners EXCEPT ![j] = x]
      /\ UNCHANGED <<access, link, identity, room, fetches, view, behind, wish, refused, late, lapsed>>
  BY DEF CheckAccess, pages, asked, RoomTypeOK
<1>2. /\ joiners[j] \in Joiner /\ joiners[j] # Idle /\ link[joiners[j].socket] # "NEW"
      /\ JoinerFits(j, joiners[j])
  BY <1>1, JoinerAt DEF Idle
<1>3. /\ x \in {Idle} \union Joiner /\ x # Idle /\ x.at = "join" /\ x.socket = joiners[j].socket
      /\ x.user = joiners[j].user /\ x.joins = joiners[j].joins
  BY <1>2 DEF Joiner, Idle
<1> HIDE DEF x
<1>4. /\ joiners' \in [Joiners -> {Idle} \union Joiner] /\ joiners'[j] = x
      /\ \A k \in Joiners : k # j => joiners'[k] = joiners[k]
      /\ \A q, k : k # j => (k \in Of(q)' <=> k \in Of(q))
      /\ \A q : j \in Of(q)' <=> x # Idle /\ x.socket = q
  BY <1>1, <1>3, JoinerMoves
<1>5. RoomTypeOK'
  <2>1. \A q \in room : q \in Sockets /\ Open(q)' /\ identity[q] # Nobody
    BY <1>1 DEF RoomTypeOK, Open
  <2> QED BY <1>1, <1>4, <2>1, AdmissionTypes DEF RoomTypeOK
<1>6. SocketsFit' /\ OneConnection'
  <2>1. \A q \in Sockets : link'[q] = "NEW" => link[q] = "NEW" /\ identity'[q] = identity[q]
    BY <1>1
  <2>2. \A q \in Sockets : wish'[q] => Open(q)'
    BY <1>1 DEF Admitted, SocketsFit, Open
  <2> QED BY <1>1, <1>2, <1>3, <2>1, <2>2, JoinerGoesOn
<1>7. JoinersFit'
  <2> SUFFICES ASSUME NEW k \in Joiners, NEW q \in Joiner, q = joiners'[k], q # Idle
               PROVE  JoinerFits(k, q)'
    BY <1>4, JoinerKinds DEF JoinersFit, JoinerFits, Open
  <2>1. CASE k = j
    <3>1. joiners[j].joins /\ identity[x.socket] = x.user
      BY <1>1, <1>2, <1>3 DEF JoinerFits
    <3> QED BY <1>1, <1>2, <1>3, <1>4, <2>1, <3>1 DEF JoinerFits, Open
  <2>2. CASE k # j
    <3>1. q = joiners[k]
      BY <1>4, <2>2
    <3>2. JoinerFits(k, q)
      BY <3>1 DEF Admitted, JoinersFit
    <3> QED BY <1>1, <3>2 DEF JoinerFits, Open
  <2> QED BY <2>1, <2>2
<1>8. RoomIsAsAsked'
  <2> SUFFICES ASSUME NEW q \in Sockets
               PROVE  /\ q \in room => wish[q] \/ q \in late
                      /\ wish[q] /\ Of(q)' = {} => q \in room \union refused
    BY <1>1 DEF RoomIsAsAsked
  <2>1. Of(q)' = {} => Of(q) = {}
    BY <1>3, <1>4 DEF Of
  <2> QED BY <2>1 DEF Admitted, RoomIsAsAsked
<1>9. ListenersHaveAccess'
  BY <1>1 DEF Admitted, ListenersHaveAccess
<1> QED BY <1>5, <1>6, <1>7, <1>8, <1>9 DEF Admitted

\* A mark that is handed on stays with who else has it.
LEMMA HandedOn ==
  ASSUME NEW marked, NEW j, NEW s, j # s
  PROVE  /\ s \in HandOn(marked, j, s) <=> j \in marked
         /\ \A m : m # j /\ m # s => (m \in HandOn(marked, j, s) <=> m \in marked)
         /\ HandOn(marked, j, s) \subseteq marked \union {s}
  BY DEF HandOn

LEMMA JoinStep ==
  ASSUME RoomTypeOK, Admitted, UNCHANGED vars, NEW j \in Joiners, Join(j)
  PROVE  RoomTypeOK' /\ Admitted'
<1> DEFINE s == joiners[j].socket
<1>1. /\ joiners[j].at = "join" /\ joiners' = [joiners EXCEPT ![j] = Idle]
      /\ \/ /\ Open(s) /\ room' = room \union {s}
            /\ late' = HandOn(late, j, s) /\ lapsed' = HandOn(lapsed, j, s)
         \/ ~Open(s) /\ room' = room /\ late' = late \ {j} /\ lapsed' = lapsed \ {j}
      /\ UNCHANGED <<access, link, identity, fetches, view, behind, wish, refused>>
  BY DEF Join, pages
<1>2. /\ joiners[j] \in Joiner /\ joiners[j] # Idle /\ s \in Sockets /\ j # s
      /\ joiners[j].user \in Users
      /\ joiners[j].joins /\ identity[s] = joiners[j].user /\ identity[s] # Nobody
      /\ Open(s) => wish[s] \/ j \in late
      /\ identity[s] \in access \/ j \in lapsed
  BY <1>1, JoinerAt, JoinersAssumption, NobodyAssumption DEF Idle, JoinerFits
<1> HIDE DEF s
<1>3. Idle \in {Idle} \union Joiner
  OBVIOUS
<1>4. /\ joiners' \in [Joiners -> {Idle} \union Joiner] /\ joiners'[j] = Idle
      /\ \A k \in Joiners : k # j => joiners'[k] = joiners[k]
      /\ \A q, k : k # j => (k \in Of(q)' <=> k \in Of(q))
      /\ \A q : j \in Of(q)' <=> Idle # Idle /\ Idle.socket = q
  BY <1>1, <1>3, JoinerMoves
<1>5. /\ \A q \in Sockets : q \in room' => q \in room \/ (q = s /\ Open(s))
      /\ \A q \in Sockets : q \in room => q \in room'
      /\ \A k \in Joiners : k # j /\ k \in late => k \in late'
      /\ \A k \in Joiners : k # j /\ k \in lapsed => k \in lapsed'
      /\ \A q \in Sockets : (q # s \/ ~Open(s)) => (q \in late => q \in late') /\ (q \in lapsed => q \in lapsed')
      /\ Open(s) /\ j \in late => s \in late'
      /\ Open(s) /\ j \in lapsed => s \in lapsed'
      /\ late' \subseteq Joiners \union Sockets /\ lapsed' \subseteq Joiners \union Sockets
      /\ \A q \in room' : q \in Sockets /\ Open(q) /\ identity[q] # Nobody
  <2>1. CASE Open(s)
    BY <1>1, <1>2, <2>1, JoinersAssumption, HandedOn DEF RoomTypeOK, Open
  <2>2. CASE ~Open(s)
    BY <1>1, <1>2, <2>2, JoinersAssumption DEF RoomTypeOK, Open
  <2> QED BY <2>1, <2>2
<1>6. RoomTypeOK'
  <2>1. \A q \in room' : q \in Sockets /\ Open(q)' /\ identity'[q] # Nobody
    BY <1>1, <1>5 DEF Open
  <2> QED BY <1>1, <1>4, <1>5, <2>1, AdmissionTypes DEF RoomTypeOK
<1>7. SocketsFit' /\ OneConnection'
  <2>1. \A q \in Sockets : link'[q] = "NEW" => link[q] = "NEW" /\ identity'[q] = identity[q]
    BY <1>1
  <2>2. \A q \in Sockets : wish'[q] => Open(q)'
    BY <1>1 DEF Admitted, SocketsFit, Open
  <2>3. Idle.at # "token"
    BY DEF Idle
  <2> QED BY <1>1, <1>3, <2>1, <2>2, <2>3, JoinerGoesOn
<1>8. JoinersFit'
  <2> SUFFICES ASSUME NEW k \in Joiners, NEW q \in Joiner, q = joiners'[k], q # Idle
               PROVE  JoinerFits(k, q)'
    BY <1>4, JoinerKinds DEF JoinersFit, JoinerFits, Open
  <2>1. k # j /\ q = joiners[k]
    BY <1>4
  <2>2. JoinerFits(k, q)
    BY <2>1 DEF Admitted, JoinersFit
  <2> QED BY <1>1, <1>5, <2>1, <2>2 DEF JoinerFits, Open
<1>9. RoomIsAsAsked'
  <2> SUFFICES ASSUME NEW q \in Sockets
               PROVE  /\ q \in room' => wish[q] \/ q \in late'
                      /\ wish[q] /\ Of(q)' = {} => q \in room' \union refused
    BY <1>1 DEF RoomIsAsAsked
  <2>1. q \in room' => wish[q] \/ q \in late'
    <3>1. CASE q = s /\ Open(s)
      BY <1>2, <1>5, <3>1
    <3>2. CASE ~(q = s /\ Open(s))
      BY <1>5, <3>2 DEF Admitted, RoomIsAsAsked
    <3> QED BY <3>1, <3>2
  <2>2. ASSUME wish[q], Of(q)' = {} PROVE q \in room' \union refused
    <3>1. Open(q)
      BY <2>2 DEF Admitted, SocketsFit
    <3>2. CASE q = s
      BY <1>1, <3>1, <3>2
    <3>3. CASE q # s
      <4>1. Of(q) = {}
        BY <1>4, <2>2, <3>3 DEF Of, s
      <4> QED BY <1>5, <2>2, <4>1 DEF Admitted, RoomIsAsAsked
    <3> QED BY <3>2, <3>3
  <2> QED BY <2>1, <2>2
<1>10. ListenersHaveAccess'
  <2> SUFFICES ASSUME NEW q \in room' PROVE identity[q] \in access \/ q \in lapsed'
    BY <1>1 DEF ListenersHaveAccess
  <2>1. CASE q = s /\ Open(s)
    BY <1>2, <1>5, <2>1
  <2>2. CASE ~(q = s /\ Open(s))
    BY <1>5, <2>2 DEF Admitted, ListenersHaveAccess
  <2> QED BY <2>1, <2>2
<1> QED BY <1>6, <1>7, <1>8, <1>9, <1>10 DEF Admitted

\* Open sockets go; joiners whose socket is not open may be done with.
LEMMA SocketsClosed ==
  ASSUME RoomTypeOK, Admitted, TypeOK', NEW gone, Close(gone), \A q \in gone : Open(q),
         UNCHANGED <<access, identity>>, joiners' \in [Joiners -> {Idle} \union Joiner],
         \A k \in Joiners : \/ joiners'[k] = joiners[k]
                            \/ joiners'[k] = Idle /\ link'[joiners[k].socket] # "OPEN",
         late' \subseteq late, lapsed' \subseteq lapsed,
         \A k \in Joiners : joiners'[k] # Idle =>
                              (k \in late => k \in late') /\ (k \in lapsed => k \in lapsed'),
         \A q \in room' : (q \in late => q \in late') /\ (q \in lapsed => q \in lapsed')
  PROVE  RoomTypeOK' /\ Admitted'
<1>1. /\ link' \in [Sockets -> {"NEW", "OPEN", "CLOSED"}] /\ wish' \in [Sockets -> BOOLEAN]
      /\ fetches' \in [Sockets -> {Idle} \union Fetch]
      /\ view' \in [Sockets -> [Tables -> Snapshots \union {Null, Unsent}]]
      /\ behind' \in [Sockets -> SUBSET Tables]
      /\ room' = room \ gone /\ refused' = refused \ gone
  BY DEF Close, RoomTypeOK, Fetch
<1>2. ASSUME NEW q \in Sockets
      PROVE  \/ q \in gone /\ link'[q] = "CLOSED" /\ ~wish'[q] /\ ~Open(q)'
             \/ q \notin gone /\ link'[q] = link[q] /\ wish'[q] = wish[q] /\ (Open(q)' <=> Open(q))
  BY <1>1, <1>2 DEF Close, RoomTypeOK, Open
<1>3. RoomTypeOK'
  <2>1. room' \subseteq {q \in Sockets : Open(q)' /\ identity'[q] # Nobody}
    BY <1>1, <1>2 DEF RoomTypeOK
  <2> QED BY <1>1, <2>1 DEF RoomTypeOK, Fetch, Joiner
<1>4. ASSUME NEW k \in Joiners, joiners'[k] # Idle PROVE joiners'[k] = joiners[k]
  BY <1>4
<1>5. SocketsFit'
  <2>1. ASSUME NEW q \in Sockets, link'[q] = "NEW" PROVE Of(q)' = {} /\ identity'[q] = Nobody
    <3>1. Of(q) = {} /\ identity[q] = Nobody
      BY <1>2, <2>1 DEF Admitted, SocketsFit
    <3> QED BY <1>4, <3>1 DEF Of
  <2>2. ASSUME NEW q \in Sockets, wish'[q] PROVE Open(q)'
    BY <1>2, <2>2 DEF Admitted, SocketsFit
  <2> QED BY <2>1, <2>2 DEF SocketsFit
<1>6. JoinersFit'
  <2> SUFFICES ASSUME NEW k \in Joiners, NEW q \in Joiner, q = joiners'[k], q # Idle
               PROVE  JoinerFits(k, q)'
    BY JoinerKinds DEF JoinersFit, JoinerFits, Open
  <2>1. q = joiners[k] /\ q.socket \in Sockets
    BY <1>4 DEF Joiner
  <2>2. JoinerFits(k, q)
    BY <2>1 DEF Admitted, JoinersFit
  <2>3. \/ link'[q.socket] = "CLOSED" /\ ~wish'[q.socket]
        \/ /\ q.socket \notin gone /\ link'[q.socket] = link[q.socket]
           /\ wish'[q.socket] = wish[q.socket]
    BY <1>2, <2>1
  <2> QED BY <1>1, <2>2, <2>3 DEF JoinerFits, Open
<1>7. OneConnection'
  <2> SUFFICES ASSUME NEW k \in Joiners, NEW m \in Joiners, joiners'[k].at = "token",
                      joiners'[m].at = "token", joiners'[k].socket = joiners'[m].socket
               PROVE  k = m
    BY DEF OneConnection
  <2>1. joiners'[k] = joiners[k] /\ joiners'[m] = joiners[m]
    BY DEF Idle
  <2> QED BY <2>1 DEF Admitted, OneConnection
<1>8. RoomIsAsAsked'
  <2> SUFFICES ASSUME NEW q \in Sockets
               PROVE  /\ q \in room' => wish'[q] \/ q \in late'
                      /\ wish'[q] /\ Of(q)' = {} => q \in room' \union refused'
    BY DEF RoomIsAsAsked
  <2>1. q \in room' => wish'[q] \/ q \in late'
    BY <1>1, <1>2 DEF Admitted, RoomIsAsAsked
  <2>2. ASSUME wish'[q], Of(q)' = {} PROVE q \in room' \union refused'
    <3>1. q \notin gone /\ wish[q] /\ Open(q)'
      BY <1>2, <2>2 DEF Admitted, SocketsFit
    <3>2. ASSUME NEW k \in Of(q) PROVE FALSE
      <4>1. k \in Joiners /\ joiners[k] # Idle /\ joiners[k].socket = q
        BY <3>2 DEF Of
      <4>2. joiners'[k] = joiners[k]
        BY <3>1, <4>1 DEF Open
      <4> QED BY <2>2, <4>1, <4>2 DEF Of
    <3> QED BY <1>1, <3>1, <3>2 DEF Admitted, RoomIsAsAsked
  <2> QED BY <2>1, <2>2
<1>9. ListenersHaveAccess'
  BY <1>1 DEF Admitted, ListenersHaveAccess
<1> QED BY <1>3, <1>5, <1>6, <1>7, <1>8, <1>9 DEF Admitted

LEMMA DisconnectStep ==
  ASSUME RoomTypeOK, Admitted, UNCHANGED vars, NEW s \in Sockets, Disconnect(s)
  PROVE  RoomTypeOK' /\ Admitted'
<1>1. /\ Open(s) /\ Close({s}) /\ late' = late \ {s} /\ lapsed' = lapsed \ {s}
      /\ UNCHANGED <<access, identity, joiners>>
  BY DEF Disconnect
<1>2. TypeOK'
  BY DEF RoomTypeOK, TypeOK, vars, rows, book, history
<1>3. s \notin room' /\ s \notin Joiners
  BY <1>1, JoinersAssumption DEF Close
<1>4. joiners' \in [Joiners -> {Idle} \union Joiner]
  BY <1>1 DEF RoomTypeOK, Joiner
<1> QED BY <1>1, <1>2, <1>3, <1>4, SocketsClosed

LEMMA CloseAllStep ==
  ASSUME MonitorInv', RoomTypeOK, Admitted, CloseAll
  PROVE  RoomTypeOK' /\ Admitted'
<1> DEFINE gone == {s \in Sockets : Open(s)}
<1>1. /\ Close(gone) /\ joiners' = [j \in Joiners |-> Idle] /\ late' = {} /\ lapsed' = {}
      /\ UNCHANGED <<access, identity>>
  BY DEF CloseAll
<1>2. TypeOK'
  BY DEF MonitorInv
<1>3. \A q \in gone : Open(q)
  OBVIOUS
<1>4. \A q : q \notin room'
  BY <1>1 DEF Close, RoomTypeOK
<1>5. joiners' \in [Joiners -> {Idle} \union Joiner]
  BY <1>1
<1>6. ASSUME NEW k \in Joiners PROVE joiners'[k] = joiners[k] \/ (joiners'[k] = Idle /\ link'[joiners[k].socket] # "OPEN")
  <2>1. CASE joiners[k] = Idle
    BY <1>1, <2>1
  <2>2. CASE joiners[k] # Idle
    <3>1. joiners[k].socket \in Sockets
      BY <2>2, JoinerAt
    <3> QED BY <1>1, <3>1 DEF Close, Open
  <2> QED BY <2>1, <2>2
<1> HIDE DEF gone
<1> QED BY <1>1, <1>2, <1>3, <1>4, <1>5, <1>6, SocketsClosed

LEMMA RefuseConnection ==
  ASSUME RoomTypeOK, Admitted, UNCHANGED vars, NEW j \in Joiners, Refuse(j), joiners[j].opening
  PROVE  RoomTypeOK' /\ Admitted'
<1> DEFINE s == joiners[j].socket
           gone == {x \in {s} : Open(x)}
<1>1. /\ joiners[j].at \in {"token", "access"} /\ joiners' = [joiners EXCEPT ![j] = Idle]
      /\ Close(gone) /\ late' = late \ {j, s} /\ lapsed' = lapsed \ {j, s}
      /\ UNCHANGED <<access, identity>>
  BY DEF Refuse
<1>2. joiners[j] # Idle /\ s \in Sockets /\ s \notin Joiners /\ j \notin Sockets
  BY <1>1, JoinerAt, JoinersAssumption DEF Idle
<1>3. TypeOK'
  BY DEF RoomTypeOK, TypeOK, vars, rows, book, history
<1>4. joiners \in [Joiners -> {Idle} \union Joiner]
  BY DEF RoomTypeOK, Joiner
<1>5. joiners' \in [Joiners -> {Idle} \union Joiner]
  BY <1>1, <1>4
<1>6. \A x \in gone : Open(x)
  OBVIOUS
<1>7. link'[s] # "OPEN"
  BY <1>1, <1>2 DEF Close, Open
<1>8. \A k \in Joiners : joiners'[k] = joiners[k] \/ (joiners'[k] = Idle /\ link'[joiners[k].socket] # "OPEN")
  BY <1>1, <1>4, <1>7
<1>9. \A q \in room' : q \in Sockets /\ q # s
  BY <1>1 DEF Close, RoomTypeOK
<1>10. \A k \in Joiners : joiners'[k] # Idle => k # j /\ k # s
  BY <1>1, <1>2, <1>4
<1>11. /\ \A k \in Joiners : joiners'[k] # Idle =>
              (k \in late => k \in late') /\ (k \in lapsed => k \in lapsed')
       /\ \A q \in room' : (q \in late => q \in late') /\ (q \in lapsed => q \in lapsed')
       /\ late' \subseteq late /\ lapsed' \subseteq lapsed
  BY <1>1, <1>2, <1>9, <1>10
<1> HIDE DEF gone, s
<1> QED BY <1>1, <1>3, <1>5, <1>6, <1>8, <1>11, SocketsClosed

LEMMA RefuseSubscription ==
  ASSUME RoomTypeOK, Admitted, UNCHANGED vars, NEW j \in Joiners, Refuse(j), ~joiners[j].opening
  PROVE  RoomTypeOK' /\ Admitted'
<1> DEFINE s == joiners[j].socket
<1>1. /\ joiners[j].at \in {"token", "access"} /\ joiners' = [joiners EXCEPT ![j] = Idle]
      /\ refused' = IF Open(s) THEN refused \union {s} ELSE refused
      /\ late' = late \ {j} /\ lapsed' = lapsed \ {j}
      /\ UNCHANGED <<access, link, identity, room, fetches, view, behind, wish>>
  BY DEF Refuse, pages
<1>2. joiners[j] # Idle /\ s \in Sockets /\ j \notin Sockets
  BY <1>1, JoinerAt, JoinersAssumption DEF Idle
<1>3. Idle \in {Idle} \union Joiner /\ Idle.at # "token"
  BY DEF Idle
<1>4. /\ joiners' \in [Joiners -> {Idle} \union Joiner] /\ joiners'[j] = Idle
      /\ \A k \in Joiners : k # j => joiners'[k] = joiners[k]
      /\ \A q, k : k # j => (k \in Of(q)' <=> k \in Of(q))
      /\ \A q : j \in Of(q)' <=> Idle # Idle /\ Idle.socket = q
  BY <1>1, <1>3, JoinerMoves
<1>5. RoomTypeOK'
  <2>1. \A q \in room' : q \in Sockets /\ Open(q)' /\ identity'[q] # Nobody
    BY <1>1 DEF RoomTypeOK, Open
  <2>2. refused' \subseteq Sockets /\ late' \subseteq Joiners \union Sockets /\ lapsed' \subseteq Joiners \union Sockets
    BY <1>1, <1>2 DEF RoomTypeOK
  <2> QED BY <1>1, <1>4, <2>1, <2>2, AdmissionTypes DEF RoomTypeOK
<1>6. SocketsFit' /\ OneConnection'
  <2>1. \A q \in Sockets : link'[q] = "NEW" => link[q] = "NEW" /\ identity'[q] = identity[q]
    BY <1>1
  <2>2. \A q \in Sockets : wish'[q] => Open(q)'
    BY <1>1 DEF Admitted, SocketsFit, Open
  <2> QED BY <1>1, <1>3, <2>1, <2>2, JoinerGoesOn
<1>7. JoinersFit'
  <2> SUFFICES ASSUME NEW k \in Joiners, NEW q \in Joiner, q = joiners'[k], q # Idle
               PROVE  JoinerFits(k, q)'
    BY <1>4, JoinerKinds DEF JoinersFit, JoinerFits, Open
  <2>1. k # j /\ q = joiners[k]
    BY <1>4
  <2>2. JoinerFits(k, q)
    BY <2>1 DEF Admitted, JoinersFit
  <2> QED BY <1>1, <2>1, <2>2 DEF JoinerFits, Open
<1>8. RoomIsAsAsked'
  <2> SUFFICES ASSUME NEW q \in Sockets
               PROVE  /\ q \in room => wish[q] \/ q \in late'
                      /\ wish[q] /\ Of(q)' = {} => q \in room \union refused'
    BY <1>1 DEF RoomIsAsAsked
  <2>1. q \in room => wish[q] \/ q \in late'
    BY <1>1, <1>2 DEF Admitted, RoomIsAsAsked
  <2>2. ASSUME wish[q], Of(q)' = {} PROVE q \in room \union refused'
    <3>1. CASE q = s
      BY <1>1, <2>2, <3>1 DEF Admitted, SocketsFit
    <3>2. CASE q # s
      <4>1. Of(q) = {}
        BY <1>4, <2>2, <3>2 DEF Of
      <4> QED BY <1>1, <2>2, <4>1 DEF Admitted, RoomIsAsAsked
    <3> QED BY <3>1, <3>2
  <2> QED BY <2>1, <2>2
<1>9. ListenersHaveAccess'
  <2>1. \A q \in room : q # j
    BY <1>2 DEF RoomTypeOK
  <2> QED BY <1>1, <2>1 DEF Admitted, ListenersHaveAccess
<1> QED BY <1>5, <1>6, <1>7, <1>8, <1>9 DEF Admitted

LEMMA SubscribeEarlyStep ==
  ASSUME RoomTypeOK, Admitted, UNCHANGED vars, NEW s \in Sockets, SubscribeEarly(s)
  PROVE  RoomTypeOK' /\ Admitted'
<1>1. /\ Open(s) /\ identity[s] = Nobody
      /\ wish' = [wish EXCEPT ![s] = TRUE] /\ refused' = refused \union {s}
      /\ UNCHANGED <<access, link, identity, joiners, room, fetches, view, behind, late, lapsed>>
  BY DEF SubscribeEarly, sockets, pages
<1>2. /\ wish' \in [Sockets -> BOOLEAN] /\ wish'[s]
      /\ \A q \in Sockets : q # s => wish'[q] = wish[q]
      /\ \A q : Of(q)' = Of(q) /\ (Open(q)' <=> Open(q))
  BY <1>1 DEF RoomTypeOK, Of, Open
<1>3. RoomTypeOK'
  <2>1. \A q \in room' : q \in Sockets /\ Open(q)' /\ identity'[q] # Nobody
    BY <1>1, <1>2 DEF RoomTypeOK
  <2>2. joiners' \in [Joiners -> {Idle} \union Joiner]
    BY <1>1 DEF RoomTypeOK, Joiner
  <2>3. refused' \subseteq Sockets
    BY <1>1 DEF RoomTypeOK
  <2> QED BY <1>1, <1>2, <2>1, <2>2, <2>3, AdmissionTypes DEF RoomTypeOK
<1>4. SocketsFit'
  BY <1>1, <1>2 DEF Admitted, SocketsFit
<1>5. JoinersFit'
  <2> SUFFICES ASSUME NEW k \in Joiners, joiners[k] # Idle PROVE JoinerFits(k, joiners[k])'
    BY <1>1 DEF JoinersFit
  <2>1. joiners[k].socket \in Sockets /\ JoinerFits(k, joiners[k])
    BY JoinerAt
  <2> QED BY <1>1, <1>2, <2>1 DEF JoinerFits
<1>6. OneConnection' /\ ListenersHaveAccess'
  BY <1>1 DEF Admitted, OneConnection, ListenersHaveAccess
<1>7. RoomIsAsAsked'
  BY <1>1, <1>2 DEF Admitted, RoomIsAsAsked
<1> QED BY <1>3, <1>4, <1>5, <1>6, <1>7 DEF Admitted

LEMMA UnsubscribeStep ==
  ASSUME RoomTypeOK, Admitted, UNCHANGED vars, NEW s \in Sockets, Unsubscribe(s)
  PROVE  RoomTypeOK' /\ Admitted'
<1>1. /\ Open(s) /\ room' = room \ {s} /\ wish' = [wish EXCEPT ![s] = FALSE]
      /\ late' = (late \ {s}) \union Of(s) /\ refused' = refused \ {s} /\ lapsed' = lapsed \ {s}
      /\ UNCHANGED <<access, link, identity, joiners, fetches, view, behind>>
  BY DEF Unsubscribe, pages
<1>2. /\ wish' \in [Sockets -> BOOLEAN] /\ ~wish'[s]
      /\ \A q \in Sockets : q # s => wish'[q] = wish[q]
      /\ \A q : Of(q)' = Of(q) /\ (Open(q)' <=> Open(q))
      /\ s \notin Joiners /\ Of(s) \subseteq Joiners
  BY <1>1, JoinersAssumption DEF RoomTypeOK, Of, Open
<1>3. RoomTypeOK'
  <2>1. \A q \in room' : q \in Sockets /\ Open(q)' /\ identity'[q] # Nobody
    BY <1>1, <1>2 DEF RoomTypeOK
  <2>2. joiners' \in [Joiners -> {Idle} \union Joiner]
    BY <1>1 DEF RoomTypeOK, Joiner
  <2>3. /\ refused' \subseteq Sockets /\ late' \subseteq Joiners \union Sockets
        /\ lapsed' \subseteq Joiners \union Sockets
    BY <1>1, <1>2 DEF RoomTypeOK
  <2> QED BY <1>1, <1>2, <2>1, <2>2, <2>3, AdmissionTypes DEF RoomTypeOK
<1>4. SocketsFit'
  BY <1>1, <1>2 DEF Admitted, SocketsFit
<1>5. JoinersFit'
  <2> SUFFICES ASSUME NEW k \in Joiners, joiners[k] # Idle PROVE JoinerFits(k, joiners[k])'
    BY <1>1 DEF JoinersFit
  <2>1. joiners[k].socket \in Sockets /\ JoinerFits(k, joiners[k])
    BY JoinerAt
  <2>2. joiners[k].socket = s => k \in late'
    BY <1>1 DEF Of
  <2> QED BY <1>1, <1>2, <2>1, <2>2 DEF JoinerFits
<1>6. OneConnection' /\ ListenersHaveAccess'
  BY <1>1 DEF Admitted, OneConnection, ListenersHaveAccess
<1>7. RoomIsAsAsked'
  BY <1>1, <1>2 DEF Admitted, RoomIsAsAsked
<1> QED BY <1>3, <1>4, <1>5, <1>6, <1>7 DEF Admitted

\* Who has access changes, and with it whose mark it is.
LEMMA AccessStep ==
  ASSUME RoomTypeOK, Admitted, UNCHANGED vars, NEW u \in Users, LoseAccess(u) \/ GainAccess(u)
  PROVE  RoomTypeOK' /\ Admitted'
<1>1. /\ \/ access' = access \ {u} /\ lapsed' = lapsed \union Behind(u)
         \/ access' = access \union {u} /\ lapsed' = lapsed \ Behind(u)
      /\ UNCHANGED <<link, identity, joiners, room, fetches, view, behind, wish, refused, late>>
  BY DEF LoseAccess, GainAccess, sockets, pages, asked
<1>2. /\ Behind(u) \subseteq Joiners \union Sockets
      /\ \A q \in Sockets : q \in Behind(u) <=> q \in room /\ identity[q] = u
      /\ \A k \in Joiners : k \in Behind(u) <=> joiners[k].at = "join" /\ joiners[k].user = u
  BY JoinersAssumption DEF Behind, RoomTypeOK
<1>3. \A q : Of(q)' = Of(q) /\ (Open(q)' <=> Open(q))
  BY <1>1 DEF Of, Open
<1>4. RoomTypeOK'
  <2>1. \A q \in room' : q \in Sockets /\ Open(q)' /\ identity'[q] # Nobody
    BY <1>1, <1>3 DEF RoomTypeOK
  <2>2. joiners' \in [Joiners -> {Idle} \union Joiner]
    BY <1>1 DEF RoomTypeOK, Joiner
  <2>3. access' \subseteq Users /\ lapsed' \subseteq Joiners \union Sockets
    BY <1>1, <1>2 DEF RoomTypeOK
  <2> QED BY <1>1, <2>1, <2>2, <2>3, AdmissionTypes DEF RoomTypeOK
<1>5. SocketsFit' /\ OneConnection' /\ RoomIsAsAsked'
  BY <1>1, <1>3 DEF Admitted, SocketsFit, OneConnection, RoomIsAsAsked
<1>6. JoinersFit'
  <2> SUFFICES ASSUME NEW k \in Joiners, joiners[k] # Idle PROVE JoinerFits(k, joiners[k])'
    BY <1>1 DEF JoinersFit
  <2>1. JoinerFits(k, joiners[k])
    BY JoinerAt
  <2> QED BY <1>1, <1>2, <1>3, <2>1 DEF JoinerFits
<1>7. ListenersHaveAccess'
  <2>1. room \subseteq Sockets
    BY DEF RoomTypeOK
  <2> QED BY <1>1, <1>2, <2>1 DEF Admitted, ListenersHaveAccess
<1> QED BY <1>4, <1>5, <1>6, <1>7 DEF Admitted

\* Who is in the room stays as it is.
LEMMA AdmittedKept ==
  ASSUME Admitted, UNCHANGED <<access, link, identity, joiners, room, wish, refused, late, lapsed>>
  PROVE  Admitted'
  BY DEF Admitted, SocketsFit, JoinersFit, JoinerFits, OneConnection, RoomIsAsAsked,
         ListenersHaveAccess, Of, Open

-------------------------------------------------------------------------------
(* Every step keeps the invariant of the room.                              *)

LEMMA RoomInitInv == RoomInit => RoomInv
<1> SUFFICES ASSUME RoomInit PROVE RoomInv
  OBVIOUS
<1>1. MonitorInv
  BY MonitorInit DEF RoomInit
<1>2. /\ \A s \in Sockets : /\ link[s] = "NEW" /\ identity[s] = Nobody /\ ~wish[s]
                            /\ fetches[s] = Idle /\ view[s] = [t \in Tables |-> Unsent]
      /\ \A j \in Joiners : joiners[j] = Idle
      /\ room = {}
  BY DEF RoomInit
<1>3. RoomTypeOK
  BY <1>1 DEF MonitorInv, RoomInit, RoomTypeOK
<1>4. SocketsFit /\ JoinersFit /\ OneConnection /\ RoomIsAsAsked /\ ListenersHaveAccess
  BY <1>2 DEF SocketsFit, JoinersFit, OneConnection, RoomIsAsAsked, ListenersHaveAccess, Of, Idle
<1>5. PagesFit /\ FetchIsCurrent /\ PageIsCurrentWhenQuiet
  BY <1>2 DEF PagesFit, FetchIsCurrent, PageIsCurrentWhenQuiet, Idle
<1> QED BY <1>1, <1>3, <1>4, <1>5 DEF RoomInv, Admitted, Shown

LEMMA AdmissionStep ==
  ASSUME RoomInv, UNCHANGED vars, NEW j \in Joiners, Admission(j)
  PROVE  RoomInv'
<1>0. MonitorInv /\ RoomTypeOK /\ Admitted /\ Shown /\ ChangesAnnounced /\ MonitorInv'
  BY VarsKept, MonitorStutter DEF RoomInv
<1>1. RoomTypeOK' /\ Admitted'
  <2>1. CASE \E s \in Sockets, u \in Users, joins \in BOOLEAN : Connect(j, s, u, joins)
    BY <1>0, <2>1, ConnectStep
  <2>2. CASE \E s \in Sockets : Subscribe(j, s)
    BY <1>0, <2>2, SubscribeStep
  <2>3. CASE Validate(j)
    BY <1>0, <2>3, ValidateStep
  <2>4. CASE CheckAccess(j)
    BY <1>0, <2>4, CheckAccessStep
  <2>5. CASE Join(j)
    BY <1>0, <2>5, JoinStep
  <2>6. CASE Refuse(j)
    BY <1>0, <2>6, RefuseConnection, RefuseSubscription
  <2> QED BY <2>1, <2>2, <2>3, <2>4, <2>5, <2>6 DEF Admission
<1>2. Shown'
  <2>1. CASE Refuse(j) /\ joiners[j].opening
    <3>1. PICK gone : Close(gone)
      BY <2>1 DEF Refuse
    <3> QED BY <1>0, <3>1, PagesClosed
  <2>2. CASE ~(Refuse(j) /\ joiners[j].opening)
    <3>1. UNCHANGED <<fetches, view, behind>>
      BY <2>2 DEF Admission, Connect, Subscribe, Pending, Validate, CheckAccess, Join, Refuse, pages
    <3>2. \A q \in Sockets : link'[q] = link[q] \/ link'[q] = "OPEN"
      BY <1>0, <2>2 DEF Admission, Connect, Subscribe, Pending, Validate, CheckAccess, Join, Refuse, RoomTypeOK
    <3> QED BY <1>0, <3>1, <3>2, PagesKept DEF Open
  <2> QED BY <2>1, <2>2
<1> QED BY <1>0, <1>1, <1>2 DEF RoomInv

LEMMA PageStep ==
  ASSUME RoomInv, UNCHANGED vars, NEW s \in Sockets, Page(s)
  PROVE  RoomInv'
<1>0. MonitorInv /\ RoomTypeOK /\ Admitted /\ Shown /\ ChangesAnnounced /\ MonitorInv'
  BY VarsKept, MonitorStutter DEF RoomInv
<1>1. CASE SubscribeEarly(s) \/ Unsubscribe(s)
  <2>1. RoomTypeOK' /\ Admitted'
    BY <1>0, <1>1, SubscribeEarlyStep, UnsubscribeStep
  <2>2. UNCHANGED <<link, fetches, view, behind>>
    BY <1>1 DEF SubscribeEarly, Unsubscribe, sockets, pages
  <2>3. Shown'
    BY <1>0, <2>2, PagesKept DEF Open
  <2> QED BY <1>0, <2>1, <2>3 DEF RoomInv
<1>2. CASE Disconnect(s)
  <2>1. RoomTypeOK' /\ Admitted'
    BY <1>0, <1>2, DisconnectStep
  <2>2. Close({s})
    BY <1>2 DEF Disconnect
  <2>3. Shown'
    BY <1>0, <2>2, PagesClosed
  <2> QED BY <1>0, <2>1, <2>3 DEF RoomInv
<1>3. CASE FetchTables(s) \/ FetchOrders(s) \/ AnswerFetch(s) \/ FailFetch(s)
  <2>1. RoomTypeOK' /\ Shown'
    BY <1>0, <1>3, FetchTablesShown, FetchOrdersShown, AnswerFetchShown, FailFetchShown
  <2>2. UNCHANGED <<access, link, identity, joiners, room, wish, refused, late, lapsed>>
    BY <1>3 DEF FetchTables, Fetching, FetchOrders, AnswerFetch, FailFetch, sockets, asked
  <2> QED BY <1>0, <2>1, <2>2, AdmittedKept DEF RoomInv
<1> QED BY <1>1, <1>2, <1>3 DEF Page

LEMMA RoomStutter ==
  ASSUME RoomInv, MonitorInv', ChangesAnnounced, UNCHANGED roomVars
  PROVE  RoomInv'
<1>1. UNCHANGED <<access, link, identity, joiners, room, fetches, view, behind, wish, refused, late, lapsed>>
  BY DEF roomVars, sockets, pages, asked
<1>2. Admitted'
  BY <1>1, AdmittedKept DEF RoomInv
<1>3. Shown'
  BY <1>1, PagesKept DEF RoomInv, Open
<1>4. RoomTypeOK'
  BY <1>1 DEF RoomInv, RoomTypeOK, MonitorInv, Open
<1> QED BY <1>2, <1>3, <1>4 DEF RoomInv

LEMMA RoomStep == RoomInv /\ [RoomNext]_<<vars, roomVars>> => RoomInv'
<1> SUFFICES ASSUME RoomInv, [RoomNext]_<<vars, roomVars>> PROVE RoomInv'
  OBVIOUS
<1>0. MonitorInv /\ RoomTypeOK /\ Admitted /\ Shown
  BY DEF RoomInv
<1>1. CASE Unheard /\ UNCHANGED roomVars
  BY <1>0, <1>1, UnheardStep, RoomStutter
<1>2. CASE \E h \in Handlers : Emit(h) /\ Deliver(h)
  <2>1. PICK h \in Handlers : Emit(h) /\ Deliver(h)
    BY <1>2
  <2>2. MonitorInv'
    BY <1>0, <2>1, EmitStep
  <2>3. Shown' /\ RoomTypeOK'
    BY <1>0, <2>1, DeliverShown
  <2>4. Admitted'
    BY <1>0, <2>1, AdmittedKept DEF Deliver, sockets, asked
  <2> QED BY <2>2, <2>3, <2>4 DEF RoomInv
<1>3. CASE Restart /\ CloseAll
  <2>1. MonitorInv'
    BY <1>0, <1>3, RestartStep
  <2>2. RoomTypeOK' /\ Admitted'
    BY <1>0, <1>3, <2>1, CloseAllStep
  <2>3. Shown'
    BY <1>0, <1>3, CloseAllShown
  <2> QED BY <2>1, <2>2, <2>3 DEF RoomInv
<1>4. CASE UNCHANGED vars /\ \E j \in Joiners : Admission(j)
  BY <1>4, AdmissionStep
<1>5. CASE UNCHANGED vars /\ \E s \in Sockets : Page(s)
  BY <1>5, PageStep
<1>6. CASE UNCHANGED vars /\ \E u \in Users : LoseAccess(u) \/ GainAccess(u)
  <2>1. PICK u \in Users : LoseAccess(u) \/ GainAccess(u)
    BY <1>6
  <2>2. RoomTypeOK' /\ Admitted'
    BY <1>0, <1>6, <2>1, AccessStep
  <2>3. UNCHANGED <<link, fetches, view, behind>>
    BY <2>1 DEF LoseAccess, GainAccess, sockets, pages
  <2>4. Shown'
    BY <1>0, <1>6, <2>3, VarsKept, PagesKept DEF Open
  <2>5. MonitorInv'
    BY <1>0, <1>6, MonitorStutter
  <2> QED BY <2>2, <2>4, <2>5 DEF RoomInv
<1>7. CASE UNCHANGED <<vars, roomVars>>
  BY <1>0, <1>7, VarsKept, MonitorStutter, RoomStutter
<1> QED BY <1>1, <1>2, <1>3, <1>4, <1>5, <1>6, <1>7 DEF RoomNext

-------------------------------------------------------------------------------
(* Theorems about LiveRoom.                                                 *)

\* The inductive invariant holds in every state.
LEMMA RoomInvariance == RoomSpec => []RoomInv
<1> QED BY RoomInitInv, RoomStep, PTL DEF RoomSpec

\* Jobs, sockets, joiners and pages keep their types, and only open sockets of a known
\* user are in the room: for any number of handlers, tables, sockets and users.
THEOREM RoomTypeCorrect == RoomSpec => []RoomTypeOK
<1>1. RoomInv => RoomTypeOK
  BY DEF RoomInv
<1> QED BY RoomInvariance, <1>1, PTL

\* The room holds who asked last to be in it, or was let in by a request its own
\* unsubscribe had overtaken (handleConnection, subscribeToRestaurant).
THEOREM RoomAsAsked == RoomSpec => []RoomIsAsAsked
<1>1. RoomInv => RoomIsAsAsked
  BY DEF RoomInv, Admitted
<1> QED BY RoomInvariance, <1>1, PTL

\* Who is in the room has access to the restaurant, or lost it after the check
\* (ensureRestaurantAccess).
THEOREM ListenersAdmitted == RoomSpec => []ListenersHaveAccess
<1>1. RoomInv => ListenersHaveAccess
  BY DEF RoomInv, Admitted
<1> QED BY RoomInvariance, <1>1, PTL

\* A page shows each table as it is when nobody is busy announcing it, unless it missed
\* an emit or the table drifted, whatever fetches and emits cross.
THEOREM PageIsCurrent == RoomSpec => []PageIsCurrentWhenQuiet
<1>1. RoomInv => PageIsCurrentWhenQuiet
  BY DEF RoomInv, Shown
<1> QED BY RoomInvariance, <1>1, PTL
===============================================================================
