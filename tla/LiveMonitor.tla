------------------------------ MODULE LiveMonitor ------------------------------
(***************************************************************************)
(* The live board: live-monitor.gateway.ts, live-monitor.service.ts and    *)
(* live-calls.  A handler that changed a table first commits, then awaits  *)
(* a snapshot of the table (the row, then its orders: two queries outside  *)
(* any transaction) and then emits it to the restaurant's room.  Handlers  *)
(* overlap at every await, some changes are not announced at all, and a    *)
(* crash loses what is on its way.                                         *)
(*                                                                         *)
(* What a snapshot says is kept as two version numbers per table: of the   *)
(* row (status, waiter call) and of its orders.  Orders.tla has the        *)
(* handlers up to their commit; here they begin with it.                   *)
(***************************************************************************)
EXTENDS Naturals, FiniteSets

CONSTANTS Handlers,    \* requests in progress: one job each at a time
          Tables, OrderIds,
          NoTable, NoOrder,
          Null,        \* the snapshot of a table that is not ACTIVE
          Unsent,      \* nothing emitted for a table yet
          MaxChanges   \* bound: changes of a table's row or orders

ASSUME MaxChangesAssumption == MaxChanges \in Nat
ASSUME NoneAssumption == NoTable \notin Tables /\ NoOrder \notin OrderIds

VARIABLES
  status,     \* DiningTable.status, or DELETED
  calls,      \* active waiter call of a table: NONE, WAITER or BILL
  place,      \* the table of an order; NoTable when it has none, or is not there
  changes,    \* how many changes there have been
  rowVersion, orderVersion,   \* per table, the last of them
  jobs,       \* what each handler still has to do
  board,      \* per table, the snapshot last emitted to the room
  overlapped, \* history: handlers that had read a table already when another
              \* one emitted it, or raised the waiter call they are to raise
  drifted     \* history: tables changed with no announcement, announced by a
              \* snapshot that failed, or emitted by an overlapped handler

rows == <<status, calls, rowVersion>>
book == <<place, orderVersion>>
history == <<overlapped, drifted>>
vars == <<rows, book, changes, jobs, board, history>>

CallTypes == {"WAITER", "BILL"}

Snapshot(row, ord) == [row |-> row, orders |-> ord]
Snapshots == [row : 0 .. MaxChanges, orders : 0 .. MaxChanges]
ASSUME SnapshotAssumption == {Null, Unsent} \cap Snapshots = {} /\ Null # Unsent

Done == [at |-> "idle", table |-> NoTable, order |-> NoOrder, call |-> "NONE",
         seen |-> Null]

Job == [at : {"idle", "delete", "trigger", "table", "orders", "emit"},
        table : Tables \union {NoTable},
        order : OrderIds \union {NoOrder},
        call : CallTypes \union {"NONE"},
        seen : Snapshots \union {Null}] \* what has been read for the snapshot

TypeOK ==
  /\ status \in [Tables -> {"ACTIVE", "INACTIVE", "DELETED"}]
  /\ calls \in [Tables -> CallTypes \union {"NONE"}]
  /\ place \in [OrderIds -> Tables \union {NoTable}]
  /\ changes \in 0 .. MaxChanges
  /\ rowVersion \in [Tables -> 0 .. changes] /\ orderVersion \in [Tables -> 0 .. changes]
  /\ jobs \in [Handlers -> Job]
  /\ board \in [Tables -> Snapshots \union {Null, Unsent}]
  /\ overlapped \subseteq Handlers /\ drifted \subseteq Tables

Init ==
  /\ status \in [Tables -> {"ACTIVE", "INACTIVE"}]
  /\ calls = [t \in Tables |-> "NONE"]
  /\ place = [o \in OrderIds |-> NoTable]
  /\ changes = 0
  /\ rowVersion = [t \in Tables |-> 0] /\ orderVersion = [t \in Tables |-> 0]
  /\ jobs = [h \in Handlers |-> Done]
  /\ board = [t \in Tables |-> Unsent]
  /\ overlapped = {} /\ drifted = {}

There(t) == status[t] # "DELETED"

\* What a snapshot of the table would say now.
Current(t) == IF status[t] = "ACTIVE" THEN Snapshot(rowVersion[t], orderVersion[t]) ELSE Null

\* A change of a table's row, or of the orders of some tables.
Count == changes < MaxChanges /\ changes' = changes + 1
RowChanges(t) == Count /\ rowVersion' = [rowVersion EXCEPT ![t] = changes + 1]
OrdersChange(ts) ==
  Count /\ orderVersion' = [t \in Tables |-> IF t \in ts THEN changes + 1 ELSE orderVersion[t]]

-------------------------------------------------------------------------------
(* Changes of the orders, announced for one table (emitOrdersChanged).      *)

\* The handler goes on to the snapshot of table t, its commit made.
Announce(h, t) == jobs' = [jobs EXCEPT ![h] = [Done EXCEPT !.at = "table", !.table = t]]

\* Faulty: the order is not announced.
PlaceUnannounced(h, o, t) ==
  /\ jobs[h].at = "idle" /\ place[o] = NoTable /\ There(t)
  /\ place' = [place EXCEPT ![o] = t]
  /\ OrdersChange({t})
  /\ UNCHANGED <<rows, jobs, board, history>>

\* createOrderInternal.
PlaceOrder(h, o, t) ==
  /\ jobs[h].at = "idle" /\ place[o] = NoTable /\ There(t)
  /\ place' = [place EXCEPT ![o] = t]
  /\ OrdersChange({t})
  /\ Announce(h, t)
  /\ UNCHANGED <<rows, board, history>>

\* updateOrder and appendItemsToPublicOrder: the order ends up at table t, and
\* t alone is announced, also when the order came from another table.
AmendOrder(h, o, t) ==
  /\ jobs[h].at = "idle" /\ place[o] # NoTable /\ There(t)
  /\ place' = [place EXCEPT ![o] = t]
  /\ OrdersChange({t, place[o]})
  /\ Announce(h, t)
  /\ drifted' = drifted \union ({place[o]} \ {t})
  /\ UNCHANGED <<rows, board, overlapped>>

\* deleteOrder reads the order's table, and deletes in a later statement: the
\* table read is the one announced, wherever the order was moved meanwhile, and
\* also when it was taken off its table.
BeginDelete(h, o) ==
  /\ jobs[h].at = "idle" /\ place[o] # NoTable
  /\ jobs' = [jobs EXCEPT ![h] = [Done EXCEPT !.at = "delete", !.order = o, !.table = place[o]]]
  /\ UNCHANGED <<rows, book, changes, board, history>>

DeleteOrder(h) ==
  LET o == jobs[h].order IN
  /\ jobs[h].at = "delete"
  /\ \/ place[o] = NoTable /\ UNCHANGED <<book, changes, drifted>>
     \/ /\ place[o] # NoTable
        /\ place' = [place EXCEPT ![o] = NoTable]
        /\ OrdersChange({place[o]})
        /\ drifted' = drifted \union ({place[o]} \ {jobs[h].table})
  /\ Announce(h, jobs[h].table)
  /\ UNCHANGED <<rows, board, overlapped>>

-------------------------------------------------------------------------------
(* Waiter calls, announced by the controller.                               *)

\* Faulty: the active call is not looked at.
TriggerUnchecked(h, t, type) ==
  /\ jobs[h].at = "idle" /\ There(t)
  /\ jobs' = [jobs EXCEPT ![h] = [Done EXCEPT !.at = "trigger", !.table = t, !.call = type]]
  /\ UNCHANGED <<rows, book, changes, board, history>>

\* triggerPublicCall refuses a call that is active with the same type...
BeginTrigger(h, t, type) ==
  /\ jobs[h].at = "idle" /\ There(t) /\ calls[t] # type
  /\ jobs' = [jobs EXCEPT ![h] = [Done EXCEPT !.at = "trigger", !.table = t, !.call = type]]
  /\ UNCHANGED <<rows, book, changes, board, history>>

\* ...and in a later statement sets it, over whatever is active by then.
RaiseCall(h) ==
  LET t == jobs[h].table IN
  /\ jobs[h].at = "trigger" /\ There(t)
  /\ calls' = [calls EXCEPT ![t] = jobs[h].call]
  /\ RowChanges(t)
  /\ Announce(h, t)
  /\ overlapped' = (overlapped \ {h}) \union
       {g \in Handlers \ {h} : jobs[g].at = "trigger" /\ jobs[g].table = t}
  /\ UNCHANGED <<status, book, board, drifted>>

\* Faulty: dismissed calls are not announced.
DismissUnannounced(h, t) ==
  /\ jobs[h].at = "idle" /\ There(t)
  /\ calls' = [calls EXCEPT ![t] = "NONE"]
  /\ RowChanges(t)
  /\ UNCHANGED <<status, book, jobs, board, history>>

\* Faulty: the type of the call is overwritten with null.
DismissToNull(h, t) ==
  /\ jobs[h].at = "idle" /\ There(t)
  /\ calls' = [calls EXCEPT ![t] = Null]
  /\ RowChanges(t)
  /\ Announce(h, t)
  /\ UNCHANGED <<status, book, board, history>>

\* dismissCall: whatever call the table has is over.
DismissCall(h, t) ==
  /\ jobs[h].at = "idle" /\ There(t)
  /\ calls' = [calls EXCEPT ![t] = "NONE"]
  /\ RowChanges(t)
  /\ Announce(h, t)
  /\ UNCHANGED <<status, book, board, history>>

\* The row to delete or to update is gone (P2025), or the connection is.
Reject(h) ==
  /\ jobs[h].at \in {"delete", "trigger"}
  /\ jobs' = [jobs EXCEPT ![h] = Done]
  /\ overlapped' = overlapped \ {h}
  /\ UNCHANGED <<rows, book, changes, board, drifted>>

-------------------------------------------------------------------------------
(* Changes nobody announces.                                                *)

\* authorizeVoid cancels an order; updateOrder with tableId null takes it off
\* its table (emitOrdersChanged is called for the new table only).
SilentOrderChange(o) ==
  /\ place[o] # NoTable
  /\ OrdersChange({place[o]})
  /\ \E t \in {place[o], NoTable} : place' = [place EXCEPT ![o] = t]
  /\ drifted' = drifted \union {place[o]}
  /\ UNCHANGED <<rows, jobs, board, overlapped>>

\* TablesService.update.
UpdateTable(t, new) ==
  /\ There(t)
  /\ status' = [status EXCEPT ![t] = new]
  /\ RowChanges(t)
  /\ drifted' = drifted \union {t}
  /\ UNCHANGED <<calls, book, jobs, board, overlapped>>

\* TablesService.delete, with the table's orders.
DeleteTable(t) ==
  /\ There(t)
  /\ status' = [status EXCEPT ![t] = "DELETED"]
  /\ place' = [o \in OrderIds |-> IF place[o] = t THEN NoTable ELSE place[o]]
  /\ drifted' = drifted \union {t}
  /\ UNCHANGED <<calls, rowVersion, orderVersion, changes, jobs, board, overlapped>>

-------------------------------------------------------------------------------
(* getSingleTableSnapshot and emitOrdersChanged.                            *)

\* The row: null unless the table is ACTIVE.
ReadTable(h) ==
  LET t == jobs[h].table IN
  /\ jobs[h].at = "table"
  /\ jobs' = [jobs EXCEPT ![h] =
                IF status[t] = "ACTIVE"
                THEN [@ EXCEPT !.at = "orders", !.seen = Snapshot(rowVersion[t], 0)]
                ELSE [@ EXCEPT !.at = "emit", !.seen = Null]]
  /\ UNCHANGED <<rows, book, changes, board, history>>

\* Faulty: the orders come from a replica that may lag behind.
ReadLaggingOrders(h) ==
  LET t == jobs[h].table IN
  /\ jobs[h].at = "orders"
  /\ \E v \in 0 .. orderVersion[t] :
       jobs' = [jobs EXCEPT ![h].at = "emit", ![h].seen.orders = v]
  /\ UNCHANGED <<rows, book, changes, board, history>>

\* The table's active orders, by a query of their own.
ReadOrders(h) ==
  LET t == jobs[h].table IN
  /\ jobs[h].at = "orders"
  /\ jobs' = [jobs EXCEPT ![h].at = "emit", ![h].seen.orders = orderVersion[t]]
  /\ UNCHANGED <<rows, book, changes, board, history>>

Emit(h) ==
  LET t == jobs[h].table IN
  /\ jobs[h].at = "emit"
  /\ board' = [board EXCEPT ![t] = jobs[h].seen]
  /\ jobs' = [jobs EXCEPT ![h] = Done]
  /\ overlapped' = (overlapped \ {h}) \union
       {g \in Handlers \ {h} : jobs[g].at \in {"orders", "emit"} /\ jobs[g].table = t}
  /\ drifted' = IF h \in overlapped THEN drifted \union {t} ELSE drifted
  /\ UNCHANGED <<rows, book, changes>>

\* A query fails: the caller gets an error for a change that is committed.
FailSnapshot(h) ==
  /\ jobs[h].at \in {"table", "orders"}
  /\ jobs' = [jobs EXCEPT ![h] = Done]
  /\ overlapped' = overlapped \ {h}
  /\ drifted' = drifted \union {jobs[h].table}
  /\ UNCHANGED <<rows, book, changes, board>>

\* The process restarts: handlers and connections are gone.
Restart ==
  /\ jobs' = [h \in Handlers |-> Done]
  /\ board' = [t \in Tables |-> Unsent]
  /\ overlapped' = {} /\ drifted' = {}
  /\ UNCHANGED <<rows, book, changes>>

-------------------------------------------------------------------------------
Change(h) ==
  \/ \E o \in OrderIds : BeginDelete(h, o) \/ \E t \in Tables : PlaceOrder(h, o, t) \/ AmendOrder(h, o, t)
  \/ \E t \in Tables : DismissCall(h, t) \/ \E type \in CallTypes : BeginTrigger(h, t, type)

\* The next step of a handler that has begun, before it emits.
Continue(h) == DeleteOrder(h) \/ RaiseCall(h) \/ ReadTable(h) \/ ReadOrders(h)

Silent == \/ \E o \in OrderIds : SilentOrderChange(o)
          \/ \E t \in Tables : DeleteTable(t) \/ \E new \in {"ACTIVE", "INACTIVE"} : UpdateTable(t, new)

\* What no socket hears of.
Unheard == Silent \/ \E h \in Handlers : Change(h) \/ Continue(h) \/ Reject(h) \/ FailSnapshot(h)

Next == Unheard \/ Restart \/ \E h \in Handlers : Emit(h)

\* A handler that awaits a query is resumed when the answer arrives.
Fairness == \A h \in Handlers : WF_vars(ReadTable(h) \/ ReadOrders(h) \/ Emit(h))

Spec == Init /\ [][Next]_vars /\ Fairness

-------------------------------------------------------------------------------
(* Properties.                                                              *)

AtLeast(new, old) == new.row >= old.row /\ new.orders >= old.orders

\* When nobody is busy announcing a table, the last snapshot the room got of it
\* is what the table is now, unless the table changed without an announcement,
\* its snapshot failed, or two announcements of it overlapped.
BoardIsCurrentWhenQuiet ==
  \A t \in Tables \ drifted :
    board[t] = Unsent \/ board[t] = Current(t)
      \/ \E h \in Handlers : jobs[h].at \in {"table", "orders", "emit"} /\ jobs[h].table = t

\* The board of a table goes back in time only when the handler that emits had
\* begun to read before the previous emit: two emitOrdersChanged overlapping.
BoardGoesBackOnlyOnOverlap ==
  [][\A t \in Tables :
       (board[t] \in Snapshots /\ board'[t] \in Snapshots /\ ~AtLeast(board'[t], board[t]))
       => \E h \in overlapped : jobs[h].at = "emit" /\ jobs[h].table = t /\ jobs'[h] = Done]_vars

\* A waiter call that is active is raised again with the same type only by a
\* request that had read the table before it was raised (waiter_call_already_active).
CallRaisedTwiceOnlyOnOverlap ==
  [][\A h \in Handlers :
       (jobs[h].at = "trigger" /\ jobs'[h].at = "table" /\ calls[jobs[h].table] = jobs[h].call)
       => h \in overlapped]_vars
===============================================================================
