-------------------------------- MODULE Orders --------------------------------
(***************************************************************************)
(* orders.service.ts, tables.service.ts and authorizeVoid under concurrent *)
(* HTTP requests.  PostgreSQL runs the Prisma transactions READ COMMITTED, *)
(* without explicit locks: every read inside a handler sees the state      *)
(* committed at that moment, what it saw may be stale when it is used, and *)
(* the writes of a handler become visible together at its commit.  So a    *)
(* handler is a request record that passes one read per step and ends in   *)
(* one write step; handlers whose reads only test that a row exists before *)
(* a write that fails anyway without it are a single step.                 *)
(***************************************************************************)
EXTENDS OrderData, FiniteSets

CONSTANTS Clients,    \* concurrent requests: one per client at a time
          Allowed,    \* dishes and the options of the groups they have
          AskedTypes, AskedStatuses,  \* what requests ask for, of the enums
          MaxLines,   \* bound on the lines of one order: appends stop there
          NoOrder,    \* the order of a request that has none
          Unchanged   \* a field the update DTO leaves out

ASSUME AskedAssumption == AskedTypes \subseteq OrderTypes /\ AskedStatuses \subseteq OrderStatus
ASSUME AllowedAssumption == Allowed \subseteq Dishes \X Options
ASSUME SentinelAssumption == /\ NoOrder \notin OrderIds
                             /\ Unchanged \notin Tables \union {NoTable}
                             /\ Unchanged \notin OrderStatus

VARIABLES
  tables,     \* DiningTable rows: their status, or not created / deleted
  dishes,     \* Dish rows: there, isAvailable, price
  options,    \* ModifierOption rows: there, price
  staff,      \* User rows a waiterId can point to
  orders,     \* Order rows with their items
  requests,   \* what each client's handler is doing and has read
  overtaken   \* history: handlers whose order was closed (appends) or taken
              \* by a waiter (updates) after they had started on it

room == <<tables, staff>>
catalogue == <<dishes, options>>
vars == <<room, catalogue, orders, requests, overtaken>>

TableStates == {"UNUSED", "ACTIVE", "INACTIVE", "DELETED"}
ThereIn == {"ACTIVE", "INACTIVE"}

Idle == [op |-> "none", at |-> "idle", order |-> NoOrder, type |-> "DINE_IN",
         table |-> NoTable, status |-> Unchanged, user |-> NoWaiter,
         claim |-> FALSE, dish |-> NoOption, option |-> NoOption,
         quantity |-> 0, unitPrice |-> 0]

Request == [op : {"none", "create", "append", "update"},
            at : {"idle", "table", "dish", "option", "current", "write"},
            order : OrderIds \union {NoOrder},
            type : OrderTypes,
            table : Tables \union {NoTable, Unchanged},
            status : OrderStatus \union {Unchanged},
            user : Waiters \union {NoWaiter},
            claim : BOOLEAN,
            dish : Dishes \union {NoOption},
            option : Options \union {NoOption},
            quantity : Quantities \union {0},
            unitPrice : UnitPrices \union {0}]

Live(o) == orders[o].life = "LIVE"
Open(o) == Live(o) /\ orders[o].status \notin Closed

TypeOK ==
  /\ tables \in [Tables -> TableStates]
  /\ dishes \in [Dishes -> [there : BOOLEAN, isAvailable : BOOLEAN, price : Prices]]
  /\ options \in [Options -> [there : BOOLEAN, price : Prices]]
  /\ staff \subseteq Waiters
  /\ orders \in [OrderIds -> Order]
  /\ requests \in [Clients -> Request]
  /\ overtaken \subseteq Clients

Init ==
  /\ tables \in [Tables -> {"ACTIVE", "INACTIVE", "UNUSED"}]
  /\ \E price \in Prices :
       /\ dishes = [d \in Dishes |-> [there |-> TRUE, isAvailable |-> TRUE, price |-> price]]
       /\ options = [m \in Options |-> [there |-> TRUE, price |-> price]]
  /\ staff = Waiters
  /\ orders = [o \in OrderIds |-> Blank("UNUSED")]
  /\ requests = [c \in Clients |-> Idle]
  /\ overtaken = {}

-------------------------------------------------------------------------------
(* History: who was overtaken.  Not code; only the properties read it.     *)

\* This step closes the order that client c is appending to, or gives the
\* order c is updating to a waiter.
Overtakes(c) ==
  \E o \in OrderIds :
    /\ requests[c].order = o
    /\ \/ requests[c].op = "append" /\ Open(o) /\ orders'[o].status \in Closed
       \/ requests[c].op = "update" /\ orders'[o].waiter \notin {orders[o].waiter, NoWaiter}

\* Conjoined to every step that changes requests or orders.
NoteOvertaken ==
  overtaken' = {c \in Clients : /\ requests'[c].at # "idle"
                                /\ c \in overtaken \/ Overtakes(c)}

-------------------------------------------------------------------------------
(* The requests.  Begin* is the handler up to and including its first read. *)

Advance(c, request) == requests' = [requests EXCEPT ![c] = request]

\* The handler throws, or its transaction is rolled back: nothing is written.
Reject(c) == Advance(c, Idle)

\* A line of the DTO: dish, optional modifier option, quantity.
WithLine(request, dish, option, quantity) ==
  [request EXCEPT !.dish = dish, !.option = option, !.quantity = quantity]

\* createPublicOrder and createOrder: a DINE_IN order names a table, and a
\* table that is named has to be ACTIVE in this restaurant.
BeginCreate(c) ==
  /\ requests[c].at = "idle"
  /\ \E type \in AskedTypes, table \in Tables \union {NoTable}, dish \in Dishes,
        option \in Options \union {NoOption}, quantity \in Quantities :
       /\ type = "DINE_IN" => table # NoTable
       /\ table # NoTable => tables[table] = "ACTIVE"
       /\ Advance(c, WithLine([Idle EXCEPT !.op = "create", !.at = "dish",
                                           !.type = type, !.table = table],
                              dish, option, quantity))
  /\ UNCHANGED <<room, catalogue, orders>>
  /\ NoteOvertaken

\* Faulty variant of Appendable: without the order_closed check.
AppendableClosedToo(o) == Live(o) /\ orders[o].table # NoTable

\* What appendItemsToPublicOrder asks of the order it finds.
Appendable(o) == Open(o) /\ orders[o].table # NoTable

\* appendItemsToPublicOrder reads the order: it must be open and at a table.
BeginAppend(c) ==
  /\ requests[c].at = "idle"
  /\ \E o \in OrderIds, dish \in Dishes, option \in Options \union {NoOption},
        quantity \in Quantities :
       /\ Appendable(o)
       /\ Len(orders[o].items) < MaxLines
       /\ Advance(c, WithLine([Idle EXCEPT !.op = "append", !.at = "table",
                                           !.order = o, !.table = orders[o].table],
                              dish, option, quantity))
  /\ UNCHANGED <<room, catalogue, orders>>
  /\ NoteOvertaken

\* updateOrder reads that the order exists.  The DTO may leave the table out,
\* name one, or carry null (IsOptional skips the other validators on null).
BeginUpdate(c) ==
  /\ requests[c].at = "idle"
  /\ \E o \in OrderIds, status \in AskedStatuses \union {Unchanged},
        table \in Tables \union {NoTable, Unchanged}, user \in staff :
       /\ Live(o)
       /\ Advance(c, [Idle EXCEPT !.op = "update", !.order = o, !.status = status,
                                  !.table = table, !.user = user,
                                  !.at = IF table \in Tables THEN "table" ELSE "current"])
  /\ UNCHANGED <<room, catalogue, orders>>
  /\ NoteOvertaken

\* ensureActiveTableBelongsToRestaurant, for the table the request holds.
CheckTable(c) ==
  LET r == requests[c] IN
  /\ r.at = "table"
  /\ IF tables[r.table] = "ACTIVE"
     THEN Advance(c, [r EXCEPT !.at = IF r.op = "update" THEN "current" ELSE "dish"])
     ELSE Reject(c)
  /\ UNCHANGED <<room, catalogue, orders>>
  /\ NoteOvertaken

\* buildOrderItems: the dish must be there and available; its price is taken
\* now.  Without modifiers getModifierOptionMap asks the database nothing.
ReadDish(c) ==
  LET r == requests[c] IN
  /\ r.at = "dish"
  /\ IF dishes[r.dish].there /\ dishes[r.dish].isAvailable
     THEN Advance(c, [r EXCEPT !.unitPrice = dishes[r.dish].price,
                               !.at = IF r.option = NoOption THEN "write" ELSE "option"])
     ELSE Reject(c)
  /\ UNCHANGED <<room, catalogue, orders>>
  /\ NoteOvertaken

\* getModifierOptionMap: the option must be there (its isAvailable is not looked
\* at) and of a group that the dish has; its price is added to the dish's, as
\* often as the request takes it.
ReadOption(c) ==
  LET r == requests[c] IN
  /\ r.at = "option"
  /\ IF options[r.option].there /\ <<r.dish, r.option>> \in Allowed
     THEN \E times \in Quantities :
            Advance(c, [r EXCEPT !.unitPrice = @ + options[r.option].price * times, !.at = "write"])
     ELSE Reject(c)
  /\ UNCHANGED <<room, catalogue, orders>>
  /\ NoteOvertaken

\* Faulty variant of Claims: does not look at what the order is by now.
ClaimsAnyOrder(r) == r.status = "IN_PROGRESS" /\ Live(r.order)

\* Starting work on a pending order that has no waiter claims it.
Claims(r) == /\ r.status = "IN_PROGRESS"
             /\ Live(r.order)
             /\ orders[r.order].status = "PENDING"
             /\ orders[r.order].waiter = NoWaiter

\* updateOrder reads waiter and status: whoever starts work on a pending order
\* without a waiter becomes its waiter.  A row gone by now is not an error yet.
ReadCurrent(c) ==
  LET r == requests[c] IN
  /\ r.at = "current"
  /\ Advance(c, [r EXCEPT !.at = "write", !.claim = Claims(r)])
  /\ UNCHANGED <<room, catalogue, orders>>
  /\ NoteOvertaken

-------------------------------------------------------------------------------
(* The write steps.  A row that is gone (P2025) or a foreign key that no    *)
(* longer holds makes the statement fail and rolls the transaction back.    *)

LineOf(r) == [dish |-> r.dish, option |-> r.option, quantity |-> r.quantity,
              unitPrice |-> r.unitPrice]

TableThere(t) == t = NoTable \/ tables[t] \in ThereIn

\* OrderItem.dish and OrderItemModifier.modifierOption.
ItemsThere(r) == /\ dishes[r.dish].there
                 /\ r.option # NoOption => options[r.option].there

NewOrder(r) ==
  [Blank("LIVE") EXCEPT !.type = r.type, !.table = r.table,
                        !.totalAmount = LineAmount(LineOf(r)),
                        !.items = <<LineOf(r)>>]

\* createOrderInternal: tx.order.create with the nested items.
InsertOrder(c) ==
  LET r == requests[c] IN
  /\ r.op = "create" /\ r.at = "write"
  /\ IF TableThere(r.table) /\ ItemsThere(r)
     THEN \E o \in OrderIds : /\ orders[o].life = "UNUSED"
                             /\ orders' = [orders EXCEPT ![o] = NewOrder(r)]
     ELSE UNCHANGED orders
  /\ Reject(c)
  /\ UNCHANGED <<room, catalogue>>
  /\ NoteOvertaken

\* Faulty variant of Appended: sets the total instead of incrementing it.
AppendedTotalSet(order, r) ==
  [order EXCEPT !.items = Append(@, LineOf(r)),
                !.totalAmount = LineAmount(LineOf(r))]

\* The order with the request's line: totalAmount { increment }, items { create }.
Appended(order, r) ==
  [order EXCEPT !.items = Append(@, LineOf(r)),
                !.totalAmount = @ + LineAmount(LineOf(r))]

\* appendItemsToPublicOrder: tx.order.update by id alone, whatever the status
\* and the table of the order are by now.
AppendItems(c) ==
  LET r == requests[c] IN
  /\ r.op = "append" /\ r.at = "write"
  /\ IF Live(r.order) /\ ItemsThere(r)
     THEN /\ Len(orders[r.order].items) < MaxLines
          /\ orders' = [orders EXCEPT ![r.order] = Appended(@, r)]
     ELSE UNCHANGED orders
  /\ Reject(c)
  /\ UNCHANGED <<room, catalogue>>
  /\ NoteOvertaken

\* Faulty variant of Updated: writes a status the DTO left out.
UpdatedStatusAlways(order, r) ==
  [order EXCEPT !.status = r.status,
                !.table = IF r.table = Unchanged THEN @ ELSE r.table,
                !.waiter = IF r.claim THEN r.user ELSE @]

\* The order with the columns the DTO names, and the waiter of a claim.
Updated(order, r) ==
  [order EXCEPT !.status = IF r.status = Unchanged THEN @ ELSE r.status,
                !.table = IF r.table = Unchanged THEN @ ELSE r.table,
                !.waiter = IF r.claim THEN r.user ELSE @]

\* updateOrder: tx.order.update by id alone.
WriteUpdate(c) ==
  LET r == requests[c] IN
  /\ r.op = "update" /\ r.at = "write"
  /\ IF /\ Live(r.order)
        /\ r.table # Unchanged => TableThere(r.table)
        /\ r.claim => r.user \in staff
     THEN orders' = [orders EXCEPT ![r.order] = Updated(@, r)]
     ELSE UNCHANGED orders
  /\ Reject(c)
  /\ UNCHANGED <<room, catalogue>>
  /\ NoteOvertaken

\* Prisma rolls an interactive transaction back when it outlives its timeout
\* or loses the connection; the process may also go down.
Abort(c) ==
  /\ requests[c].at # "idle"
  /\ Reject(c)
  /\ UNCHANGED <<room, catalogue, orders>>
  /\ NoteOvertaken

-------------------------------------------------------------------------------
(* Handlers whose reads only test that the row exists.                      *)

\* deleteOrder; the items go by cascade.
DeleteOrder(o) ==
  /\ Live(o)
  /\ orders' = [orders EXCEPT ![o] = Blank("GONE")]
  /\ UNCHANGED <<room, catalogue, requests>>
  /\ NoteOvertaken

\* authorizeVoid, once the manager's PIN has been accepted.
VoidOrder(o) ==
  /\ Live(o)
  /\ orders' = [orders EXCEPT ![o] = [@ EXCEPT !.status = "CANCELED"]]
  /\ UNCHANGED <<room, catalogue, requests>>
  /\ NoteOvertaken

\* TablesService.create.
CreateTable(t, status) ==
  /\ tables[t] = "UNUSED"
  /\ tables' = [tables EXCEPT ![t] = status]
  /\ UNCHANGED <<staff, catalogue, orders, requests, overtaken>>

\* TablesService.update, as far as orders see it.
UpdateTable(t, status) ==
  /\ tables[t] \in ThereIn
  /\ tables' = [tables EXCEPT ![t] = status]
  /\ UNCHANGED <<staff, catalogue, orders, requests, overtaken>>

\* TablesService.delete: Order.table is onDelete Cascade.
DeleteTable(t) ==
  /\ tables[t] \in ThereIn
  /\ tables' = [tables EXCEPT ![t] = "DELETED"]
  /\ orders' = [o \in OrderIds |-> IF orders[o].table = t THEN Blank("GONE")
                                                          ELSE orders[o]]
  /\ UNCHANGED <<staff, catalogue, requests>>
  /\ NoteOvertaken

\* DishesService.updateDish and the inventory's availability, as orders see them.
UpdateDish(d, isAvailable, price) ==
  /\ dishes[d].there
  /\ dishes' = [dishes EXCEPT ![d] = [@ EXCEPT !.isAvailable = isAvailable, !.price = price]]
  /\ UNCHANGED <<room, options, orders, requests, overtaken>>

\* Some order has an item of this dish / with this option.
DishOrdered(d) == \E o \in OrderIds : \E i \in DOMAIN orders[o].items : orders[o].items[i].dish = d
OptionOrdered(m) == \E o \in OrderIds : \E i \in DOMAIN orders[o].items : orders[o].items[i].option = m

\* Faulty variant of DeleteDish: the foreign key does not restrict.
DeleteDishUnrestricted(d) ==
  /\ dishes[d].there
  /\ dishes' = [dishes EXCEPT ![d] = [@ EXCEPT !.there = FALSE]]
  /\ UNCHANGED <<room, options, orders, requests, overtaken>>

\* DishesService.deleteDish: OrderItem.dish is onDelete Restrict.
DeleteDish(d) ==
  /\ dishes[d].there
  /\ ~DishOrdered(d)
  /\ dishes' = [dishes EXCEPT ![d] = [@ EXCEPT !.there = FALSE]]
  /\ UNCHANGED <<room, options, orders, requests, overtaken>>

\* ModifiersService.updateGroup on one option: a new price, or its deletion,
\* which OrderItemModifier.modifierOption restricts.
UpdateOption(m, price) ==
  /\ options[m].there
  /\ options' = [options EXCEPT ![m] = [@ EXCEPT !.price = price]]
  /\ UNCHANGED <<room, dishes, orders, requests, overtaken>>

DeleteOption(m) ==
  /\ options[m].there
  /\ ~OptionOrdered(m)
  /\ options' = [options EXCEPT ![m] = [@ EXCEPT !.there = FALSE]]
  /\ UNCHANGED <<room, dishes, orders, requests, overtaken>>

\* StaffService.deleteStaff: Order.waiter is onDelete SetNull.
DeleteStaff(w) ==
  /\ w \in staff
  /\ staff' = staff \ {w}
  /\ orders' = [o \in OrderIds |->
                  [orders[o] EXCEPT !.waiter = IF @ = w THEN NoWaiter ELSE @]]
  /\ UNCHANGED <<tables, catalogue, requests>>
  /\ NoteOvertaken

-------------------------------------------------------------------------------
RequestStep(c) ==
  \/ BeginCreate(c) \/ BeginAppend(c) \/ BeginUpdate(c)
  \/ CheckTable(c) \/ ReadDish(c) \/ ReadOption(c) \/ ReadCurrent(c)
  \/ InsertOrder(c) \/ AppendItems(c) \/ WriteUpdate(c) \/ Abort(c)

OrderStep(o) == DeleteOrder(o) \/ VoidOrder(o)

TableStep(t) ==
  \/ \E status \in ThereIn : CreateTable(t, status) \/ UpdateTable(t, status)
  \/ DeleteTable(t)

CatalogueStep ==
  \/ \E d \in Dishes : \/ \E a \in BOOLEAN, p \in Prices : UpdateDish(d, a, p)
                      \/ DeleteDish(d)
  \/ \E m \in Options : \/ \E p \in Prices : UpdateOption(m, p)
                       \/ DeleteOption(m)

Next == \/ \E c \in Clients : RequestStep(c)
        \/ \E o \in OrderIds : OrderStep(o)
        \/ \E t \in Tables : TableStep(t)
        \/ CatalogueStep
        \/ \E w \in Waiters : DeleteStaff(w)

Spec == Init /\ [][Next]_vars

-------------------------------------------------------------------------------
(* Properties.                                                              *)

\* What an order points to exists: its table, its waiter, the dish and the
\* option of every item.  The handlers check dish and table in reads of their
\* own before they insert; this must hold although the rows can go in between
\* (ensureActiveTableBelongsToRestaurant, buildOrderItems, onDelete rules).
ReferencesExist ==
  \A o \in OrderIds : Live(o) =>
    /\ TableThere(orders[o].table)
    /\ orders[o].waiter \in staff \union {NoWaiter}
    /\ \A i \in DOMAIN orders[o].items : ItemsThere(orders[o].items[i])

\* A line is added to a closed order only by an append that had found the order
\* open and was overtaken by the step that closed it (order_closed check in
\* appendItemsToPublicOrder).
ClosedGrowsOnlyWhenOvertaken ==
  [][\A o \in OrderIds :
       (/\ Live(o) /\ orders[o].status \in Closed
        /\ orders'[o].life = "LIVE" /\ orders'[o].items # orders[o].items)
       => \E c \in overtaken : /\ requests[c].op = "append" /\ requests[c].order = o
                               /\ requests'[c] = Idle]_vars

\* A waiter loses an order to another only to a claim that had read the order
\* before it was his: two waiters racing for one pending order (updateOrder).
WaiterReplacedOnlyWhenOvertaken ==
  [][\A o \in OrderIds :
       (orders[o].waiter # NoWaiter /\ orders'[o].waiter \notin {NoWaiter, orders[o].waiter})
       => \E c \in overtaken : /\ requests[c].op = "update" /\ requests[c].order = o
                               /\ requests'[c] = Idle]_vars

\* The handlers, with everything that can happen between their statements,
\* behave like the atomic operations of the book: totals move with the lines,
\* priced lines never change, only work on an order gives it a waiter.
Book == INSTANCE OrderBook WITH orders <- orders
ImplementsOrderBook == Book!Spec

\* A DINE_IN order always has a table (create-order.dto.ts: "Required for
\* DINE_IN orders"); updateOrder with tableId null takes it away.
DineInHasTable ==
  \A o \in OrderIds : Live(o) /\ orders[o].type = "DINE_IN" => orders[o].table # NoTable
===============================================================================
