# TLA+ models of the Create Your Restaurant back end

The repository is a NestJS server over PostgreSQL (Prisma): owners run
restaurants, guests place orders from a table's QR code, staff work on them, a
live board follows the tables over socket.io. This directory holds models of the
parts whose correctness depends on the order in which things happen, the TLC
runs that check them, and TLAPS proofs about each of them.

Why here: almost every handler reads what it depends on in one query, awaits,
and writes in another. Two requests of the same restaurant interleave at every
`await`; Prisma's interactive transactions run at PostgreSQL's default, READ
COMMITTED, with no explicit locks, so a transaction does not change that for
reads. Part of the state is not in the database at all (login counters, the
schedule of Cloudinary deletions, socket rooms) and is gone at a restart. The
unit tests of the repository call one handler at a time on mocked tables and see
none of it.

## 1. Inventory

| Part (source) | State | Operations | Works with | What is hard | What makes it correct | Module |
|---|---|---|---|---|---|---|
| Orders (`orders/`) | Order, OrderItem, OrderItemModifier | create (public, staff), append, update, delete | tables, dishes, options, staff, live monitor | checks in reads before the write; update by id alone | what an order points to exists; totals move with the lines; a closed order does not grow, a waiter keeps his order, unless overtaken | Orders, OrderBook |
| Staff operations (`staff/staff-operations`) | – | void an order with a manager's PIN | orders | not announced | – | Orders, LiveMonitor |
| Tables (`tables/`) | DiningTable | create, update, delete | orders (cascade), board | deletion under a running order | as orders | Orders, LiveMonitor |
| Live monitor (`live-monitor/`) | socket rooms; nothing else | emitOrdersChanged, connect, subscribe, unsubscribe, snapshots | orders, calls, sessions, staff | commit, two reads, emit: not atomic, not ordered, lost by a crash; check, then join | the last snapshot emitted is what the table is; who is in the room asked for it and has access; a page that fetched and listens shows what is | LiveMonitor, LiveRoom |
| Live calls (`live-calls/`) | three columns of DiningTable | trigger, dismiss | board | check, then set | one active call of a type is raised once | LiveMonitor |
| Restaurants and modules (`restaurants/`) | Restaurant, purchasedModules, activeModules | create, delete, connectModule, toggleModule | staff (permissions), menu | limit on a count read before; arrays written back | active modules are purchased; nothing purchased is lost; the limit | Restaurants |
| Staff and roles (`staff/`, `guards/permissions.guard`) | User, StaffRole (referred to by name) | role and member handlers behind a guard | restaurants (modules), sessions | guard, validation, bcrypt and write are apart | a member's role exists; only role managers assign roles | Staff |
| Photos (`menu/dishes`, `cloudinary/`) | Image, ImageDish, a Map of pending deletions, Cloudinary | updateDishPhotos, deleteDish, hourly sweep | Cloudinary | sweep and request interleave; failing calls; restart | shown photos are stored; others are deleted | Photos |
| Inventory (`inventory/`) | InventoryItem, InventoryItemState, Dish.isAvailable | create, update, delete | dishes | write skew between two items of a dish | availability agrees with stock; stock has a history | Inventory |
| Users and sessions (`users/`, `guards/session-auth.guard`) | User, Session, two Maps | request a code, verify it, log out, clean-up | staff, mail | counters read before awaits; codes overwritten | attempts are counted; a code gives one session; one account | Login |
| Dishes (`menu/dishes`) | Dish, DishIngredient | create, update, delete, reorder | orders, inventory, menu | – | as the parts that use them | in Menu, Orders, Inventory, Photos |
| Modifiers (`modifiers/`) | ModifierGroup, ModifierOption | create, update, delete | orders | looks which options are used, deletes later; orders come between | used options survive; a group has the options last asked for | Modifiers; prices in Orders |
| Categories, lookups (`menu/`) | Category and others | create, update, delete, reorder, find or create | dishes | check, then create | names are unique | Menu (lookups left out) |
| Combos (`combos/`) | Combo, ComboDish | create, update, delete | dishes | difference with what was read, no unique index | a combo has the dishes last asked for | Menu |
| POS (`pos/`) | PosIntegration; the till's menu | connect, disconnect, syncMenu | categories, dishes | finds by name, then creates | nothing is imported twice or forgotten | Menu |
| Analytics (`analytics/`) | – | getSummary | orders | the chart is looked up by day and month, times are rounded to days | a bar shows its day; the days of the range have bars | Analytics |
| Visual settings, Stripe, infrastructure | one JSON column; –; – | save; create intents; start-up | – | one read-merge-write; nothing else | – | not modelled |

`PROJECT.json` lists every part with its status, every modelled definition with
the lines it stands for, and under `hazards` each place where the code can go
wrong in a way a test would hardly reach.

## 2. Modules

A module is one component. A handler is a record (`requests`, `jobs`) that says
where the handler is and what it has read; each step is one database statement,
one call of a service, or a stretch without `await`. What a step reads is the
state committed at that moment; the writes of a transaction become visible at
its commit.

* **OrderData** – the rows of an order and the constants of the next two.
* **OrderBook** – the abstract specification: the book of orders when each
  operation is one atomic step. It says what the subsystem promises whatever
  overlaps: a new order is pending and costs its line, each further line adds
  exactly its price, priced lines never change, an order gets a waiter only when
  work starts, a deleted id stays deleted, deleting a table takes its orders and
  no others.
* **Orders** – `orders.service.ts`, `tables.service.ts`, `authorizeVoid`, and
  the changes of dishes, options and staff that orders can collide with.
  `BeginCreate`, `BeginAppend`, `BeginUpdate` are the handlers up to their first
  read; `CheckTable`, `ReadDish`, `ReadOption`, `ReadCurrent` the reads that
  follow (an option must be of a group of its dish, `Allowed`, and is taken so many
  times); `InsertOrder`, `AppendItems`, `WriteUpdate` the writes, with what the
  foreign keys and `onDelete` rules of `schema.prisma` do to them. `Abort` is the
  transaction's timeout. `ImplementsOrderBook` is the refinement.
* **LiveMonitor** – begins where those handlers commit: `Announce`, `ReadTable`,
  `ReadOrders`, `Emit` are `emitOrdersChanged` and its two queries;
  `BeginTrigger`, `RaiseCall`, `DismissCall` are the waiter calls;
  `SilentOrderChange`, `UpdateTable`, `DeleteTable` are the changes nobody
  announces. A snapshot is a pair of version numbers, of the table's row and of
  its orders; `board` is what the room was last told.
* **LiveRoom** – LiveMonitor with those who listen. `joiners` are the
  `handleConnection` and `subscribeToRestaurant` handlers in progress: `Connect`,
  `Validate`, `CheckAccess`, `Join` are a connection, query by query;
  `Subscribe` enters at the access check; `Unsubscribe` leaves at once;
  `Refuse` closes a connection, but only answers a subscription. `Deliver` is
  what an `Emit` does to the room. `FetchTables`, `FetchOrders`, `AnswerFetch`
  are `getTablesWithActiveOrders` for the page behind a socket; `view` is what
  the server sent that page last of each table. `RoomSpec` adds the fairness of the
  fetches to LiveMonitor's. Every step of LiveMonitor is
  one of LiveRoom with the room unchanged, an emit with its delivery, or a
  restart, which closes all sockets.
* **Restaurants** – one owner's restaurants and their modules.
* **Staff** – one restaurant's roles and members. A request passes the guard
  (`Enter`, `PassModule`, `PassRole`), looks up what it names and what its caller
  may (`Begin...`, `CheckName`, `ReadAvailable`, `ReadCaller`, `CheckRight`,
  `CheckRole`), and writes; each of those is one query, so the caller, the role and
  the modules may change between any two. The deletion of a role is its two
  statements in one transaction (`ClearRole`, `DeleteRole`). `Plain` is 'STAFF',
  which means no role to the code but may be a role's name.
* **Photos** – uploads, the transaction that puts them on a dish, the schedule
  and the sweep.
* **Inventory** – the stock transaction, statement by statement, with the rows
  it holds: that of the item when a column of it is written, those of the dishes
  it marks. An ingredient of quantity 0 counts as one.
* **Login** – codes, attempts, cooldown and sessions of one e-mail address.
* **Menu** – categories, dishes, combos and the import of the till's menu.
  `CheckNewCategory`/`InsertCategory`, `CheckRename`/`WriteRename`,
  `ReadCombo`/`WriteCombo` and `FetchMenu`/`ReadMenu`/`SyncMenu` are handlers of
  several steps; the others write in one statement what they looked up and are
  one step. The deletions do what `onDelete` says: dishes go with their category,
  combo rows with their dish, and a dish that was ordered keeps both.
* **Modifiers** – groups, options and the groups of dishes over Menu: a step of
  Menu is one here, with what `onDelete: Cascade` does to links (`Cascade`).
  `ReadGroup`/`WriteGroup` are the two ends of `updateGroup`'s transaction, which
  asks for options by id and for new ones, each available or not (`GroupRequests`, of
  which an instance takes some, `GroupAsks`).
  It holds the row of its group (`Locked`) only when it changes a column of it; an
  update of the options alone holds nothing, and what orders have nobody holds.
* **Analytics** – the revenue chart as operators: `BarDays` which days have a bar,
  `Looked` the lookup by day and month, `ChartData` the chart. No state, no run:
  its theorems are proved.
* **MC\*** – instances for TLC: values of structured constants, and symmetry.
* **\*_proofs** – the theorems about a module and their proofs. **LiveRoom_proofs** is
  about LiveMonitor and LiveRoom, **Modifiers_proofs** about Menu and Modifiers,
  **Orders_proofs** also about Analytics, which charts what orders brought in.

Conventions. Some variables are marked *history*: they record that a handler was
*overtaken* (what it relies on was written after it had read it) or that a
known gap was met. They are not code; only properties read them, no guard does.
They let a property say exactly when the code keeps a promise that it does not
keep always, instead of leaving the interleaving out. Some definitions are
marked *Faulty*: each is a mapped definition with a mistake one could make in
that code. They are not part of any specification; putting one in place of the
definition beside it must violate the property that is there to catch it, and
`mutants` in `PROJECT.json` names the pairs.

## 3. Runs

| Run | Instance | What it shows |
|---|---|---|
| `orders` | 2 clients, 1 order, table, dish; 2 lines; 2 waiters, or 1 and an option | Overlapping create, append and update, with every catalogue and staff change between their statements, implement the order book. Whatever is deleted between a check and an insert, no order points to a missing row: foreign keys carry it, not the checks. A line reaches a closed order, and a waiter is replaced, only through a request that was overtaken – both do happen in this run. |
| `orders_dine_in` | 1 client | *Violation.* See findings. |
| `live_monitor` | 2 handlers, 2 tables, 1 order, 3 changes | Quiet tables have a current board, outside the `drifted` gaps; the board goes back, and a call is raised twice, only on overlap. |
| `live_room` | 1 handler, 1 table, 1 change, 1 socket, 2 joiners; fairness | Who is in the room asked last to be, and had access; who asked last is in it or was refused; a quiet page that fetched and listens is current, outside the `behind` gaps. What a table has come to reaches every page that shows it and stays in the room: every commit is followed by its announcement, and every announcement by its emit. |
| `restaurants` | 2 requests, 2 restaurants, 3 modules | What is active was purchased; purchases are lost or doubled, and the limit passed, only when requests overlap. |
| `restaurant_limit` | the same | *Violation.* See findings. |
| `staff` | 2 requests, 2 members, 1 role row, 2 names, one of them 'STAFF' | A member's role exists, unless the request that gave it overlapped the role's deletion. A role is given by a role manager, unless his right changed since it was looked at, or it is 'STAFF' and the member new. |
| `photos` | 2 requests, 1 dish, 2 images | Shown photos are stored and not scheduled, nothing else is forgotten, outside the named gaps; every scheduled deletion is settled. |
| `inventory` | 2 requests, 2 items, 1 dish, stock and quantities 0..1 | Availability follows stock after every clean recomputation; only stock that was asked for is in a history. |
| `login` | 2 requests, 2 rows, 2 codes, 3 attempts | Wrong codes are counted, a lock holds, a code gives one session, is not taken away, and the address has one account – each unless overtaken. |
| `menu` | 2 requests, 2 categories, 2 dishes, 1 combo, one name in 2 spellings | References hold through every deletion; category names differ, an import completes the menu without doubling it, a combo gets what was asked – each unless overtaken. |
| `groups` | 2 requests, 1 category, 1 dish, 1 group, 2 options | A group gets the options asked for, available as asked, and no others unless overtaken; references hold. |

### Bounds and why they are enough

Every hazard in the list is between two actors, so two requests run at a time;
the third actor (staff changing dishes, the sweep, the clean-up, time) is an
action of its own. Per run:

* Ids (`OrderIds`, `Ids`, `Members`, `RoleIds`, `Images`, `UserIds`, `Codes`)
  are never used twice, as UUIDs and sequences are not, so their number bounds
  how often something is created. One order suffices, as the questions are
  about two requests on the same order and the rows it points to. Two images let a
  request replace what another has uploaded.
* `MaxLines` = 2: one line of the creation and one appended; an append to an
  order with that many lines is not begun.
* `MaxChanges` = 3 (`live_monitor`): a change, a second that overlaps it, a third
  that outdates both. In `live_room` it is 1: what a page misses, is sent late or
  overwrites is one change, before, between or after the two queries of its
  fetch; the announcements that overlap each other are `live_monitor`'s. Two
  joiners let a connection and a subscription, or an old and a new subscription,
  be checked at once; one socket, as sockets and users meet only in the room.
* `MaxStock` = 1: an ingredient is needed or not, in stock or not; the code only
  compares.
* `MaxAttempts` is 3 (Login; 5 in the code) and 1 (Photos; 3 in the code):
  first, one between, last. Counts above the maximum act alike and are capped.
* `MaxSessions` = 2: the second session of a code is what a property is about.
* `MaxFiles` = 2 per request: the second file of one may fail after the first was
  stored; with two images, the files of two requests overlap one each.
* `MultiLimit` = 2 (3 in the code): one below, at, and above the limit.
* `Most` = 2 (Menu): the till lists a dish once, or twice by mistake of its own.
  Two category ids let two categories get one name; two dish ids let a dish be
  imported twice, by two imports or by one listing.
* `Groups` = 1, `Options` = 2, `MaxNew` = 1 (`groups`): an update may delete an
  option or keep it because it is used, and add another, available or not
  (`GroupAsks`: all it asks for, or none). The run
  starts from a menu of one category with one dish and the group to come
  (`MenuOfOneDish`), and has no combos and no till: modifiers touch neither, and
  `menu` has no groups, so the two parts of one module are explored side by side
  instead of multiplied. That all types hold with both is proved.
* `staff` has two members, one to give the role and one to get it, and one role id:
  the role is created, given, changed and deleted. That a later namesake does not
  break the properties is left to the proofs. The owner's requests meet those of
  the members. Two names: one that is a role's, and 'STAFF', which may be one's.
* `orders` starts with all waiters and no option, or with one waiter and the option
  (`MCInit`): options are for lines and waiters for claims, and the two halves add
  up instead of multiplying. `AskedStatuses` is IN_PROGRESS, which claims; closing
  is left to `authorizeVoid`.
* `Tables` = 1, `OrderIds` = 1 (`orders`): an order of another table shares nothing
  with this one but dishes, and what deletes a row is not told how many point to
  it. The proofs have any number.
* `Allowed` (Orders): the instances have one dish, and it has the option's group; an
  option that is not allowed is refused like one that is not there.
* `Prices` = {1}, `Quantities` = {2} in the runs: the proofs cover all values,
  price changes included; in the runs the sum of a total still tells lines apart
  from their number.
* `AskedTypes`, `AskedStatuses`, `AskedSets` are what requests ask for, out of
  the enums. `authorizeVoid` reaches CANCELED; the proofs cover all five statuses.

Deadlock checking is off: ids and changes run out, and a server with nothing
left to be asked does stop. Liveness is checked where it is claimed.

### Fairness

`LiveMonitor`: each handler in `ReadTable`, `ReadOrders`, `Emit` is weakly fair;
a query that was sent is answered or fails, and Node resumes the function. Which
of them, and when, is open. `LiveRoom` says the same of the queries of a page's
fetch (`Answered`: it is answered or fails). Nothing is assumed of connections,
subscriptions or joins: a page that never gets into the room is not told.
`Photos`: weak fairness of `StartSweep` (the cron expression) and, per entry, of `Delete(i) \/ FailDelete(i)` (a call of Cloudinary
ends one way or the other). Nothing is assumed of requests, of clients, of
restarts, or of success. Safety modules assume no fairness.

### Findings

* `orders_dine_in` / `DineInHasTable`: the DTO says a table is required for
  DINE_IN orders and creation enforces it; `updateOrder` with `tableId: null`
  takes it away, after which items can no longer be appended.
* `restaurant_limit` / `NoneCreatedAtLimit`: the tests state that creation at
  the limit is refused; two overlapping creations both pass the count. The
  passing run `restaurants` shows that nothing else exceeds the limit.

## 4. Behaviour met while modelling

What the *Unless/OnlyWhenOvertaken* forms and the history variables stand for,
all reachable in the runs:

* An append that has passed the `order_closed` check writes although the order
  was completed meanwhile; two waiters that start work together both succeed and
  the second is kept (`orders.service.ts:86`, `:435`).
* Not announced to the board: `authorizeVoid`, table changes, the table an order
  was moved away from, an order that lost its table. Two announcements may
  arrive in the wrong order. If the snapshot fails after the commit, the client
  sees an error for an order that exists.
* A socket that unsubscribes while it is being let in is in the room afterwards.
  A client that subscribes before its token was looked up is refused, although
  nothing is wrong with it. A refused subscription leaves a socket in the room
  that was there before; a member who is deactivated goes on listening, as does
  one who logs out (sessions are not kept in the model: a token is found or not).
* Nothing is sent on joining: a page that fetched the tables before it joined has
  missed what was emitted in between, and an answer that comes after a newer
  emit puts the older state back (`behind`).
* `updateGroup` may keep an option whose order has just gone, as unavailable;
  the next update deletes it. An update of the options alone has no column to write
  to the group's row, so two of them overlap and each leaves the options that the
  other adds. An option id of another group is updated too, where it is.
  Orders do not ask whether an option is available, so one that was withdrawn can
  still be ordered.
* The revenue chart drops the year: in a range of more than a year a day without
  orders shows the revenue of that date a year before.
* `connectModule` and `toggleModule` write whole arrays they have read.
  Deleting the restaurant that bought `multi-restaurant` leaves the others with
  the module active and nobody who can switch it off.
* 'STAFF' means no role to `createStaff`, which writes it to the new member and asks
  for no right (`staff.service.ts:206`, `:252`). But a role may be created under that
  name (`create-staff-role.dto.ts:16`), and then every member created so has its
  permissions; `updateStaff` asks for the right (`:346`).
* A role is referred to by name. Deleting it clears its members in a first
  statement and the role in a second, so a member assigned in between points at
  nothing, or later at a namesake.
* `cancelDeletion` does not reach an entry the sweep has taken: the photo may be
  deleted while it is shown, and a failed deletion puts its entry back.
  Uploads with no place in the layout are cancelled too, and stay for good.
* Two stock updates on two ingredients of a dish miss each other (write skew).
  Editing a dish or deleting an item does not recompute availability.
* Two new categories, or a rename and a new one, get the same name; an import is
  exact about case where the handlers are not, so `Soup` and `soup` both exist
  after one, with no overlap. Overlapping updates of a combo leave the union of
  what was asked, and a dish twice when both added it.
* A verification adds one to the count it had read before two awaits. One that
  succeeds clears whichever code the row has by then. Two first requests of one
  address create two owners: the unique index does not cover a null restaurant.

## 5. Proofs

Each `*_proofs` module proves, for every value of the constants that their
`ASSUME`s allow (any number of requests, rows, sockets, versions, attempts),
what TLC checks on a small instance. Nothing else is assumed: sentinels are not
ids, limits and bounds are naturals, prices and quantities are what the schema
says, ids of different kinds differ (`JoinersAssumption`, LiveRoom), and there are
finitely many requests and dishes where they are counted (`FiniteAssumption`,
Menu). Each proof
has one inductive invariant; TLC has checked it on the instance of the run
before it was proved. `Init` gives it, one lemma per action or group of actions
keeps it, and the theorem on an action property follows from it step by step.

| Module | Theorem | Property | Of which specification |
|---|---|---|---|
| `Orders_proofs` | `TypeCorrect` | `TypeOK` | `Orders!Spec` |
| | `ReferentialIntegrity` | `ReferencesExist` | |
| | `ClosedOrders` | `ClosedGrowsOnlyWhenOvertaken` | |
| | `WaiterKept` | `WaiterReplacedOnlyWhenOvertaken` | |
| | `Refinement` | `ImplementsOrderBook` | |
| `LiveRoom_proofs` | `BoardIsCurrent` | `BoardIsCurrentWhenQuiet` | `LiveMonitor!Spec` |
| | `BoardInOrder` | `BoardGoesBackOnlyOnOverlap` | |
| | `CallRaisedOnce` | `CallRaisedTwiceOnlyOnOverlap` | |
| | `RoomTypeCorrect` | `RoomTypeOK` | `LiveRoom!RoomSpec` |
| | `RoomAsAsked` | `RoomIsAsAsked` | |
| | `ListenersAdmitted` | `ListenersHaveAccess` | |
| | `PageIsCurrent` | `PageIsCurrentWhenQuiet` | |
| `Restaurants_proofs` | `TypeCorrect` | `TypeOK` | `Restaurants!Spec` |
| | `ActivePurchased` | `ActiveIsPurchased` | |
| | `PurchasesKept` | `PurchaseLostOnlyWhenOvertaken` | |
| | `MultiBoughtOnce` | `MultiBoughtTwiceOnlyWhenOvertaken` | |
| | `LimitKept` | `LimitExceededOnlyWhenOvertaken` | |
| `Staff_proofs` | `TypeCorrect` | `TypeOK` | `Staff!Spec` |
| | `RolesExist` | `RoleOfMemberExists` | |
| | `RolesAssigned` | `RoleAssignedByRoleManager` | |
| `Photos_proofs` | `TypeCorrect` | `TypeOK` | `Photos!Spec` |
| | `PhotosSafe` | `ShownIsSafe` | |
| | `NoneForgotten` | `NothingForgotten` | |
| `Inventory_proofs` | `TypeCorrect` | `TypeOK` | `Inventory!Spec` |
| | `AvailabilityAgrees` | `AvailabilityAgreesWithStock` | |
| | `StockRecorded` | `StockIsRecorded` (proved only: the writes are one commit, so a run shows little) | |
| `Login_proofs` | `TypeCorrect` | `TypeOK` | `Login!Spec` |
| | `AttemptsCounted` | `WrongCodesAreCounted` | |
| | `LockHolds` | `LockedOutUnlessBegunBefore` | |
| | `CodeUsedOnce` | `CodeGivesOneSessionUnlessOvertaken` | |
| | `CodeKept` | `CodeKeptUnlessOvertaken` | |
| | `OneAccount` | `OneAccountUnlessOvertaken` | |
| `Modifiers_proofs` | `TypeCorrect` | `CatalogueTypeOK` | `Modifiers!CatalogueSpec` |
| | `ReferencesHold` | `CatalogueReferencesExist` | |
| | `NamesDiffer` | `CategoryNamesUnlessOvertaken` | |
| | `SyncCompletes` | `SyncCompletesTheMenu` | |
| | `ComboAsAsked` | `ComboIsAsAsked` | |
| | `GroupAsAsked` | `GroupIsAsAsked` | |
| `Orders_proofs` | `BarShowsItsDay`, `WholeDaysHaveBars` | – | operators of Analytics, no state |

The arguments, and what each part of an invariant is for. A thread runs through
most of them: a handler acts on what it has *read*, so the invariant says that
the reading of a handler that was not *overtaken* is still so. None of the
properties is inductive without it.

**Orders.** `Inv` is `TypeOK` (not inductive alone, because whether an order
gets a well-typed line depends on what the request holds); `RequestsOK`, what a
handler holds at each of its steps; `References`, stronger than
`ReferencesExist` – of every order, not only live ones, because a deletion must
not have to ask which orders are live; `OvertakenOK`: a handler whose order is in
a state it would have refused was overtaken. `OnlyAppendsGrow` and
`OnlyClaimsReplace` name the one action that can do the deed. `BookStep` maps
every step to one of the book or to a stutter. The map is the identity on
`orders`; requests in flight are what it forgets.

**LiveMonitor.** `MonitorInv` orders versions: what a handler has read, and what
was emitted, is of the past (`ReadIsPast`, `BoardIsPast`); it is no older than
what was emitted unless another emitted since (`ReadIsAhead`); a handler that is
the only one announcing its table has read the present (`ReadIsCurrent`) – so
that when it emits, the board is current. `CallsDiffer`:
a call about to be raised is not the active one, unless another was raised since
the table was read. `Commits` and `ChangesAnnounced`
sum up the eight actions that change a table in one lemma: a change drifts the
table or there is a handler that has not begun to read it, and no announcement
is given up silently.

**LiveRoom.** `RoomInv` adds the listeners to `MonitorInv`: `SocketsFit`,
`JoinersFit` (whose socket a joiner is, and that it is still wanted in the room or
was marked `late` or `lapsed` since), `OneConnection`, `RoomIsAsAsked`,
`ListenersHaveAccess`; and the pages: `PagesFit`, `FetchIsCurrent` (of a table nobody is announcing and that is not
`behind`, a fetch holds what the table is), from which
`PageIsCurrentWhenQuiet`. A step of LiveMonitor disturbs only the pages, a step
of the room never the board, so the two halves are proved apart.

**Restaurants.** `JobsFit`: what a request that was not overtaken has decided –
the limit, a first purchase, the arrays to write – still follows from the rows.
`IsFiniteSet(Own)` makes the count of restaurants a number.

**Staff.** `ReadsHold`: what a request has read is still so unless a row it relies
on was written since – the caller's role once it was read, that this role may give
roles, and that the role to be given is there. Each query adds to what is relied
on, and `Assigns` says of which writes it must hold. `RoleOfMemberExists` is part of
the invariant. The deletion of a role is two statements; what is between them is in
`disturbed`. Nothing is assumed of the names of roles but that null is none: of
'STAFF', which a new member is given for no right, `RolesAssigned` says just that.

**Photos.** `UploadsOK`: before its write an upload is on no dish and its
deletion is scheduled, done or given up; no image belongs to two requests.
`PhotosOK`: what is or was on a dish is stored unless a sweep `caught` it.

**Inventory.** `Fits`: what a request holds, and that the item it has written is
there; `Current`: a transaction that was not overtaken has read the dishes, their
ingredients and the stock as they are once it commits. What rows are locked is used
for that, not claimed.

**Login.** `CountOK`: a verification that nobody has outrun holds the count as it
is. `CodesOK`: a code is with one row and is not given again. `JobsOK`, `BasisOK`:
whose code a verification compares has not been redeemed or replaced, and whoever
stores a first user still sees none.

**Menu and Modifiers.** `Fits` says what a request holds, `Current` what is still
true of what it read unless it was overtaken: no category has the name it looked
for, the combo has the dishes it saw, each category of the till is the one it found
with the dishes it found, and the options of the group are those it saw,
of which some order has each it means to keep. No lock is needed: an update that
adds options writes the group that others rely on. That
gives `CategoryNamesUnlessOvertaken`, which is part of the invariant because the
step that gives a name must know that the names before it differ, and the three
properties of what a request leaves behind. `Writes` and the `...Keep` predicates
say once what a step may do to what others have read: a request goes on
undisturbed unless it relies on a row that was written. `ComboBounded` is
what makes the types of combos inductive: a dish is listed at most `Most` times for
each request that is no longer to add it (`Others`), and an update, once written, is
one of those. `Imports` says what an import writes in terms of its new ids, and
`RowsOf` counts its rows of a dish by a bijection with `1..till[n][x]`. Menu is
proved about as a part of Modifiers: a step of it comes with `Cascade`.

**Analytics.** `BarShowsItsDay`: each bar is the revenue of its own day, when rows
and bars are of less than a year (`IsCalendar`: a date comes again after 365 days
at the soonest). It rests on `KeptIsItself` (of days so close, each is kept under
its own date); `BarShowsEarlierYear` says what happens beyond a year.
`WholeDaysHaveBars`: of a range of at most 30 whole days exactly its days have a
bar, on a server whose clock is UTC.

Model-checked only: `DeletionSettled` and `ListenersAreTold`, which are
liveness (the prover has no fairness reasoning here). The two properties of the
runs that expect a violation do not hold.

## 6. What the models leave out

* One line and at most one option per order request: the code treats several
  alike, in one query each, and they meet only in a sum. Duplicate dish ids,
  whose effect is on that query, go with it.
* Text, dates, images' contents, validation messages, translation, pagination.
  A request that is refused before it reads anything changes nothing and is not
  a step.
* Handlers whose reads only test that a row exists before a write that fails
  without it are one step.
* Which column of a table's row changed, in LiveMonitor: versions stand for it.
* Other restaurants and owners: the queries are scoped to one.
* Staff: e-mails and their uniqueness, which is the database's. Modules are switched
  on and off by one statement here; Restaurants has the two it takes.
* Orders: which groups a dish has is a constant (`Allowed`); Modifiers has the
  steps that change it.
* A Prisma read with `include` is several queries; where it is one table and its
  orders (LiveMonitor), or an order with its lines, it is one step. So is the check
  of access to a restaurant (LiveRoom), whose last query decides.
* Menu: sort orders, lookups (a unique index decides), prices and descriptions.
  Its orders are only the set of dishes that some order has, in Modifiers with
  the options. Numbers of selections, names and prices of options are left out.
* LiveRoom: the guard of the fetch, which is Staff's; whether two messages of the
  server reach a page in the order they were sent (each connection does).
* Analytics: the other figures, one query each, with no algorithm between; they
  are read one after the other, so orders completed meanwhile are in some only.
* Photos: each URL has one `Image` row, and clients keep only URLs they have
  been shown.
* Login: `updateStaff` may move a member's e-mail to the address or away from it,
  with its code and sessions; members are only created and deleted. The mail
  is sent and its key configured; each code is drawn once; time is what it made of
  a value (expired, over, past).
* `Abort` and `Reject` stand for timeouts, lost connections, unique violations
  and the deadlocks PostgreSQL breaks; when a deadlock arises is not modelled.
* The reads (`getMe`, lists, histories) only answer.
* Stripe keeps no state here; visual settings have one read-merge-write without
  a rule of their own.

## 7. Plan

Done, in this order of importance: Orders with its abstraction; LiveMonitor;
Restaurants; Staff; Photos; Inventory; Login; Menu; LiveRoom; Modifiers;
Analytics; proofs of every safety and action property that a passing run checks.

Next: **abstract specifications** – a waiter call as an atomic flag that
LiveMonitor's calls implement outside overlaps; a dish's photos as a set with
eventual clean-up.

To run: `tlc -config MCOrders.cfg MCOrders` and likewise for the other pairs in
`PROJECT.json`; `tlapm Orders_proofs.tla`, and likewise the other `*_proofs`.
