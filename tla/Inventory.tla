------------------------------- MODULE Inventory -------------------------------
(***************************************************************************)
(* Stock and what it makes unavailable: inventory.service.ts.  An update   *)
(* of an item runs in one transaction at READ COMMITTED: it writes the     *)
(* item (and holds its row), reads the dishes made of it and the stock of  *)
(* their other ingredients, and marks those dishes unavailable and then    *)
(* available, holding their rows until it commits.  What it writes is seen *)
(* by others from its commit on, so two transactions that change two       *)
(* ingredients of one dish do not see each other.                          *)
(*                                                                         *)
(* Not kept: names, units, dates and authors.  Dish edits are those of     *)
(* dishes.service.ts, as far as ingredients and isAvailable go.            *)
(***************************************************************************)
EXTENDS Naturals, FiniteSets

CONSTANTS Requests,   \* requests in progress, one handler each
          Items, Dishes,
          NoItem,
          MaxStock,   \* bound on stock and on ingredient quantities
          Recipes     \* ingredients that requests give a dish

ASSUME MaxStockAssumption == MaxStock \in Nat \ {0}
ASSUME NoneAssumption == NoItem \notin Items

VARIABLES
  items,      \* items that exist
  spent,      \* ids that were used
  stock,      \* InventoryItem.stock
  recorded,   \* quantities in the stateHistory of an item
  need,       \* DishIngredient: quantity of an item in a dish, which may be 0
  available,  \* Dish.isAvailable
  jobs,       \* what each request is at
  overtaken,  \* history: transactions that have read what another one changed
  stale,      \* history: dishes whose flag is not from a clean recomputation
  unrecorded  \* history: items whose creation stopped before its history row

goods == <<items, spent, stock, recorded, unrecorded>>
menu == <<need, available, stale>>
vars == <<goods, menu, jobs, overtaken>>

Stocks == 0 .. MaxStock
Undefined == MaxStock + 1     \* no stock in the request; no such ingredient
Amounts == 0 .. Undefined

ASSUME RecipesAssumption == Recipes \subseteq [Items -> Amounts]

NoNeeds == [i \in Items |-> Undefined]
NoWants == [d \in {} |-> NoNeeds]
Done == [at |-> "idle", item |-> NoItem, kind |-> "none", stock |-> 0, dishes |-> {},
         wants |-> NoWants, on |-> {}, locked |-> {}]

TypeOK ==
  /\ items \subseteq spent /\ spent \subseteq Items
  /\ stock \in [Items -> Stocks] /\ recorded \in [Items -> SUBSET Stocks]
  /\ need \in [Dishes -> [Items -> Amounts]]
  /\ \A d \in Dishes, i \in Items \ items : need[d][i] = Undefined
  /\ available \in [Dishes -> BOOLEAN]
  /\ jobs \in [Requests ->
       [at : {"idle", "record", "written", "affected", "needed", "read", "off", "on"},
        item : Items \union {NoItem}, kind : {"none", "stock", "name"}, stock : Amounts,
        dishes : SUBSET Dishes, wants : UNION {[ds -> [Items -> Amounts]] : ds \in SUBSET Dishes},
        on : SUBSET Dishes, locked : SUBSET Dishes]]
  /\ overtaken \subseteq Requests /\ stale \subseteq Dishes /\ unrecorded \subseteq Items

Init ==
  /\ items = {} /\ spent = {} /\ unrecorded = {}
  /\ stock = [i \in Items |-> 0] /\ recorded = [i \in Items |-> {}]
  /\ need = [d \in Dishes |-> NoNeeds]
  /\ available \in [Dishes -> BOOLEAN] /\ stale = Dishes
  /\ jobs = [r \in Requests |-> Done]
  /\ overtaken = {}

-------------------------------------------------------------------------------
InTransaction(r) == jobs[r].at \notin {"idle", "record"}
Holds(r, i) == InTransaction(r) /\ jobs[r].kind # "none" /\ jobs[r].item = i
ItemFree(i) == \A r \in Requests : ~Holds(r, i)
DishesFree(r, ds) == \A q \in Requests \ {r} : jobs[q].locked \cap ds = {}

Uses(d, i) == need[d][i] # Undefined
Unmakeable(r) == jobs[r].dishes \ jobs[r].on

\* Do these stocks suffice for these quantities?  That of an item that was not
\* found never does.
Makeable(quantities, s) ==
  \A i \in Items : quantities[i] # Undefined => i \in DOMAIN s /\ s[i] >= quantities[i]

\* Transactions that have begun to read what they will mark.
Readers ==
  {r \in Requests : InTransaction(r) /\ (jobs[r].at # "written" \/ jobs[r].kind = "none")}

-------------------------------------------------------------------------------
(* create: two statements, no transaction.                                  *)

CreateItem(r, i, n) ==
  /\ jobs[r].at = "idle" /\ i \notin spent
  /\ items' = items \union {i} /\ spent' = spent \union {i}
  /\ stock' = [stock EXCEPT ![i] = n]
  /\ unrecorded' = unrecorded \union {i}
  /\ jobs' = [jobs EXCEPT ![r] = [Done EXCEPT !.at = "record", !.item = i, !.stock = n]]
  /\ UNCHANGED <<recorded, menu, overtaken>>

\* Fails when the item is deleted by then.
RecordCreation(r) ==
  LET i == jobs[r].item IN
  /\ jobs[r].at = "record" /\ i \in items
  /\ recorded' = [recorded EXCEPT ![i] = @ \union {jobs[r].stock}]
  /\ unrecorded' = unrecorded \ {i}
  /\ jobs' = [jobs EXCEPT ![r] = Done]
  /\ UNCHANGED <<items, spent, stock, menu, overtaken>>

-------------------------------------------------------------------------------
(* update: one transaction.                                                 *)

\* The item's row is written, and locked.  A request that has no column for it
\* writes and locks nothing, and the row is only read.
BeginUpdate(r, i, kind, n) ==
  /\ jobs[r].at = "idle" /\ i \in items
  /\ \/ kind = "none" /\ n = stock[i]
     \/ kind = "name" /\ n = Undefined /\ ItemFree(i)
     \/ kind = "stock" /\ n \in Stocks /\ ItemFree(i)
  /\ jobs' = [jobs EXCEPT ![r] = [Done EXCEPT !.at = "written", !.item = i, !.kind = kind, !.stock = n]]
  /\ UNCHANGED <<goods, menu, overtaken>>

\* Stocks as the transaction sees them: committed, its own item as it got it.
Seen(r) ==
  [i \in items \union {jobs[r].item} |->
     IF i = jobs[r].item /\ jobs[r].stock # Undefined THEN jobs[r].stock ELSE stock[i]]

\* The dishes made of the item; without one the transaction is at its end.
ReadAffected(r) ==
  LET affected == {d \in Dishes : Uses(d, jobs[r].item)} IN
  /\ jobs[r].at = "written"
  /\ jobs' = [jobs EXCEPT ![r].at = IF affected = {} THEN "on" ELSE "affected",
                          ![r].dishes = affected]
  /\ UNCHANGED <<goods, menu, overtaken>>

ReadIngredients(r) ==
  /\ jobs[r].at = "affected"
  /\ jobs' = [jobs EXCEPT ![r].at = "needed",
                ![r].wants = [d \in jobs[r].dishes |-> need[d]]]
  /\ UNCHANGED <<goods, menu, overtaken>>

\* Faulty: the stock before the update is compared.
ReadOldStock(r) ==
  LET made == {d \in jobs[r].dishes : Makeable(jobs[r].wants[d], stock)} IN
  /\ jobs[r].at = "needed"
  /\ jobs' = [jobs EXCEPT ![r].at = "read", ![r].on = made, ![r].wants = NoWants]
  /\ UNCHANGED <<goods, menu, overtaken>>

\* The items the ingredients refer to; which dishes can be made of them.
ReadStock(r) ==
  LET made == {d \in jobs[r].dishes : Makeable(jobs[r].wants[d], Seen(r))} IN
  /\ jobs[r].at = "needed"
  /\ jobs' = [jobs EXCEPT ![r].at = "read", ![r].on = made, ![r].wants = NoWants]
  /\ UNCHANGED <<goods, menu, overtaken>>

\* Two updateMany, each when nobody else holds the rows.
MarkUnavailable(r) ==
  /\ jobs[r].at = "read" /\ DishesFree(r, Unmakeable(r))
  /\ jobs' = [jobs EXCEPT ![r].at = "off", ![r].locked = Unmakeable(r)]
  /\ UNCHANGED <<goods, menu, overtaken>>

MarkAvailable(r) ==
  /\ jobs[r].at = "off" /\ DishesFree(r, jobs[r].on)
  /\ jobs' = [jobs EXCEPT ![r].at = "on", ![r].locked = @ \union jobs[r].on]
  /\ UNCHANGED <<goods, menu, overtaken>>

\* The stock once the transaction is over.
Written(r) ==
  IF jobs[r].kind = "stock" THEN [stock EXCEPT ![jobs[r].item] = jobs[r].stock] ELSE stock

\* What the dishes are marked becomes visible.
Marked(r) ==
  /\ available' = [d \in Dishes |-> IF d \in jobs[r].on THEN TRUE
                                    ELSE IF d \in jobs[r].dishes THEN FALSE ELSE available[d]]
  /\ stale' = IF r \in overtaken
              THEN stale \union jobs[r].locked \union {d \in Dishes : Uses(d, jobs[r].item)}
              ELSE stale \ jobs[r].locked
  /\ overtaken' = (overtaken \ {r}) \union (Readers \ {r})
  /\ jobs' = [jobs EXCEPT ![r] = Done]
  /\ UNCHANGED <<items, spent, need>>

\* Faulty: a row of the history is written for every update.
CommitAlwaysRecorded(r) ==
  LET i == jobs[r].item IN
  /\ jobs[r].at = "on"
  /\ stock' = Written(r)
  /\ recorded' = [recorded EXCEPT ![i] = @ \union {jobs[r].stock}]
  /\ unrecorded' = unrecorded \ {i}
  /\ Marked(r)

\* The item's new stock has a row of the history.
Commit(r) ==
  LET i == jobs[r].item IN
  /\ jobs[r].at = "on"
  /\ stock' = Written(r)
  /\ IF jobs[r].kind = "stock"
     THEN /\ recorded' = [recorded EXCEPT ![i] = @ \union {jobs[r].stock}]
          /\ unrecorded' = unrecorded \ {i}
     ELSE UNCHANGED <<recorded, unrecorded>>
  /\ Marked(r)

\* An error, a deadlock the database breaks up, or the transaction's timeout.
Abort(r) ==
  /\ jobs[r].at # "idle"
  /\ jobs' = [jobs EXCEPT ![r] = Done]
  /\ overtaken' = overtaken \ {r}
  /\ UNCHANGED <<goods, menu>>

-------------------------------------------------------------------------------
\* delete: ingredients forget the item (SetNull), flags stay as they are.
DeleteItem(i) ==
  /\ i \in items /\ ItemFree(i)
  /\ items' = items \ {i} /\ unrecorded' = unrecorded \ {i}
  /\ stock' = [stock EXCEPT ![i] = 0] /\ recorded' = [recorded EXCEPT ![i] = {}]
  /\ need' = [d \in Dishes |-> [need[d] EXCEPT ![i] = Undefined]]
  /\ stale' = stale \union {d \in Dishes : Uses(d, i)}
  /\ overtaken' = overtaken \union Readers
  /\ UNCHANGED <<spent, available, jobs>>

\* createDish and updateDish: ingredients and isAvailable as the client says.
EditDish(d, quantities, flag) ==
  /\ \A r \in Requests : d \notin jobs[r].locked
  /\ \A i \in Items \ items : quantities[i] = Undefined
  /\ need' = [need EXCEPT ![d] = quantities]
  /\ available' = [available EXCEPT ![d] = flag]
  /\ stale' = stale \union {d}
  /\ overtaken' = overtaken \union Readers
  /\ UNCHANGED <<goods, jobs>>

-------------------------------------------------------------------------------
Next ==
  \/ \E r \in Requests :
       \/ RecordCreation(r) \/ ReadAffected(r) \/ ReadIngredients(r)
       \/ ReadStock(r) \/ MarkUnavailable(r) \/ MarkAvailable(r)
       \/ Commit(r) \/ Abort(r)
       \/ \E i \in Items :
            \/ \E n \in Stocks : CreateItem(r, i, n)
            \/ \E kind \in {"none", "stock", "name"}, n \in Amounts : BeginUpdate(r, i, kind, n)
  \/ \E i \in Items : DeleteItem(i)
  \/ \E d \in Dishes, quantities \in Recipes, flag \in BOOLEAN :
       EditDish(d, quantities, flag)

Spec == Init /\ [][Next]_vars

-------------------------------------------------------------------------------
(* Properties.                                                              *)

\* A dish is available exactly when its ingredients are in stock, from the first
\* update of one of them until the dish is edited, an ingredient is deleted, or
\* an update commits what it computed before another change.
AvailabilityAgreesWithStock ==
  \A d \in Dishes \ stale : available[d] = Makeable(need[d], stock)

\* The stock of an item is in its history, unless its creation stopped half way.
StockIsRecorded ==
  \A i \in items \ unrecorded : stock[i] \in recorded[i]
===============================================================================
