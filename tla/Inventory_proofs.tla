--------------------------- MODULE Inventory_proofs ---------------------------
(***************************************************************************)
(* Proofs about Inventory: types, that the availability of a dish agrees   *)
(* with the stock, and that the stock is in the history.                   *)
(***************************************************************************)
EXTENDS Inventory, TLAPS

-------------------------------------------------------------------------------
(* The inductive invariant.                                                 *)

Wants == UNION {[ds -> [Items -> Amounts]] : ds \in SUBSET Dishes}

Job == [at : {"idle", "record", "written", "affected", "needed", "read", "off", "on"},
        item : Items \union {NoItem}, kind : {"none", "stock", "name"}, stock : Amounts,
        dishes : SUBSET Dishes, wants : Wants, on : SUBSET Dishes, locked : SUBSET Dishes]

\* What a request holds: its item, which nobody can delete once it is written; the
\* stock of an item whose creation is not recorded yet; the rows it has marked.
Fits(j) ==
  /\ j.at # "idle" => j.item \in spent
  /\ j.at = "record" =>
       j.stock \in Stocks /\ (j.item \in items \cap unrecorded => stock[j.item] = j.stock)
  /\ j.at \notin {"idle", "record"} =>
       /\ j.kind # "none" => j.item \in items
       /\ j.kind = "stock" => j.stock \in Stocks
       /\ j.kind = "name" => j.stock = Undefined
  /\ j.on \subseteq j.dishes
  /\ j.at \in {"written", "affected", "needed"} => j.on = {}
  /\ j.at \notin {"off", "on"} => j.locked = {}
  /\ j.at = "off" => j.locked = j.dishes \ j.on
  /\ j.at = "on" => j.locked = j.dishes

\* The stock as the request sees it.
After(j) == [stock EXCEPT ![j.item] = IF j.stock = Undefined THEN @ ELSE j.stock]

\* What a request that was not overtaken has read is still so.
Current(j) ==
  /\ j.at \notin {"idle", "record"} /\ j.kind = "none" => stock[j.item] = j.stock
  /\ j.at \in {"affected", "needed", "read", "off", "on"} =>
       \A d \in Dishes : d \in j.dishes <=> Uses(d, j.item)
  /\ j.at = "needed" => \A d \in j.dishes : j.wants[d] = need[d]
  /\ j.at \in {"read", "off", "on"} =>
       \A d \in j.dishes : d \in j.on <=> Makeable(need[d], After(j))

JobsFit == \A r \in Requests : Fits(jobs[r])
ReadingsCurrent == \A r \in Requests \ overtaken : Current(jobs[r])

Inv == TypeOK /\ JobsFit /\ ReadingsCurrent /\ AvailabilityAgreesWithStock /\ StockIsRecorded

-------------------------------------------------------------------------------
(* Types and steps of one request.                                          *)

LEMMA StockValues ==
  /\ 0 \in Stocks /\ Undefined \in Amounts /\ Undefined \notin Stocks
  /\ \A n \in Stocks : n \in Amounts
  /\ \A n \in Amounts : n # Undefined => n \in Stocks
  BY MaxStockAssumption DEF Stocks, Amounts, Undefined

LEMMA WantsOf ==
  NoWants \in Wants /\ \A ds \in SUBSET Dishes : \A f \in [ds -> [Items -> Amounts]] : f \in Wants
<1>1. \A ds \in SUBSET Dishes : \A f \in [ds -> [Items -> Amounts]] : f \in Wants
  BY DEF Wants
<1>2. NoWants \in [{} -> [Items -> Amounts]] /\ {} \in SUBSET Dishes
  BY DEF NoWants
<1> QED BY <1>1, <1>2

LEMMA DoneJob ==
  /\ Done \in Job /\ Done.at = "idle" /\ Done.locked = {} /\ Fits(Done) /\ Current(Done)
<1>1. Done \in Job
  BY StockValues, WantsOf DEF Done, Job
<1> QED BY <1>1 DEF Done, Fits, Current

LEMMA Types ==
  TypeOK <=>
    /\ items \subseteq spent /\ spent \subseteq Items
    /\ stock \in [Items -> Stocks] /\ recorded \in [Items -> SUBSET Stocks]
    /\ need \in [Dishes -> [Items -> Amounts]]
    /\ \A d \in Dishes, i \in Items \ items : need[d][i] = Undefined
    /\ available \in [Dishes -> BOOLEAN]
    /\ jobs \in [Requests -> Job]
    /\ overtaken \subseteq Requests /\ stale \subseteq Dishes /\ unrecorded \subseteq Items
  BY DEF TypeOK, Job, Wants

LEMMA TypesAfter ==
  ASSUME items' \subseteq spent' /\ spent' \subseteq Items,
         stock' \in [Items -> Stocks] /\ recorded' \in [Items -> SUBSET Stocks],
         need' \in [Dishes -> [Items -> Amounts]],
         \A d \in Dishes, i \in Items \ items' : need'[d][i] = Undefined,
         available' \in [Dishes -> BOOLEAN],
         jobs' \in [Requests -> Job],
         overtaken' \subseteq Requests /\ stale' \subseteq Dishes /\ unrecorded' \subseteq Items
  PROVE  TypeOK'
  BY DEF TypeOK, Job, Wants

LEMMA JobMoves ==
  ASSUME Inv, NEW r \in Requests, NEW j \in Job, jobs' = [jobs EXCEPT ![r] = j],
         UNCHANGED <<goods, menu>>, overtaken' \union {r} = overtaken \union {r},
         Fits(j), r \notin overtaken' => Current(j)
  PROVE  Inv'
<1>0. /\ TypeOK /\ JobsFit /\ ReadingsCurrent /\ jobs \in [Requests -> Job]
      /\ UNCHANGED <<items, spent, stock, recorded, unrecorded, need, available, stale>>
  BY Types DEF Inv, goods, menu
<1>1. jobs'[r] = j /\ \A q \in Requests : q # r => jobs'[q] = jobs[q]
  BY <1>0
<1>4. jobs' \in [Requests -> Job] /\ overtaken' \subseteq Requests
  BY <1>0 DEF TypeOK
<1>5. TypeOK'
  BY <1>0, <1>4, Types, TypesAfter DEF Inv
<1>6. JobsFit'
  BY <1>0, <1>1 DEF JobsFit, Fits
<1>7. ReadingsCurrent'
  BY <1>0, <1>1 DEF ReadingsCurrent, Current, Uses, Makeable, After
<1>8. AvailabilityAgreesWithStock' /\ StockIsRecorded'
  BY <1>0 DEF Inv, AvailabilityAgreesWithStock, StockIsRecorded, Makeable
<1> QED BY <1>5, <1>6, <1>7, <1>8 DEF Inv

LEMMA InitInv == Init => Inv
<1> SUFFICES ASSUME Init PROVE Inv
  OBVIOUS
<1>1. \A r \in Requests : jobs[r] = Done
  BY DEF Init
<1>2. TypeOK
  BY <1>1, DoneJob, StockValues, Types DEF Init, NoNeeds
<1>3. JobsFit /\ ReadingsCurrent
  BY <1>1, DoneJob DEF JobsFit, ReadingsCurrent
<1>4. AvailabilityAgreesWithStock /\ StockIsRecorded
  BY DEF Init, AvailabilityAgreesWithStock, StockIsRecorded
<1> QED BY <1>2, <1>3, <1>4 DEF Inv

\* The steps of one request that leave stock and menu alone.
LEMMA OwnStep ==
  ASSUME Inv, NEW r \in Requests,
         \/ ReadAffected(r) \/ ReadIngredients(r) \/ ReadStock(r) \/ MarkUnavailable(r)
         \/ MarkAvailable(r) \/ Abort(r)
         \/ \E i \in Items, kind \in {"none", "stock", "name"}, n \in Amounts : BeginUpdate(r, i, kind, n)
  PROVE  Inv'
<1>0. /\ jobs \in [Requests -> Job] /\ jobs[r] \in Job /\ Fits(jobs[r])
      /\ r \notin overtaken => Current(jobs[r])
  BY Types DEF Inv, JobsFit, ReadingsCurrent
<1>1. ASSUME NEW i \in Items, NEW kind \in {"none", "stock", "name"}, NEW n \in Amounts,
             BeginUpdate(r, i, kind, n)
      PROVE  Inv'
  <2> DEFINE j == [Done EXCEPT !.at = "written", !.item = i, !.kind = kind, !.stock = n]
  <2>1. /\ j \in Job /\ j.at = "written" /\ j.item = i /\ j.locked = {} /\ j.on = {} /\ j.dishes = {}
        /\ j.kind = kind /\ j.stock = n
    BY WantsOf DEF Done, Job
  <2>2. i \in items /\ jobs' = [jobs EXCEPT ![r] = j] /\ UNCHANGED <<goods, menu, overtaken>>
        /\ (kind = "none" => n = stock[i]) /\ (kind = "name" => n = Undefined)
        /\ (kind = "stock" => n \in Stocks)
    BY <1>1 DEF BeginUpdate
  <2> HIDE DEF j
  <2>3. Fits(j) /\ Current(j)
    BY <2>1, <2>2, Types DEF Inv, Fits, Current
  <2> QED BY <2>1, <2>2, <2>3, JobMoves
<1>2. CASE ReadAffected(r)
  <2> DEFINE affected == {d \in Dishes : Uses(d, jobs[r].item)}
             j == [jobs[r] EXCEPT !.at = IF affected = {} THEN "on" ELSE "affected",
                                  !.dishes = affected]
  <2>1. /\ j \in Job /\ jobs[r].at = "written" /\ j.at = (IF affected = {} THEN "on" ELSE "affected")
        /\ j.dishes = affected /\ j.item = jobs[r].item /\ j.kind = jobs[r].kind /\ j.stock = jobs[r].stock
        /\ j.on = jobs[r].on /\ j.locked = jobs[r].locked
    BY <1>0, <1>2 DEF ReadAffected, Job
  <2>2. jobs' = [jobs EXCEPT ![r] = j] /\ UNCHANGED <<goods, menu, overtaken>>
    BY <1>0, <1>2 DEF ReadAffected, Job
  <2> HIDE DEF j
  <2>3. Fits(j)
    BY <1>0, <2>1 DEF Fits
  <2>4. r \notin overtaken' => Current(j)
    BY <1>0, <2>1, <2>2 DEF Current, Fits
  <2> QED BY <2>1, <2>2, <2>3, <2>4, JobMoves
<1>3. CASE ReadIngredients(r)
  <2> DEFINE w == [d \in jobs[r].dishes |-> need[d]]
             j == [jobs[r] EXCEPT !.at = "needed", !.wants = w]
  <2>1. w \in Wants
    <3>1. jobs[r].dishes \in SUBSET Dishes /\ need \in [Dishes -> [Items -> Amounts]]
      BY <1>0, Types DEF Inv, Job
    <3>2. w \in [jobs[r].dishes -> [Items -> Amounts]]
      BY <3>1
    <3> QED BY <3>1, <3>2, WantsOf
  <2>2. /\ j \in Job /\ jobs[r].at = "affected" /\ j.at = "needed" /\ j.wants = w
        /\ j.dishes = jobs[r].dishes /\ j.item = jobs[r].item /\ j.kind = jobs[r].kind
        /\ j.stock = jobs[r].stock /\ j.on = jobs[r].on /\ j.locked = jobs[r].locked
    BY <1>0, <1>3, <2>1 DEF ReadIngredients, Job
  <2>3. jobs' = [jobs EXCEPT ![r] = j] /\ UNCHANGED <<goods, menu, overtaken>>
    BY <1>0, <1>3 DEF ReadIngredients, Job
  <2> HIDE DEF j
  <2>4. Fits(j)
    BY <1>0, <2>2 DEF Fits
  <2>5. r \notin overtaken' => Current(j)
    BY <1>0, <2>2, <2>3 DEF Current
  <2> QED BY <2>2, <2>3, <2>4, <2>5, JobMoves
<1>4. CASE ReadStock(r)
  <2> DEFINE made == {d \in jobs[r].dishes : Makeable(jobs[r].wants[d], Seen(r))}
             j == [jobs[r] EXCEPT !.at = "read", !.on = made, !.wants = NoWants]
  <2>1. /\ j \in Job /\ jobs[r].at = "needed" /\ j.at = "read" /\ j.on = made
        /\ j.dishes = jobs[r].dishes /\ j.item = jobs[r].item /\ j.kind = jobs[r].kind /\ j.stock = jobs[r].stock
        /\ j.locked = jobs[r].locked
    BY <1>0, <1>4, WantsOf DEF ReadStock, Job
  <2>2. jobs' = [jobs EXCEPT ![r] = j] /\ UNCHANGED <<goods, menu, overtaken>>
    BY <1>0, <1>4 DEF ReadStock, Job
  <2> HIDE DEF j
  <2>3. Fits(j)
    BY <1>0, <2>1 DEF Fits
  <2>4. \A d \in Dishes : Makeable(need[d], Seen(r)) <=> Makeable(need[d], After(j))
    <3>1. \A d \in Dishes, i \in Items : need[d][i] # Undefined => i \in items
      BY Types DEF Inv
    <3>2. /\ DOMAIN Seen(r) = items \union {j.item} /\ DOMAIN After(j) = Items
          /\ \A i \in items : Seen(r)[i] = After(j)[i]
      BY <1>0, <2>1, Types DEF Inv, Seen, After
    <3> QED BY <3>1, <3>2, Types DEF Inv, Makeable
  <2>5. ASSUME r \notin overtaken' PROVE Current(j)
    <3>1. Current(jobs[r]) /\ jobs[r].dishes \subseteq Dishes
      BY <1>0, <2>2, <2>5 DEF Job
    <3>2. \A d \in jobs[r].dishes : jobs[r].wants[d] = need[d]
      BY <2>1, <3>1 DEF Current
    <3>3. \A d \in j.dishes : d \in j.on <=> Makeable(need[d], After(j))
      BY <2>1, <2>4, <3>1, <3>2
    <3> QED BY <2>1, <3>1, <3>3 DEF Current
  <2> QED BY <2>1, <2>2, <2>3, <2>5, JobMoves
<1>5. CASE MarkUnavailable(r)
  <2> DEFINE j == [jobs[r] EXCEPT !.at = "off", !.locked = Unmakeable(r)]
  <2>1. /\ j \in Job /\ jobs[r].at = "read" /\ j.at = "off" /\ j.locked = jobs[r].dishes \ jobs[r].on
        /\ j.dishes = jobs[r].dishes /\ j.item = jobs[r].item /\ j.kind = jobs[r].kind /\ j.stock = jobs[r].stock
        /\ j.on = jobs[r].on
    BY <1>0, <1>5 DEF MarkUnavailable, Unmakeable, Job
  <2>2. jobs' = [jobs EXCEPT ![r] = j] /\ UNCHANGED <<goods, menu, overtaken>>
        /\ DishesFree(r, j.locked)
    BY <1>0, <1>5, <2>1 DEF MarkUnavailable, Unmakeable, Job
  <2> HIDE DEF j
  <2>3. Fits(j)
    BY <1>0, <2>1 DEF Fits
  <2>4. After(j) = After(jobs[r])
    BY <2>1 DEF After
  <2>5. r \notin overtaken' => Current(j)
    BY <1>0, <2>1, <2>2, <2>4 DEF Current
  <2> QED BY <2>1, <2>2, <2>3, <2>5, JobMoves
<1>6. CASE MarkAvailable(r)
  <2> DEFINE j == [jobs[r] EXCEPT !.at = "on", !.locked = @ \union jobs[r].on]
  <2>1. /\ j \in Job /\ jobs[r].at = "off" /\ j.at = "on" /\ j.locked = jobs[r].locked \union jobs[r].on
        /\ j.dishes = jobs[r].dishes /\ j.item = jobs[r].item /\ j.kind = jobs[r].kind /\ j.stock = jobs[r].stock
        /\ j.on = jobs[r].on
    BY <1>0, <1>6 DEF MarkAvailable, Job
  <2>2. jobs' = [jobs EXCEPT ![r] = j] /\ UNCHANGED <<goods, menu, overtaken>>
        /\ DishesFree(r, jobs[r].on)
    BY <1>0, <1>6 DEF MarkAvailable, Job
  <2> HIDE DEF j
  <2>3. Fits(j)
    BY <1>0, <2>1 DEF Fits
  <2>4. After(j) = After(jobs[r])
    BY <2>1 DEF After
  <2>5. r \notin overtaken' => Current(j)
    BY <1>0, <2>1, <2>2, <2>4 DEF Current
  <2> QED BY <2>1, <2>2, <2>3, <2>5, JobMoves
<1>7. CASE Abort(r)
  <2>1. /\ jobs' = [jobs EXCEPT ![r] = Done] /\ UNCHANGED <<goods, menu>>
        /\ overtaken' \union {r} = overtaken \union {r}
    BY <1>7 DEF Abort
  <2> QED BY <2>1, DoneJob, JobMoves
<1> QED BY <1>1, <1>2, <1>3, <1>4, <1>5, <1>6, <1>7

-------------------------------------------------------------------------------
(* Steps that change stock or menu.                                         *)

LEMMA CreateStep ==
  ASSUME Inv, NEW r \in Requests, NEW i \in Items, NEW n \in Stocks, CreateItem(r, i, n)
  PROVE  Inv'
<1> DEFINE j == [Done EXCEPT !.at = "record", !.item = i, !.stock = n]
<1>0. /\ jobs \in [Requests -> Job] /\ JobsFit /\ ReadingsCurrent
      /\ i \notin spent /\ i \notin items /\ stock \in [Items -> Stocks]
      /\ items' = items \union {i} /\ spent' = spent \union {i}
      /\ stock' = [stock EXCEPT ![i] = n] /\ unrecorded' = unrecorded \union {i}
      /\ jobs' = [jobs EXCEPT ![r] = j]
      /\ UNCHANGED <<recorded, need, available, stale, overtaken>>
  BY Types DEF Inv, CreateItem, menu
<1>1. /\ j \in Job /\ j.at = "record" /\ j.item = i /\ j.stock = n
      /\ j.locked = {} /\ j.on = {} /\ j.dishes = {}
  BY StockValues, WantsOf DEF Done, Job
<1> HIDE DEF j
<1>2. jobs'[r] = j /\ \A q \in Requests : q # r => jobs'[q] = jobs[q]
  BY <1>0
<1>3. stock'[i] = n /\ \A k \in Items : k # i => stock'[k] = stock[k]
  BY <1>0
<1>4. \A d \in Dishes : need[d][i] = Undefined
  BY <1>0, Types DEF Inv
<1>5. TypeOK'
  <2>1. jobs' \in [Requests -> Job]
    BY <1>0, <1>1
  <2> QED BY <1>0, <1>1, <1>3, <1>4, <2>1, Types, TypesAfter DEF Inv
<1>6. JobsFit'
  <2>1. \A q \in Requests : q # r => Fits(jobs[q]) /\ (jobs[q].item # i \/ jobs[q].at = "idle")
    BY <1>0 DEF JobsFit, Fits
  <2> SUFFICES ASSUME NEW q \in Requests PROVE Fits(jobs[q])'
    BY DEF JobsFit
  <2>2. CASE q = r
    BY <1>0, <1>1, <1>2, <1>3, <2>2 DEF Fits
  <2>3. CASE q # r
    <3>1. jobs[q] \in Job /\ (jobs[q].item \in items => jobs[q].item \in Items)
      BY <1>0, Types DEF Inv
    <3> QED BY <1>0, <1>2, <1>3, <2>1, <2>3, <3>1 DEF Fits
  <2> QED BY <2>2, <2>3
<1>7. \A k \in Items, d \in Dishes : need[d][k] # Undefined => k # i
  BY <1>4
<1>8. ReadingsCurrent'
  <2> SUFFICES ASSUME NEW q \in Requests \ overtaken' PROVE Current(jobs[q])'
    BY DEF ReadingsCurrent
  <2>1. CASE q = r
    BY <1>1, <1>2, <2>1 DEF Current
  <2>2. CASE q # r
    <3>1. PICK k \in Job : k = jobs[q] /\ k = jobs'[q]
      BY <1>0, <1>2, <2>2
    <3>2. Current(k)
      BY <1>0, <3>1 DEF ReadingsCurrent
    <3>3. /\ \A x \in Items : x # i => After(k)'[x] = After(k)[x]
          /\ DOMAIN After(k)' = Items /\ DOMAIN After(k) = Items
      BY <1>0, <1>3 DEF After
    <3>4. \A d \in Dishes : Makeable(need[d], After(k))' <=> Makeable(need[d], After(k))
      BY <1>0, <1>7, <3>3 DEF Makeable
    <3>5. k.dishes \subseteq Dishes
      BY DEF Job
    <3>6. Current(k)'
      <4>1. k.at \notin {"idle", "record"} /\ k.kind = "none" => stock'[k.item] = k.stock
        <5>1. k.at # "idle" => k.item \in spent
          <6>1. Fits(jobs[q])
            BY <1>0 DEF JobsFit
          <6>2. Fits(k)
            BY <3>1, <6>1
          <6> QED BY <6>2 DEF Fits
        <5>2. k.at # "idle" => k.item \in Items /\ k.item # i
          BY <1>0, <5>1, Types DEF Inv
        <5> QED BY <1>3, <3>2, <5>2 DEF Current
      <4> QED BY <1>0, <3>2, <3>4, <3>5, <4>1 DEF Current, Uses, Makeable
    <3> QED BY <3>1, <3>6 DEF Current, Uses, Makeable, After
  <2> QED BY <2>1, <2>2
<1>9. AvailabilityAgreesWithStock'
  <2>1. \A d \in Dishes : Makeable(need[d], stock)' <=> Makeable(need[d], stock)
    BY <1>0, <1>3, <1>7 DEF Makeable
  <2> QED BY <1>0, <2>1 DEF Inv, AvailabilityAgreesWithStock, Makeable
<1>10. StockIsRecorded'
  BY <1>0, <1>3, Types DEF Inv, StockIsRecorded
<1> QED BY <1>5, <1>6, <1>8, <1>9, <1>10 DEF Inv

LEMMA RecordStep ==
  ASSUME Inv, NEW r \in Requests, RecordCreation(r)
  PROVE  Inv'
<1> DEFINE i == jobs[r].item
<1>0. /\ jobs \in [Requests -> Job] /\ JobsFit /\ ReadingsCurrent
      /\ recorded \in [Items -> SUBSET Stocks] /\ items \subseteq Items
      /\ jobs[r].at = "record" /\ i \in items
      /\ recorded' = [recorded EXCEPT ![i] = @ \union {jobs[r].stock}]
      /\ unrecorded' = unrecorded \ {i} /\ jobs' = [jobs EXCEPT ![r] = Done]
      /\ UNCHANGED <<items, spent, stock, need, available, stale, overtaken>>
  BY Types DEF Inv, RecordCreation, menu
<1>1. jobs[r].stock \in Stocks /\ (i \in unrecorded => stock[i] = jobs[r].stock)
  BY <1>0 DEF JobsFit, Fits
<1>2. jobs'[r] = Done /\ \A q \in Requests : q # r => jobs'[q] = jobs[q]
  BY <1>0
<1>3. TypeOK'
  <2>1. jobs' \in [Requests -> Job] /\ recorded' \in [Items -> SUBSET Stocks]
    BY <1>0, <1>1, DoneJob
  <2> QED BY <1>0, <2>1, Types, TypesAfter DEF Inv
<1>4. JobsFit'
  BY <1>0, <1>2, DoneJob DEF JobsFit, Fits
<1>5. ReadingsCurrent'
  BY <1>0, <1>2, DoneJob DEF ReadingsCurrent, Current, Uses, Makeable, After
<1>6. AvailabilityAgreesWithStock'
  BY <1>0 DEF Inv, AvailabilityAgreesWithStock, Makeable
<1>7. StockIsRecorded'
  BY <1>0, <1>1 DEF Inv, StockIsRecorded
<1> QED BY <1>3, <1>4, <1>5, <1>6, <1>7 DEF Inv

LEMMA CommitStep ==
  ASSUME Inv, NEW r \in Requests, Commit(r)
  PROVE  Inv'
<1> DEFINE i == jobs[r].item
<1>0. /\ TypeOK /\ jobs \in [Requests -> Job] /\ JobsFit /\ jobs[r].at = "on"
      /\ i \in Items /\ jobs[r].dishes \subseteq Dishes
      /\ jobs[r].kind = "stock" => jobs[r].stock \in Stocks
      /\ jobs[r].kind = "name" => jobs[r].stock = Undefined
      /\ jobs[r].kind \in {"none", "stock", "name"}
      /\ jobs[r].on \subseteq jobs[r].dishes /\ jobs[r].locked = jobs[r].dishes
      /\ stock \in [Items -> Stocks] /\ recorded \in [Items -> SUBSET Stocks]
  BY Types DEF Inv, Commit, JobsFit, Fits, Job
<1>1. /\ jobs' = [jobs EXCEPT ![r] = Done] /\ UNCHANGED <<items, spent, need>>
      /\ stock' = Written(r) /\ overtaken' = (overtaken \ {r}) \union (Readers \ {r})
      /\ available' = [d \in Dishes |-> IF d \in jobs[r].on THEN TRUE
                                        ELSE IF d \in jobs[r].dishes THEN FALSE ELSE available[d]]
      /\ stale' = IF r \in overtaken THEN stale \union jobs[r].locked \union {d \in Dishes : Uses(d, i)}
                  ELSE stale \ jobs[r].locked
  BY DEF Commit, Marked
<1>2. jobs'[r] = Done /\ \A q \in Requests : q # r => jobs'[q] = jobs[q]
  BY <1>0, <1>1
<1>3. /\ \A k \in Items : k # i => stock'[k] = stock[k]
      /\ jobs[r].kind # "stock" => stock' = stock
      /\ jobs[r].kind = "stock" => stock'[i] = jobs[r].stock
      /\ stock' \in [Items -> Stocks]
  BY <1>0, <1>1 DEF Written
<1>4. /\ \A k \in Items : k # i => recorded'[k] = recorded[k]
      /\ jobs[r].kind # "stock" => recorded' = recorded /\ unrecorded' = unrecorded
      /\ jobs[r].kind = "stock" => jobs[r].stock \in recorded'[i] /\ unrecorded' = unrecorded \ {i}
      /\ recorded' \in [Items -> SUBSET Stocks]
  BY <1>0, <1>3 DEF Commit
<1>5. TypeOK'
  <2>1. jobs' \in [Requests -> Job] /\ overtaken' \subseteq Requests
    BY <1>0, <1>1, DoneJob DEF TypeOK, Readers
  <2>2. available' \in [Dishes -> BOOLEAN]
    BY <1>0, <1>1 DEF TypeOK
  <2>3. stale' \subseteq Dishes /\ unrecorded' \subseteq Items
    BY <1>0, <1>1, <1>4 DEF TypeOK
  <2>4. /\ items' \subseteq spent' /\ spent' \subseteq Items /\ need' \in [Dishes -> [Items -> Amounts]]
        /\ \A d \in Dishes, k \in Items \ items' : need'[d][k] = Undefined
    BY <1>0, <1>1 DEF TypeOK
  <2> QED BY <1>1, <1>3, <1>4, <2>1, <2>2, <2>3, <2>4, TypesAfter
<1>6. JobsFit'
  <2> SUFFICES ASSUME NEW q \in Requests PROVE Fits(jobs[q])'
    BY DEF JobsFit
  <2>1. CASE q = r
    BY <1>2, <2>1, DoneJob DEF Fits
  <2>2. CASE q # r
    <3>1. PICK k \in Job : k = jobs[q] /\ k = jobs'[q]
      BY <1>0, <1>2, <2>2
    <3>2. Fits(k)
      BY <1>0, <3>1 DEF JobsFit
    <3>3. k.at = "record" /\ k.item \in items' \cap unrecorded' => stock'[k.item] = k.stock
      BY <1>0, <1>1, <1>3, <1>4, <3>2 DEF TypeOK, Fits
    <3>4. Fits(k)'
      BY <1>1, <3>2, <3>3 DEF Fits
    <3> QED BY <3>1, <3>4 DEF Fits
  <2> QED BY <2>1, <2>2
<1>7. ReadingsCurrent'
  BY <1>0, <1>1, <1>2, DoneJob DEF ReadingsCurrent, Current, Readers, InTransaction
<1>8. AvailabilityAgreesWithStock'
  <2> SUFFICES ASSUME NEW d \in Dishes, d \notin stale'
               PROVE  (available[d] = Makeable(need[d], stock))'
    BY DEF AvailabilityAgreesWithStock
  <2>1. CASE d \in jobs[r].dishes
    <3>1. r \notin overtaken
      BY <1>0, <1>1, <2>1
    <3>2. d \in jobs[r].on <=> Makeable(need[d], Written(r))
      <4>1. Current(jobs[r])
        BY <3>1 DEF Inv, ReadingsCurrent
      <4>2. Written(r) = After(jobs[r])
        <5>1. jobs[r].kind = "none" => stock[i] = jobs[r].stock
          BY <1>0, <4>1 DEF Current
        <5> QED BY <1>0, <5>1, StockValues DEF Written, After
      <4> QED BY <1>0, <2>1, <4>1, <4>2 DEF Current
    <3>3. CASE d \in jobs[r].on
      <4>1. available'[d] = TRUE
        BY <1>1, <3>3
      <4> QED BY <1>1, <3>2, <3>3, <4>1 DEF Makeable
    <3>4. CASE d \notin jobs[r].on
      <4>1. available'[d] = FALSE
        BY <1>1, <2>1, <3>4
      <4> QED BY <1>1, <3>2, <3>4, <4>1 DEF Makeable
    <3> QED BY <3>3, <3>4
  <2>2. CASE d \notin jobs[r].dishes
    <3>1. ~Uses(d, i)
      BY <1>0, <1>1, <2>2 DEF Inv, ReadingsCurrent, Current
    <3>2. available'[d] = available[d] /\ d \notin stale
      BY <1>0, <1>1, <2>2
    <3>3. Makeable(need[d], stock)' <=> Makeable(need[d], stock)
      BY <1>0, <1>1, <1>3, <3>1 DEF Makeable, Uses
    <3> QED BY <1>1, <3>2, <3>3 DEF Inv, AvailabilityAgreesWithStock, Makeable
  <2> QED BY <2>1, <2>2
<1>9. StockIsRecorded'
  BY <1>0, <1>1, <1>3, <1>4 DEF Inv, TypeOK, StockIsRecorded
<1> QED BY <1>5, <1>6, <1>7, <1>8, <1>9 DEF Inv

LEMMA DeleteStep ==
  ASSUME Inv, NEW i \in Items, DeleteItem(i)
  PROVE  Inv'
<1>0. /\ TypeOK /\ JobsFit /\ stock \in [Items -> Stocks] /\ recorded \in [Items -> SUBSET Stocks]
      /\ need \in [Dishes -> [Items -> Amounts]] /\ jobs \in [Requests -> Job]
      /\ ItemFree(i) /\ items' = items \ {i} /\ unrecorded' = unrecorded \ {i}
      /\ stock' = [stock EXCEPT ![i] = 0] /\ recorded' = [recorded EXCEPT ![i] = {}]
      /\ need' = [d \in Dishes |-> [need[d] EXCEPT ![i] = Undefined]]
      /\ stale' = stale \union {d \in Dishes : Uses(d, i)} /\ overtaken' = overtaken \union Readers
      /\ UNCHANGED <<spent, available, jobs>>
  BY Types DEF Inv, DeleteItem
<1>1. /\ \A k \in Items : k # i => stock'[k] = stock[k] /\ recorded'[k] = recorded[k]
      /\ stock' \in [Items -> Stocks] /\ recorded' \in [Items -> SUBSET Stocks]
  BY <1>0, StockValues
<1>2. /\ \A d \in Dishes : need'[d][i] = Undefined /\ \A k \in Items : k # i => need'[d][k] = need[d][k]
      /\ need' \in [Dishes -> [Items -> Amounts]]
  BY <1>0, StockValues
<1>3. TypeOK'
  <2>1. \A d \in Dishes, k \in Items \ items' : need'[d][k] = Undefined
    BY <1>0, <1>2 DEF TypeOK
  <2>2. /\ items' \subseteq spent' /\ spent' \subseteq Items /\ available' \in [Dishes -> BOOLEAN]
        /\ jobs' \in [Requests -> Job] /\ overtaken' \subseteq Requests /\ stale' \subseteq Dishes
        /\ unrecorded' \subseteq Items
    BY <1>0 DEF TypeOK, Readers
  <2> QED BY <1>0, <1>1, <1>2, <2>1, <2>2, TypesAfter
<1>4. JobsFit'
  <2> SUFFICES ASSUME NEW q \in Requests PROVE Fits(jobs[q])'
    BY DEF JobsFit
  <2>1. PICK k \in Job : k = jobs[q] /\ k = jobs'[q]
    BY <1>0
  <2>2. Fits(k) /\ (k.at \notin {"idle", "record"} /\ k.kind # "none" => k.item # i)
    BY <1>0, <2>1 DEF JobsFit, ItemFree, Holds, InTransaction
  <2>3. k.at = "record" /\ k.item \in items' \cap unrecorded' => stock'[k.item] = k.stock
    BY <1>0, <1>1, <2>2 DEF TypeOK, Fits
  <2>4. Fits(k)'
    BY <1>0, <2>2, <2>3 DEF Fits
  <2> QED BY <2>1, <2>4 DEF Fits
<1>5. ReadingsCurrent'
  BY <1>0 DEF ReadingsCurrent, Current, Readers, InTransaction
<1>6. AvailabilityAgreesWithStock'
  <2> SUFFICES ASSUME NEW d \in Dishes, d \notin stale'
               PROVE  (available[d] = Makeable(need[d], stock))'
    BY DEF AvailabilityAgreesWithStock
  <2>1. ~Uses(d, i) /\ available'[d] = available[d] /\ d \notin stale
    BY <1>0
  <2>2. \A k \in Items : need'[d][k] # Undefined <=> need[d][k] # Undefined /\ k # i
    BY <1>2
  <2>3. Makeable(need[d], stock)' <=> Makeable(need[d], stock)
    BY <1>0, <1>1, <1>2, <2>1, <2>2 DEF Makeable, Uses
  <2> QED BY <2>1, <2>3 DEF Inv, AvailabilityAgreesWithStock, Makeable
<1>7. StockIsRecorded'
  BY <1>0, <1>1 DEF Inv, TypeOK, StockIsRecorded
<1> QED BY <1>3, <1>4, <1>5, <1>6, <1>7 DEF Inv

LEMMA EditStep ==
  ASSUME Inv, NEW e \in Dishes, NEW quantities \in Recipes, NEW flag \in BOOLEAN,
         EditDish(e, quantities, flag)
  PROVE  Inv'
<1>0. /\ TypeOK /\ JobsFit /\ need \in [Dishes -> [Items -> Amounts]] /\ jobs \in [Requests -> Job]
      /\ need' = [need EXCEPT ![e] = quantities] /\ available' = [available EXCEPT ![e] = flag]
      /\ stale' = stale \union {e} /\ overtaken' = overtaken \union Readers
      /\ UNCHANGED <<items, spent, stock, recorded, unrecorded, jobs>>
  BY Types DEF Inv, EditDish, goods
<1>1. TypeOK'
  <2>1. \A d \in Dishes, k \in Items \ items' : need'[d][k] = Undefined
    BY <1>0 DEF TypeOK, EditDish
  <2>2. /\ need' \in [Dishes -> [Items -> Amounts]] /\ available' \in [Dishes -> BOOLEAN]
        /\ overtaken' \subseteq Requests /\ stale' \subseteq Dishes
    BY <1>0, RecipesAssumption DEF TypeOK, Readers
  <2>3. /\ items' \subseteq spent' /\ spent' \subseteq Items /\ stock' \in [Items -> Stocks]
        /\ recorded' \in [Items -> SUBSET Stocks] /\ unrecorded' \subseteq Items
        /\ jobs' \in [Requests -> Job]
    BY <1>0 DEF TypeOK
  <2> QED BY <1>0, <2>1, <2>2, <2>3, TypesAfter
<1>2. JobsFit'
  BY <1>0 DEF JobsFit, Fits
<1>3. ReadingsCurrent'
  BY <1>0 DEF ReadingsCurrent, Current, Readers, InTransaction
<1>4. AvailabilityAgreesWithStock'
  <2> SUFFICES ASSUME NEW d \in Dishes, d \notin stale'
               PROVE  (available[d] = Makeable(need[d], stock))'
    BY DEF AvailabilityAgreesWithStock
  <2>1. d # e /\ d \notin stale
    BY <1>0
  <2>2. available'[d] = available[d] /\ need'[d] = need[d]
    BY <1>0, <2>1 DEF TypeOK
  <2> QED BY <1>0, <2>1, <2>2 DEF Inv, AvailabilityAgreesWithStock, Makeable
<1>5. StockIsRecorded'
  BY <1>0 DEF Inv, StockIsRecorded
<1> QED BY <1>1, <1>2, <1>3, <1>4, <1>5 DEF Inv

-------------------------------------------------------------------------------
(* Theorems.                                                                *)

LEMMA Invariance == Spec => []Inv
<1>1. Inv /\ UNCHANGED vars => Inv'
  <2> SUFFICES ASSUME Inv, UNCHANGED vars PROVE Inv'
    OBVIOUS
  <2>1. UNCHANGED <<items, spent, stock, recorded, unrecorded, need, available, stale, jobs, overtaken>>
    BY DEF vars, goods, menu
  <2>2. TypeOK' /\ JobsFit' /\ StockIsRecorded'
    BY <2>1 DEF Inv, TypeOK, JobsFit, Fits, StockIsRecorded
  <2>3. ReadingsCurrent'
    BY <2>1 DEF Inv, ReadingsCurrent, Current, Uses, Makeable, After
  <2>4. AvailabilityAgreesWithStock'
    BY <2>1 DEF Inv, AvailabilityAgreesWithStock, Makeable
  <2> QED BY <2>2, <2>3, <2>4 DEF Inv
<1>2. Inv /\ [Next]_vars => Inv'
  BY <1>1, OwnStep, CreateStep, RecordStep, CommitStep, DeleteStep, EditStep DEF Next
<1> QED BY InitInv, <1>2, PTL DEF Spec

\* Items, dishes and requests keep their types; a history holds only stocks, since
\* an update that sets no stock writes no row of it.
THEOREM TypeCorrect == Spec => []TypeOK
  BY Invariance, PTL DEF Inv

\* What update computed from its own transaction's readings agrees with the stock
\* of every ingredient, unless another change overtook those readings.
THEOREM AvailabilityAgrees == Spec => []AvailabilityAgreesWithStock
  BY Invariance, PTL DEF Inv

\* The stock of an item is in the history create and update write, but for a
\* creation that stopped between its two statements.
THEOREM StockRecorded == Spec => []StockIsRecorded
  BY Invariance, PTL DEF Inv
===============================================================================
