--------------------------------- MODULE Menu ---------------------------------
(***************************************************************************)
(* The menu of one restaurant: categories (categories.service.ts), dishes  *)
(* (dishes.service.ts), combos (combos.service.ts) and the menu that is    *)
(* imported from the till (pos.service.ts).  No index makes the name of a  *)
(* category, of a dish or of a combo's row unique: the handlers look first *)
(* and write later, and so overlapping ones may not see each other.  A     *)
(* transaction reads what is committed at each of its queries and commits  *)
(* in one step; foreign keys reject a write about a row that is gone.      *)
(*                                                                         *)
(* A request that writes in one statement what it looked up before, and    *)
(* that fails when the row is gone, is one action.  Sort orders, prices,   *)
(* lookups (tags, allergens), ingredients and modifiers are left out.      *)
(***************************************************************************)
EXTENDS Integers, FiniteSets, Functions

CONSTANTS Requests,          \* requests in progress, one handler each
          Categories, Dishes, Combos,  \* ids of rows, never used twice
          Names, Keys, Key,  \* names of categories; the same ignoring case
          DishNames,
          Tills,             \* menus the till may answer, of each category
                             \* name how often it lists a dish
          Asked,             \* what requests ask of a combo, as a till's
          Most,              \* how often a dish may be listed
          New, Gone          \* a row not yet, and no longer, in the database

ASSUME NameAssumption == Key \in [Names -> Keys] /\ Names \cap Keys = {}
ASSUME TillAssumption ==
  /\ Most \in Nat /\ Asked \subseteq [Dishes -> 0..Most]
  /\ \A t \in Tills : DOMAIN t \subseteq Names /\ \A n \in DOMAIN t : t[n] \in [DishNames -> 0..Most]
ASSUME IdAssumption ==
  {New, Gone} \cap (Names \union Categories) = {} /\ {New, Gone} \cap [Dishes -> Nat] = {} /\ New # Gone
ASSUME FiniteAssumption == IsFiniteSet(Requests) /\ Requests # {} /\ IsFiniteSet(Dishes)

VARIABLES
  category,   \* name of a category, or New or Gone
  place,      \* category of a dish, or New or Gone
  title,      \* name of a dish
  ordered,    \* dishes that are in some order
  combo,      \* how many rows a combo has for a dish, or New or Gone
  connected,  \* the till's key is known
  jobs,       \* what each request is at
  overtaken,  \* history: requests that rely on what was written since they read
  doubted,    \* history: categories named by an overtaken request
  imported    \* history: categories named by the till

names == <<category, doubted, imported>>
dishes == <<place, title, ordered>>
vars == <<names, dishes, combo, connected, jobs, overtaken>>

Exists(row) == row \notin {New, Gone}
Called(n) == {c \in Categories : category[c] = n}
Alike(n) == {c \in Categories : Exists(category[c]) /\ Key[category[c]] = Key[n]}
DishesIn(c) == {d \in Dishes : place[d] = c}
Copies(c, x) == Cardinality({d \in DishesIn(c) : title[d] = x})
With(d) == {k \in Combos : Exists(combo[k]) /\ combo[k][d] > 0}
Listed(asked) == {d \in Dishes : asked[d] > 0}

Done == [op |-> "idle", relies |-> {}]

TypeOK ==
  /\ category \in [Categories -> Names \union {New, Gone}]
  /\ place \in [Dishes -> Categories \union {New, Gone}]
  /\ title \in [Dishes -> DishNames \union {New}]
  /\ \A k \in Combos :
       Exists(combo[k]) => combo[k] \in [Dishes -> 0..Most * Cardinality(Requests)]
  /\ ordered \subseteq Dishes /\ connected \in BOOLEAN
  /\ overtaken \subseteq Requests
  /\ doubted \subseteq Categories /\ imported \subseteq Categories

Init ==
  /\ category = [c \in Categories |-> New]
  /\ place = [d \in Dishes |-> New] /\ title = [d \in Dishes |-> New]
  /\ combo = [k \in Combos |-> New]
  /\ ordered = {} /\ connected = FALSE
  /\ jobs = [r \in Requests |-> Done]
  /\ overtaken = {} /\ doubted = {} /\ imported = {}

-------------------------------------------------------------------------------
(* Steps of every request.                                                  *)

\* A handler has read what it relies on.
Read(r, job) ==
  /\ jobs' = [jobs EXCEPT ![r] = job]
  /\ UNCHANGED <<names, dishes, combo, connected, overtaken>>

OvertakenBy(r, written) ==
  (overtaken \ {r}) \union {q \in Requests \ {r} : jobs[q].relies \cap written # {}}

\* The request is over; others that rely on what it wrote are overtaken.
Commit(r, written) ==
  /\ jobs' = [jobs EXCEPT ![r] = Done]
  /\ overtaken' = OvertakenBy(r, written)
  /\ UNCHANGED connected

\* A request of one step has written.
Write(written) ==
  /\ overtaken' = overtaken \union {q \in Requests : jobs[q].relies \cap written # {}}
  /\ UNCHANGED <<connected, jobs>>

\* A row is gone meanwhile, or the till does not answer.
Reject(r) ==
  /\ jobs[r] # Done
  /\ jobs' = [jobs EXCEPT ![r] = Done]
  /\ overtaken' = overtaken \ {r}
  /\ UNCHANGED <<names, dishes, combo, connected>>

-------------------------------------------------------------------------------
(* Categories.                                                              *)

\* Faulty: the name is not looked for.
CheckNothing(r, n) ==
  /\ jobs[r] = Done
  /\ Read(r, [op |-> "createCategory", name |-> n, relies |-> {Key[n]}])

\* createCategory: no category has the name.
CheckNewCategory(r, n) ==
  /\ jobs[r] = Done /\ Alike(n) = {}
  /\ Read(r, [op |-> "createCategory", name |-> n, relies |-> {Key[n]}])

Name(r, c, n) ==
  /\ category' = [category EXCEPT ![c] = n]
  /\ doubted' = IF r \in overtaken THEN doubted \union {c} ELSE doubted \ {c}
  /\ imported' = imported \ {c}
  /\ UNCHANGED <<dishes, combo>>
  /\ Commit(r, {c, n, Key[n]})

InsertCategory(r, c) ==
  /\ jobs[r].op = "createCategory" /\ category[c] = New
  /\ Name(r, c, jobs[r].name)

\* updateCategory: no other category has the name.
CheckRename(r, c, n) ==
  /\ jobs[r] = Done /\ Exists(category[c]) /\ Alike(n) \subseteq {c}
  /\ Read(r, [op |-> "updateCategory", id |-> c, name |-> n, relies |-> {Key[n]}])

WriteRename(r) ==
  /\ jobs[r].op = "updateCategory" /\ Exists(category[jobs[r].id])
  /\ Name(r, jobs[r].id, jobs[r].name)

\* Rows of dishes go, and with them those of the combos that have them.
Drop(ds) ==
  /\ place' = [d \in Dishes |-> IF d \in ds THEN Gone ELSE place[d]]
  /\ title' = [d \in Dishes |-> IF d \in ds THEN New ELSE title[d]]
  /\ combo' = [k \in Combos |-> IF Exists(combo[k])
                                THEN [d \in Dishes |-> IF d \in ds THEN 0 ELSE combo[k][d]]
                                ELSE combo[k]]

\* Faulty: the dishes stay.
DeleteCategoryAlone(c) ==
  /\ Exists(category[c]) /\ DishesIn(c) \cap ordered = {}
  /\ category' = [category EXCEPT ![c] = Gone]
  /\ doubted' = doubted \ {c} /\ imported' = imported \ {c}
  /\ UNCHANGED <<dishes, combo>>
  /\ Write({c})

\* deleteCategory: refused by the database when one of its dishes was ordered.
DeleteCategory(c) ==
  /\ Exists(category[c]) /\ DishesIn(c) \cap ordered = {}
  /\ category' = [category EXCEPT ![c] = Gone]
  /\ doubted' = doubted \ {c} /\ imported' = imported \ {c}
  /\ Drop(DishesIn(c))
  /\ UNCHANGED ordered
  /\ Write({c, category[c], Key[category[c]]} \union UNION {With(d) : d \in DishesIn(c)})

-------------------------------------------------------------------------------
(* Dishes.                                                                  *)

CreateDish(d, c, x) ==
  /\ place[d] = New /\ Exists(category[c])
  /\ place' = [place EXCEPT ![d] = c] /\ title' = [title EXCEPT ![d] = x]
  /\ UNCHANGED <<names, ordered, combo>>
  /\ Write({c})

\* updateDish: it may move to another category.
UpdateDish(d, c, x) ==
  /\ Exists(place[d]) /\ Exists(category[c]) /\ <<c, x>> # <<place[d], title[d]>>
  /\ place' = [place EXCEPT ![d] = c] /\ title' = [title EXCEPT ![d] = x]
  /\ UNCHANGED <<names, ordered, combo>>
  /\ Write({c, place[d]})

\* deleteDish: refused by the database when the dish was ordered.
DeleteDish(d) ==
  /\ Exists(place[d]) /\ d \notin ordered
  /\ Drop({d})
  /\ UNCHANGED <<names, ordered>>
  /\ Write({place[d]} \union With(d))

\* The orders' service writes and replaces the items of an order.
OrderDish(d) ==
  /\ Exists(place[d]) /\ d \notin ordered
  /\ ordered' = ordered \union {d}
  /\ UNCHANGED <<names, place, title, combo>> /\ Write({})

ForgetDish(d) ==
  /\ d \in ordered /\ ordered' = ordered \ {d}
  /\ UNCHANGED <<names, place, title, combo>> /\ Write({d})

-------------------------------------------------------------------------------
(* Combos.                                                                  *)

CreateCombo(k, asked) ==
  /\ combo[k] = New /\ \A d \in Listed(asked) : Exists(place[d])
  /\ combo' = [combo EXCEPT ![k] = asked]
  /\ UNCHANGED <<names, dishes>> /\ Write({k})

\* update: it reads the combo and looks for the dishes it is asked for.
ReadCombo(r, k, asked) ==
  /\ jobs[r] = Done /\ Exists(combo[k]) /\ \A d \in Listed(asked) : Exists(place[d])
  /\ Read(r, [op |-> "updateCombo", id |-> k, asked |-> asked, read |-> Listed(combo[k]),
              relies |-> {k}])

\* Faulty: every dish asked for is added.
AddAll(r) == Listed(jobs[r].asked)

ToAdd(r) == Listed(jobs[r].asked) \ jobs[r].read
ToDelete(r) == jobs[r].read \ Listed(jobs[r].asked)

\* Only the difference with what was read is written.
WriteCombo(r) ==
  /\ jobs[r].op = "updateCombo" /\ Exists(combo[jobs[r].id])
  /\ \A d \in ToAdd(r) : Exists(place[d])
  /\ combo' = [combo EXCEPT ![jobs[r].id] = [d \in Dishes |->
                 CASE d \in ToDelete(r) -> 0
                   [] d \in ToAdd(r)    -> @[d] + jobs[r].asked[d]
                   [] OTHER             -> @[d]]]
  /\ UNCHANGED <<names, dishes>>
  /\ Commit(r, {jobs[r].id})

DeleteCombo(k) ==
  /\ Exists(combo[k])
  /\ combo' = [combo EXCEPT ![k] = Gone]
  /\ UNCHANGED <<names, dishes>> /\ Write({k})

-------------------------------------------------------------------------------
(* The till.                                                                *)

Connect ==
  /\ ~connected /\ connected' = TRUE
  /\ UNCHANGED <<names, dishes, combo, jobs, overtaken>>

Disconnect ==
  /\ connected /\ connected' = FALSE
  /\ UNCHANGED <<names, dishes, combo, jobs, overtaken>>

\* syncMenu: the key is known, and the till answers with its menu.
FetchMenu(r, t) ==
  /\ jobs[r] = Done /\ connected
  /\ Read(r, [op |-> "syncMenu", at |-> "fetched", till |-> t, relies |-> {}])

\* The categories by name, one of them when several have it, and the names of
\* their dishes.
ReadMenu(r, found) ==
  LET job == jobs[r] IN
  /\ job.op = "syncMenu" /\ job.at = "fetched" /\ DOMAIN found = DOMAIN job.till
  /\ \A n \in DOMAIN found : IF Called(n) = {} THEN found[n] = New ELSE found[n] \in Called(n)
  /\ Read(r, [op |-> "syncMenu", at |-> "read", till |-> job.till, found |-> found,
              known |-> [n \in DOMAIN found |->
                           {x \in DishNames : found[n] # New /\ Copies(found[n], x) > 0}],
              relies |-> DOMAIN found \union (Range(found) \ {New})])

Absent(job) == {n \in DOMAIN job.till : job.found[n] = New}

\* Faulty: it does not look whether the category has the dish.
AllRows(job) == {row \in (DOMAIN job.till) \X DishNames \X (1..Most) :
                   row[3] <= job.till[row[1]][row[2]]}

\* One row for each time the till lists a dish the category did not have.
Rows(job) == {row \in (DOMAIN job.till) \X DishNames \X (1..Most) :
                row[2] \notin job.known[row[1]] /\ row[3] <= job.till[row[1]][row[2]]}

\* One transaction creates what the till has and the menu did not: f and g are
\* the ids of the new categories and dishes.
SyncMenu(r, f, g) ==
  LET job == jobs[r]
      Home(n) == IF n \in DOMAIN f THEN f[n] ELSE job.found[n]
      named == [c \in Range(f) |-> CHOOSE n \in DOMAIN f : f[n] = c]
      rowOf == [d \in Range(g) |-> CHOOSE row \in DOMAIN g : g[row] = d]
  IN
  /\ DOMAIN f = Absent(job) /\ DOMAIN g = Rows(job)
  /\ \A row \in DOMAIN g : row[1] \in DOMAIN f \/ Exists(category[Home(row[1])])
  /\ category' = [c \in Categories |-> IF c \in Range(f) THEN named[c] ELSE category[c]]
  /\ doubted' = IF r \in overtaken THEN doubted \union Range(f) ELSE doubted
  /\ imported' = imported \union Range(f)
  /\ place' = [d \in Dishes |-> IF d \in Range(g) THEN Home(rowOf[d][1]) ELSE place[d]]
  /\ title' = [d \in Dishes |-> IF d \in Range(g) THEN rowOf[d][2] ELSE title[d]]
  /\ UNCHANGED <<ordered, combo>>
  /\ Commit(r, DOMAIN f \union {Key[n] : n \in DOMAIN f} \union {Home(row[1]) : row \in DOMAIN g})

Syncs(r) ==
  /\ jobs[r].op = "syncMenu" /\ jobs[r].at = "read"
  /\ \E f \in Injection(Absent(jobs[r]), Called(New)),
        g \in Injection(Rows(jobs[r]), DishesIn(New)) : SyncMenu(r, f, g)

-------------------------------------------------------------------------------
Steps(r) ==
  \/ \E n \in Names : CheckNewCategory(r, n) \/ \E c \in Categories : CheckRename(r, c, n)
  \/ WriteRename(r) \/ \E c \in Categories : InsertCategory(r, c)
  \/ WriteCombo(r) \/ \E k \in Combos, asked \in Asked : ReadCombo(r, k, asked)
  \/ \E t \in Tills : FetchMenu(r, t)
  \/ \E t \in Tills : \E found \in [DOMAIN t -> Categories \union {New}] : ReadMenu(r, found)
  \/ Syncs(r) \/ Reject(r)

Next ==
  \/ \E r \in Requests : Steps(r)
  \/ \E c \in Categories : DeleteCategory(c)
  \/ \E d \in Dishes : DeleteDish(d) \/ OrderDish(d) \/ ForgetDish(d)
  \/ \E d \in Dishes, c \in Categories, x \in DishNames : CreateDish(d, c, x) \/ UpdateDish(d, c, x)
  \/ \E k \in Combos : DeleteCombo(k) \/ \E asked \in Asked : CreateCombo(k, asked)
  \/ Connect \/ Disconnect

Spec == Init /\ [][Next]_vars

-------------------------------------------------------------------------------
(* Properties.                                                              *)

\* A dish has a category, and a combo and an order have dishes, that exist.
MenuReferencesExist ==
  /\ \A d \in Dishes : Exists(place[d]) => Exists(category[place[d]])
  /\ \A d \in ordered : Exists(place[d])
  /\ \A k \in Combos : Exists(combo[k]) => \A d \in Listed(combo[k]) : Exists(place[d])

\* Two categories have one name only when a request that looked for the name
\* was overtaken; and names that differ in case only when that or an import
\* gave one of them (errors.category_already_exists is about the former).
CategoryNamesUnlessOvertaken ==
  \A c \in Categories : Exists(category[c]) =>
    \A b \in Alike(category[c]) \ {c} :
      {b, c} \cap (IF category[b] = category[c] THEN doubted ELSE doubted \union imported) # {}

\* An import leaves the menu with every category and dish of the till, a dish
\* it had not as often as the till lists it and one it had no oftener than
\* before, unless the menu was changed since the import read it.
SyncCompletesTheMenu ==
  [][\A r \in Requests : Syncs(r) /\ r \notin overtaken =>
       \A n \in DOMAIN jobs[r].till : \E c \in Categories :
         /\ category'[c] = n
         /\ \A x \in DishNames : jobs[r].till[n][x] > 0 =>
              Copies(c, x)' = IF Copies(c, x) > 0 THEN Copies(c, x) ELSE jobs[r].till[n][x]]_vars

\* After an update a combo has the dishes that were asked for and no others, a
\* new one as often as asked and an old one as often as before, unless the
\* combo was written since the update read it.
ComboIsAsAsked ==
  [][\A r \in Requests : WriteCombo(r) /\ r \notin overtaken =>
       LET k == jobs[r].id
           asked == jobs[r].asked
       IN \A d \in Dishes :
            combo'[k][d] = IF asked[d] > 0 /\ combo[k][d] > 0 THEN combo[k][d] ELSE asked[d]]_vars
===============================================================================
