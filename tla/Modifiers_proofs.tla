--------------------------- MODULE Modifiers_proofs ---------------------------
(***************************************************************************)
(* Proofs about Modifiers and the Menu below it: types and references, that *)
(* names of categories differ, and that an import, the update of a combo    *)
(* and the update of a group leave what was asked for.                      *)
(***************************************************************************)
EXTENDS Modifiers, FiniteSetTheorems, TLAPS

-------------------------------------------------------------------------------
(* The inductive invariant.                                                 *)

ComboTypes ==
  /\ DOMAIN combo = Combos
  /\ \A k \in Combos : Exists(combo[k]) => combo[k] \in [Dishes -> Nat]

RowTypes ==
  /\ category \in [Categories -> Names \union {New, Gone}]
  /\ place \in [Dishes -> Categories \union {New, Gone}]
  /\ title \in [Dishes -> DishNames \union {New}]
  /\ ordered \subseteq Dishes
  /\ group \in [Groups -> {"there", New, Gone}]
  /\ home \in [Options -> Groups \union {New, Gone}]
  /\ available \in [Options -> BOOLEAN]
  /\ \A o \in Options : Exists(home[o]) \/ available[o]
  /\ links \subseteq Dishes \X Groups /\ lines \subseteq Dishes \X Options

NoteTypes ==
  /\ connected \in BOOLEAN /\ doubted \subseteq Categories /\ imported \subseteq Categories

\* A dish is listed as often as updates can have added it that are not to add it
\* any more: an update adds it once, and only if it was not there.
Adds(j, k, d) == j.op = "updateCombo" /\ j.id = k /\ j.asked[d] > 0 /\ d \notin j.read
Others(k, d) == {r \in Requests : ~Adds(jobs[r], k, d)}

ComboBounded ==
  \A k \in Combos, d \in Dishes :
    Exists(combo[k]) => combo[k][d] <= Most * Cardinality(Others(k, d))

\* What a request holds.  The options that an update of a group is to delete or to
\* keep were of that group and are of no other.
Fits(j) ==
  /\ j.op = "createCategory" => j.name \in Names /\ Key[j.name] \in j.relies
  /\ j.op = "updateCategory" =>
       j.name \in Names /\ Key[j.name] \in j.relies /\ j.id \in Categories
  /\ j.op = "updateCombo" =>
       /\ j.id \in Combos /\ combo[j.id] # New /\ j.id \in j.relies
       /\ j.asked \in Asked /\ j.read \subseteq Dishes
  /\ j.op = "syncMenu" => j.till \in Tills
  /\ j.op = "syncMenu" /\ j.at = "read" =>
       /\ j.found \in [DOMAIN j.till -> Categories \union {New}]
       /\ DOMAIN j.till \subseteq j.relies
       /\ \A n \in DOMAIN j.till :
            IF j.found[n] = New THEN j.known[n] = {} ELSE j.found[n] \in j.relies
  /\ j.op = "updateGroup" =>
       /\ j.id \in Groups /\ group[j.id] # New /\ j.ask \in GroupRequests
       /\ j.used \subseteq j.relies /\ j.id \in j.relies
       /\ j.used \union j.unused \subseteq Options \ j.ask.keep /\ j.used \cap j.unused = {}
       /\ \A o \in j.used \union j.unused : home[o] \in {j.id, Gone}

JobsFit == DOMAIN jobs = Requests /\ overtaken \subseteq Requests /\ \A r \in Requests : Fits(jobs[r])

Placed(c, x) == {d \in DishesIn(c) : title[d] = x}

\* What a request that was not overtaken has read is still so.
Current(j) ==
  /\ j.op = "createCategory" => Alike(j.name) = {}
  /\ j.op = "updateCategory" => Alike(j.name) \subseteq {j.id}
  /\ j.op = "updateCombo" /\ Exists(combo[j.id]) => j.read = Listed(combo[j.id])
  /\ j.op = "syncMenu" /\ j.at = "read" =>
       \A n \in DOMAIN j.till :
         IF j.found[n] = New THEN Called(n) = {}
         ELSE /\ category[j.found[n]] = n
              /\ \A x \in DishNames : x \in j.known[n] <=> Placed(j.found[n], x) # {}
  /\ j.op = "updateGroup" =>
       /\ OptionsOf(j.id) \subseteq j.ask.keep \union j.used \union j.unused
       /\ \A o \in j.used : Used(o)
       /\ \A l \in lines : l[2] \in j.used => l[1] \in j.relies

ReadingsCurrent == \A r \in Requests \ overtaken : Current(jobs[r])

Inv ==
  /\ RowTypes /\ ComboTypes /\ NoteTypes /\ ComboBounded
  /\ CatalogueReferencesExist
  /\ JobsFit /\ ReadingsCurrent
  /\ CategoryNamesUnlessOvertaken

-------------------------------------------------------------------------------
(* What becomes of the requests in a step.                                  *)

\* Ids and values of rows are told from rows that are not in the database.
LEMMA RowsExist ==
  /\ ~Exists(New) /\ ~Exists(Gone) /\ Exists("there")
  /\ \A c \in Categories \union Names : Exists(c)
  /\ \A g \in Groups \union Options : Exists(g)
  /\ \A f \in [Dishes -> Nat] : Exists(f)
  BY IdAssumption, GroupAssumption DEF Exists

LEMMA AskedCounts ==
  /\ Most \in Nat /\ \A asked \in Asked : asked \in [Dishes -> 0..Most] /\ asked \in [Dishes -> Nat]
  BY TillAssumption

LEMMA DoneFits ==
  /\ Done.op = "idle" /\ Done.relies = {} /\ Fits(Done) /\ Current(Done)
  /\ \A k, d : ~Adds(Done, k, d)
  BY DEF Done, Fits, Current, Adds

\* Requests go on or are over, and those that go on without being overtaken do not
\* rely on what is written.
Writes(written) ==
  /\ DOMAIN jobs' = Requests /\ overtaken' \subseteq Requests
  /\ \A q \in Requests : jobs'[q] = jobs[q] \/ jobs'[q] = Done
  /\ \A q \in Requests \ overtaken' :
       jobs'[q] = Done \/ (jobs'[q] = jobs[q] /\ q \notin overtaken /\ jobs[q].relies \cap written = {})

LEMMA WriteWrites ==
  ASSUME JobsFit, NEW written, Write(written)
  PROVE  Writes(written)
  BY DEF Write, Writes, JobsFit

LEMMA CommitWrites ==
  ASSUME JobsFit, NEW r \in Requests, NEW written, Commit(r, written)
  PROVE  Writes(written) /\ jobs'[r] = Done
<1>1. DOMAIN jobs' = Requests /\ jobs'[r] = Done /\ \A q \in Requests : q # r => jobs'[q] = jobs[q]
  BY DEF Commit, JobsFit
<1>2. overtaken' \subseteq Requests
  BY DEF Commit, OvertakenBy, JobsFit
<1>3. ASSUME NEW q \in Requests \ overtaken', q # r
      PROVE  q \notin overtaken /\ jobs[q].relies \cap written = {}
  BY <1>3 DEF Commit, OvertakenBy
<1> QED BY <1>1, <1>2, <1>3 DEF Writes

LEMMA RejectWrites ==
  ASSUME JobsFit, NEW r \in Requests, Reject(r)
  PROVE  Writes({})
<1>1. DOMAIN jobs' = Requests /\ jobs'[r] = Done /\ \A q \in Requests : q # r => jobs'[q] = jobs[q]
  BY DEF Reject, JobsFit
<1> QED BY <1>1 DEF Reject, Writes, JobsFit

\* What a step that writes this may do to the rows that others have read.
CategoriesKeep(written) ==
  /\ \A n \in Names : Key[n] \notin written => Alike(n)' \subseteq Alike(n)
  /\ \A n \in Names : n \notin written => Called(n)' \subseteq Called(n)
  /\ \A c \in Categories : c \notin written /\ Exists(category[c]) => category'[c] = category[c]

DishesKeep(written) ==
  \A c \in Categories, x \in DishNames :
    c \notin written /\ Exists(category[c]) => Placed(c, x)' = Placed(c, x)

CombosKeep(written) ==
  \A k \in Combos : combo[k] # New =>
    /\ combo'[k] # New
    /\ k \notin written /\ combo'[k] \notin {New, Gone} =>
         Exists(combo[k]) /\ Listed(combo[k])' = Listed(combo[k])

GroupsKeep(written) ==
  /\ \A g \in Groups : group[g] # New => group'[g] # New
  /\ \A g \in Groups : group[g] # New /\ g \notin written => OptionsOf(g)' \subseteq OptionsOf(g)
  /\ \A o \in Options : home[o] # New => home'[o] \in {home[o], Gone}

LinesKeep(written) ==
  /\ \A l \in lines : l \in lines' \/ l[1] \in written \/ l[2] \in written
  /\ \A l \in lines' : l \in lines \/ l[2] \in written

LEMMA CategoriesSame ==
  ASSUME NEW written, UNCHANGED category PROVE CategoriesKeep(written)
  BY DEF CategoriesKeep, Alike, Called

LEMMA DishesSame ==
  ASSUME NEW written, UNCHANGED <<place, title>> PROVE DishesKeep(written)
  BY DEF DishesKeep, Placed, DishesIn

LEMMA CombosSame ==
  ASSUME NEW written, UNCHANGED combo PROVE CombosKeep(written)
  BY DEF CombosKeep, Exists, Listed

LEMMA GroupsSame ==
  ASSUME NEW written, UNCHANGED <<group, home>> PROVE GroupsKeep(written)
  BY DEF GroupsKeep, OptionsOf

LEMMA LinesSame ==
  ASSUME NEW written, UNCHANGED lines PROVE LinesKeep(written)
  BY DEF LinesKeep

\* A request that goes on holds what it held.
LEMMA FitsKept ==
  ASSUME NEW j, Fits(j), NEW written, CombosKeep(written), GroupsKeep(written)
  PROVE  Fits(j)'
<1>1. CASE j.op = "updateCombo"
  <2>1. j.id \in Combos /\ combo[j.id] # New
    BY <1>1 DEF Fits
  <2>2. combo'[j.id] # New
    BY <2>1 DEF CombosKeep
  <2> QED BY <1>1, <2>2 DEF Fits
<1>2. CASE j.op = "updateGroup"
  <2>1. j.id \in Groups /\ group'[j.id] # New /\ New \notin {j.id, Gone}
    BY <1>2, GroupAssumption, IdAssumption DEF Fits, GroupsKeep
  <2>2. \A o \in j.used \union j.unused : home'[o] \in {j.id, Gone}
    BY <1>2, <2>1 DEF Fits, GroupsKeep
  <2> QED BY <1>2, <2>1, <2>2 DEF Fits
<1>3. CASE j.op \notin {"updateCombo", "updateGroup"}
  BY <1>3 DEF Fits
<1> QED BY <1>1, <1>2, <1>3

LEMMA CurrentKept ==
  ASSUME NEW j, Fits(j), Current(j), NEW written, j.relies \cap written = {},
         CategoriesKeep(written), DishesKeep(written), CombosKeep(written), GroupsKeep(written),
         LinesKeep(written)
  PROVE  Current(j)'
<1>1. CASE j.op = "createCategory"
  <2>1. j.name \in Names /\ Key[j.name] \notin written
    BY <1>1 DEF Fits
  <2>2. Alike(j.name)' \subseteq Alike(j.name)
    BY <2>1 DEF CategoriesKeep
  <2> QED BY <1>1, <2>2 DEF Current
<1>2. CASE j.op = "updateCategory"
  <2>1. j.name \in Names /\ Key[j.name] \notin written
    BY <1>2 DEF Fits
  <2>2. Alike(j.name)' \subseteq Alike(j.name)
    BY <2>1 DEF CategoriesKeep
  <2> QED BY <1>2, <2>2 DEF Current
<1>3. CASE j.op = "updateCombo"
  <2>1. j.id \in Combos /\ combo[j.id] # New /\ j.id \notin written
    BY <1>3 DEF Fits
  <2>2. combo'[j.id] \notin {New, Gone} => Exists(combo[j.id]) /\ Listed(combo[j.id])' = Listed(combo[j.id])
    BY <2>1 DEF CombosKeep
  <2> QED BY <1>3, <2>2 DEF Current, Exists
<1>4. CASE j.op = "syncMenu" /\ j.at = "read"
  <2> SUFFICES ASSUME NEW n \in DOMAIN j.till
      PROVE  IF j.found[n] = New THEN Called(n)' = {}
             ELSE /\ category'[j.found[n]] = n
                  /\ \A x \in DishNames : x \in j.known[n] <=> Placed(j.found[n], x)' # {}
    BY <1>4 DEF Current
  <2>1. n \in Names /\ n \notin written
    BY <1>4, TillAssumption DEF Fits
  <2>2. CASE j.found[n] = New
    BY <1>4, <2>1, <2>2 DEF Current, CategoriesKeep
  <2>3. CASE j.found[n] # New
    <3>1. PICK c \in Categories : c = j.found[n]
      BY <1>4, <2>3 DEF Fits
    <3>2. c \notin written /\ category[c] = n /\ \A x \in DishNames : x \in j.known[n] <=> Placed(c, x) # {}
      BY <1>4, <2>3, <3>1 DEF Fits, Current
    <3>3. Exists(category[c])
      BY <2>1, <3>2, RowsExist
    <3>4. category'[c] = n /\ \A x \in DishNames : Placed(c, x)' = Placed(c, x)
      BY <3>2, <3>3 DEF CategoriesKeep, DishesKeep
    <3> QED BY <2>3, <3>1, <3>2, <3>4
  <2> QED BY <2>2, <2>3
<1>5. CASE j.op = "updateGroup"
  <2>1. j.used \cap written = {}
    BY <1>5 DEF Fits
  <2>2. ASSUME NEW l \in lines', l[2] \in j.used PROVE l[1] \in j.relies
    BY <1>5, <2>1, <2>2 DEF LinesKeep, Current
  <2>3. ASSUME NEW o \in j.used PROVE Used(o)'
    <3>1. PICK d \in Dishes : <<d, o>> \in lines
      BY <1>5 DEF Current, Used
    <3>2. d \in j.relies
      BY <1>5, <3>1 DEF Current
    <3>3. <<d, o>> \in lines'
      BY <2>1, <3>1, <3>2 DEF LinesKeep
    <3> QED BY <3>3 DEF Used
  <2>4. OptionsOf(j.id)' \subseteq j.ask.keep \union j.used \union j.unused
    <3>1. j.id \in Groups /\ group[j.id] # New /\ j.id \notin written
      BY <1>5 DEF Fits
    <3>2. OptionsOf(j.id)' \subseteq OptionsOf(j.id)
      BY <3>1 DEF GroupsKeep
    <3> QED BY <1>5, <3>2 DEF Current
  <2> QED BY <1>5, <2>2, <2>3, <2>4 DEF Current
<1>6. CASE j.op \notin {"createCategory", "updateCategory", "updateCombo", "updateGroup"}
           /\ ~(j.op = "syncMenu" /\ j.at = "read")
  BY <1>6 DEF Current
<1> QED BY <1>1, <1>2, <1>3, <1>4, <1>5, <1>6

JobsOK == JobsFit /\ ReadingsCurrent

LEMMA JobsKept ==
  ASSUME JobsOK, NEW written, Writes(written), CategoriesKeep(written), DishesKeep(written),
         CombosKeep(written), GroupsKeep(written), LinesKeep(written)
  PROVE  JobsOK'
<1>1. ASSUME NEW q \in Requests, NEW j, j = jobs'[q]
      PROVE  Fits(j)' /\ (q \notin overtaken' => Current(j)')
  <2>1. CASE j = Done
    BY <2>1 DEF Fits, Current, Done
  <2>2. CASE j # Done
    <3>1. j = jobs[q] /\ (q \notin overtaken' => q \notin overtaken /\ j.relies \cap written = {})
      BY <1>1, <2>2 DEF Writes
    <3>2. Fits(j) /\ (q \notin overtaken => Current(j))
      BY <3>1 DEF JobsOK, JobsFit, ReadingsCurrent
    <3>3. Fits(j)'
      BY <3>2, FitsKept
    <3>4. q \notin overtaken' => Current(j)'
      BY <3>1, <3>2, CurrentKept
    <3> QED BY <3>3, <3>4
  <2> QED BY <2>1, <2>2
<1>2. JobsFit'
  BY <1>1 DEF JobsFit, Writes
<1>3. ReadingsCurrent'
  BY <1>1 DEF ReadingsCurrent, Writes
<1> QED BY <1>2, <1>3 DEF JobsOK

-------------------------------------------------------------------------------
(* Rows that stay, and how often a combo may list a dish.                   *)

\* Of the catalogue: dishes, groups, options, links and orders.
LEMMA RowTypesSame ==
  ASSUME RowTypes, UNCHANGED <<category, place, title, ordered, modifiers>> PROVE RowTypes'
  BY DEF RowTypes, modifiers, options, Exists

LEMMA ReferencesSame ==
  ASSUME CatalogueReferencesExist, UNCHANGED <<category, place, ordered, combo, modifiers>>
  PROVE  CatalogueReferencesExist'
  BY DEF CatalogueReferencesExist, MenuReferencesExist, modifiers, options, Exists, Listed

LEMMA NamesSame ==
  ASSUME CategoryNamesUnlessOvertaken, UNCHANGED names PROVE CategoryNamesUnlessOvertaken'
  BY DEF CategoryNamesUnlessOvertaken, names, Alike, Exists

LEMMA NotesSame ==
  ASSUME NoteTypes, UNCHANGED <<names, connected>> PROVE NoteTypes'
  BY DEF NoteTypes, names

LEMMA ComboTypesSame ==
  ASSUME ComboTypes, UNCHANGED combo PROVE ComboTypes'
  BY DEF ComboTypes, Exists

LEMMA Times ==
  ASSUME NEW m \in Nat, NEW a \in Nat, NEW b \in Nat, a <= b
  PROVE  m * a \in Nat /\ m * a <= m * b
<1>1. PICK c \in Nat : b = a + c
  <2>1. b - a \in Nat /\ b = a + (b - a)
    OBVIOUS
  <2> QED BY <2>1
<1>2. m * (a + c) = m * a + m * c /\ m * a \in Nat /\ m * c \in Nat
  OBVIOUS
<1> QED BY <1>1, <1>2

LEMMA MoreCount ==
  ASSUME NEW S, NEW T, S \subseteq T, T \subseteq Requests
  PROVE  /\ Cardinality(S) \in Nat /\ Cardinality(T) \in Nat
         /\ Most * Cardinality(S) \in Nat /\ Most * Cardinality(T) \in Nat
         /\ Most * Cardinality(S) <= Most * Cardinality(T)
<1>1. IsFiniteSet(T) /\ IsFiniteSet(S)
  BY FiniteAssumption, FS_Subset
<1>2. Cardinality(S) \in Nat /\ Cardinality(T) \in Nat /\ Cardinality(S) <= Cardinality(T)
  BY <1>1, FS_CardinalityType, FS_Subset
<1>3. Most * Cardinality(S) <= Most * Cardinality(T) /\ Most * Cardinality(S) \in Nat
  BY <1>2, AskedCounts, Times
<1>4. Most * Cardinality(T) \in Nat
  BY <1>2, AskedCounts, Times
<1> QED BY <1>2, <1>3, <1>4

LEMMA OthersGrow ==
  ASSUME NEW written, Writes(written), NEW k, NEW d
  PROVE  /\ Most * Cardinality(Others(k, d)) \in Nat /\ Most * Cardinality(Others(k, d)') \in Nat
         /\ Most * Cardinality(Others(k, d)) <= Most * Cardinality(Others(k, d)')
<1>1. Others(k, d) \subseteq Others(k, d)' /\ Others(k, d)' \subseteq Requests
  BY DoneFits DEF Others, Writes
<1> QED BY <1>1, MoreCount

LEMMA BoundKept ==
  ASSUME ComboBounded, ComboTypes, ComboTypes', NEW written, Writes(written),
         \A k \in Combos : combo'[k] \notin {New, Gone} =>
           combo[k] \notin {New, Gone} /\ \A d \in Dishes : combo'[k][d] <= combo[k][d]
  PROVE  ComboBounded'
<1> SUFFICES ASSUME NEW k \in Combos, NEW d \in Dishes, combo'[k] \notin {New, Gone}
             PROVE  combo'[k][d] <= Most * Cardinality(Others(k, d)')
  BY DEF ComboBounded, Exists
<1>1. combo[k][d] \in Nat /\ combo'[k][d] \in Nat /\ combo'[k][d] <= combo[k][d]
  BY DEF ComboTypes, Exists
<1>2. combo[k][d] <= Most * Cardinality(Others(k, d))
  BY DEF ComboBounded, Exists
<1>3. /\ Most * Cardinality(Others(k, d)) \in Nat /\ Most * Cardinality(Others(k, d)') \in Nat
      /\ Most * Cardinality(Others(k, d)) <= Most * Cardinality(Others(k, d)')
  BY OthersGrow
<1> QED BY <1>1, <1>2, <1>3

LEMMA BoundSame ==
  ASSUME ComboBounded, ComboTypes, UNCHANGED combo, NEW written, Writes(written)
  PROVE  ComboBounded'
<1>1. ComboTypes'
  BY ComboTypesSame
<1>2. ASSUME NEW k \in Combos, combo'[k] \notin {New, Gone}
      PROVE  combo[k] \notin {New, Gone} /\ \A d \in Dishes : combo'[k][d] <= combo[k][d]
  BY <1>2 DEF ComboTypes, Exists
<1> QED BY <1>1, <1>2, BoundKept

-------------------------------------------------------------------------------
(* Requests read.                                                           *)

LEMMA ReadInv ==
  ASSUME Inv, NEW r \in Requests, NEW j, Read(r, j), UNCHANGED modifiers, Fits(j), Current(j),
         j.op = "updateCombo" => Exists(combo[j.id])
  PROVE  Inv'
<1>1. /\ DOMAIN jobs' = Requests /\ jobs'[r] = j /\ \A q \in Requests : q # r => jobs'[q] = jobs[q]
      /\ UNCHANGED <<names, dishes, combo, connected, overtaken>>
  BY DEF Inv, JobsFit, Read
<1>2. UNCHANGED <<category, doubted, imported, place, title, ordered, group, home, available, links, lines>>
  BY <1>1 DEF names, dishes, modifiers, options
<1>3. RowTypes' /\ ComboTypes' /\ NoteTypes' /\ CatalogueReferencesExist' /\ CategoryNamesUnlessOvertaken'
  BY <1>1, <1>2, RowTypesSame, ComboTypesSame, NotesSame, ReferencesSame, NamesSame DEF Inv
<1>4. ASSUME NEW q \in Requests, NEW i, i = jobs'[q]
      PROVE  Fits(i)' /\ (q \notin overtaken' => Current(i)')
  <2>1. Fits(i) /\ (q \notin overtaken => Current(i))
    BY <1>1, <1>4 DEF Inv, JobsFit, ReadingsCurrent
  <2>3. CombosKeep({}) /\ GroupsKeep({}) /\ CategoriesKeep({}) /\ DishesKeep({}) /\ LinesKeep({})
    BY <1>1, <1>2, CombosSame, GroupsSame, CategoriesSame, DishesSame, LinesSame
  <2>4. Fits(i)'
    BY <2>1, <2>3, FitsKept
  <2>5. Current(i) => Current(i)'
    BY <2>1, <2>3, CurrentKept
  <2> QED BY <1>1, <2>1, <2>4, <2>5
<1>5. JobsFit' /\ ReadingsCurrent'
  BY <1>1, <1>4 DEF Inv, JobsFit, ReadingsCurrent
<1>7. ComboBounded'
  <2> SUFFICES ASSUME NEW k \in Combos, NEW d \in Dishes, combo[k] \notin {New, Gone}
               PROVE  combo[k][d] <= Most * Cardinality(Others(k, d)')
    BY <1>1 DEF ComboBounded, Exists
  <2>1. combo[k][d] \in Nat
    BY DEF Inv, ComboTypes, Exists
  <2>2. Others(k, d)' \subseteq Requests
    BY DEF Others
  <2>3. CASE Adds(j, k, d)
    <3>1. d \notin Listed(combo[k])
      BY <2>3 DEF Adds, Current, Exists
    <3>2. combo[k][d] = 0
      BY <2>1, <3>1 DEF Listed
    <3> QED BY <2>2, <3>2, MoreCount
  <2>4. CASE ~Adds(j, k, d)
    <3>1. Others(k, d) \subseteq Others(k, d)'
      BY <1>1, <2>4 DEF Others
    <3>2. combo[k][d] <= Most * Cardinality(Others(k, d))
      BY DEF Inv, ComboBounded, Exists
    <3> QED BY <2>1, <2>2, <3>1, <3>2, MoreCount
  <2> QED BY <2>3, <2>4
<1> QED BY <1>3, <1>5, <1>7 DEF Inv

LEMMA CascadeSame ==
  ASSUME Inv, Cascade, UNCHANGED <<place, ordered>> PROVE UNCHANGED modifiers
<1>1. \A l \in links : place[l[1]] \notin {New, Gone}
  BY DEF Inv, CatalogueReferencesExist, Exists
<1>2. \A l \in lines : l[1] \in ordered
  BY DEF Inv, CatalogueReferencesExist
<1>3. links' = links
  BY <1>1 DEF Cascade, Exists
<1>4. lines' = lines
  BY <1>2 DEF Cascade
<1> QED BY <1>3, <1>4 DEF Cascade, modifiers

LEMMA CopiesPlaced ==
  ASSUME NEW c, NEW x PROVE Copies(c, x) > 0 <=> Placed(c, x) # {}
<1>1. IsFiniteSet(Placed(c, x))
  <2>1. Placed(c, x) \in SUBSET Dishes
    BY DEF Placed, DishesIn
  <2> QED BY <2>1, FiniteAssumption, FS_Subset
<1>2. Cardinality(Placed(c, x)) \in Nat /\ (Cardinality(Placed(c, x)) = 0 <=> Placed(c, x) = {})
  BY <1>1, FS_CardinalityType, FS_EmptySet
<1> QED BY <1>2 DEF Copies, Placed

LEMMA ReadsInv ==
  ASSUME Inv, NEW r \in Requests,
         \/ \E n \in Names : CheckNewCategory(r, n)
         \/ \E n \in Names, c \in Categories : CheckRename(r, c, n)
         \/ \E k \in Combos, asked \in Asked : ReadCombo(r, k, asked)
         \/ \E t \in Tills : FetchMenu(r, t)
         \/ \E t \in Tills : \E found \in [DOMAIN t -> Categories \union {New}] : ReadMenu(r, found),
         Cascade
  PROVE  Inv'
<1>0. ASSUME NEW j, Read(r, j) PROVE UNCHANGED modifiers
  <2>1. UNCHANGED <<place, ordered>>
    BY <1>0 DEF Read, dishes
  <2> QED BY <2>1, CascadeSame
<1>1. ASSUME NEW n \in Names, CheckNewCategory(r, n) PROVE Inv'
  <2> DEFINE j == [op |-> "createCategory", name |-> n, relies |-> {Key[n]}]
  <2>1. Read(r, j) /\ Alike(n) = {}
    BY <1>1 DEF CheckNewCategory
  <2>2. Fits(j) /\ Current(j) /\ j.op = "createCategory"
    BY <2>1 DEF Fits, Current
  <2> HIDE DEF j
  <2> QED BY <1>0, <2>1, <2>2, ReadInv
<1>2. ASSUME NEW n \in Names, NEW c \in Categories, CheckRename(r, c, n) PROVE Inv'
  <2> DEFINE j == [op |-> "updateCategory", id |-> c, name |-> n, relies |-> {Key[n]}]
  <2>1. Read(r, j) /\ Alike(n) \subseteq {c}
    BY <1>2 DEF CheckRename
  <2>2. Fits(j) /\ Current(j) /\ j.op = "updateCategory"
    BY <2>1 DEF Fits, Current
  <2> HIDE DEF j
  <2> QED BY <1>0, <2>1, <2>2, ReadInv
<1>3. ASSUME NEW k \in Combos, NEW asked \in Asked, ReadCombo(r, k, asked) PROVE Inv'
  <2> DEFINE j == [op |-> "updateCombo", id |-> k, asked |-> asked, read |-> Listed(combo[k]),
                   relies |-> {k}]
  <2>1. Read(r, j) /\ Exists(combo[k])
    BY <1>3 DEF ReadCombo
  <2>2. Listed(combo[k]) \subseteq Dishes /\ combo[k] # New
    BY <2>1 DEF Listed, Exists
  <2>3. Fits(j) /\ Current(j) /\ j.op = "updateCombo" /\ j.id = k
    BY <2>1, <2>2 DEF Fits, Current
  <2> HIDE DEF j
  <2> QED BY <1>0, <2>1, <2>3, ReadInv
<1>4. ASSUME NEW t \in Tills, FetchMenu(r, t) PROVE Inv'
  <2> DEFINE j == [op |-> "syncMenu", at |-> "fetched", till |-> t, relies |-> {}]
  <2>1. Read(r, j)
    BY <1>4 DEF FetchMenu
  <2>2. Fits(j) /\ Current(j) /\ j.op = "syncMenu"
    BY DEF Fits, Current
  <2> HIDE DEF j
  <2> QED BY <1>0, <2>1, <2>2, ReadInv
<1>5. ASSUME NEW t \in Tills, NEW found \in [DOMAIN t -> Categories \union {New}], ReadMenu(r, found)
      PROVE  Inv'
  <2> DEFINE till == jobs[r].till
             known == [n \in DOMAIN found |->
                         {x \in DishNames : found[n] # New /\ Copies(found[n], x) > 0}]
             relies == DOMAIN found \union (Range(found) \ {New})
             j == [op |-> "syncMenu", at |-> "read", till |-> till, found |-> found,
                   known |-> known, relies |-> relies]
  <2>1. /\ Read(r, j) /\ jobs[r].op = "syncMenu" /\ DOMAIN found = DOMAIN till
        /\ \A n \in DOMAIN found : IF Called(n) = {} THEN found[n] = New ELSE found[n] \in Called(n)
    BY <1>5 DEF ReadMenu
  <2>2. till \in Tills
    BY <2>1 DEF Inv, JobsFit, Fits
  <2>3. found \in [DOMAIN till -> Categories \union {New}]
    BY <2>1
  <2>4. DOMAIN till \subseteq relies /\ \A n \in DOMAIN till : found[n] # New => found[n] \in relies
    BY <2>1 DEF Range
  <2>5. \A n \in DOMAIN till : found[n] = New => known[n] = {}
    BY <2>1
  <2>6. \A n \in DOMAIN till : IF found[n] = New THEN Called(n) = {} ELSE category[found[n]] = n
    <3> SUFFICES ASSUME NEW n \in DOMAIN till
                 PROVE  IF found[n] = New THEN Called(n) = {} ELSE category[found[n]] = n
      OBVIOUS
    <3>1. New \notin Called(n)
      BY IdAssumption DEF Called
    <3> QED BY <2>1, <3>1 DEF Called
  <2>7. ASSUME NEW n \in DOMAIN till, found[n] # New
        PROVE  \A x \in DishNames : x \in known[n] <=> Placed(found[n], x) # {}
    BY <2>1, <2>7, CopiesPlaced
  <2>8. /\ j.op = "syncMenu" /\ j.at = "read" /\ j.till = till /\ j.found = found
        /\ j.known = known /\ j.relies = relies
    OBVIOUS
  <2> HIDE DEF j, known, relies, till
  <2>9. Fits(j)
    BY <2>2, <2>3, <2>4, <2>5, <2>8 DEF Fits
  <2>10. Current(j)
    BY <2>6, <2>7, <2>8 DEF Current
  <2> QED BY <1>0, <2>1, <2>8, <2>9, <2>10, ReadInv
<1> QED BY <1>1, <1>2, <1>3, <1>4, <1>5

LEMMA ReadGroupInv ==
  ASSUME Inv, NEW r \in Requests, NEW g \in Groups, NEW ask \in GroupRequests, ReadGroup(r, g, ask)
  PROVE  Inv'
<1> DEFINE removed == OptionsOf(g) \ ask.keep
           unused == {o \in removed : ~Used(o)}
           used == {o \in removed : Used(o)}
           relies == {g} \union removed
                     \union {d \in Dishes : \E o \in removed : <<d, o>> \in lines}
           j == [op |-> "updateGroup", id |-> g, ask |-> ask, unused |-> unused,
                 used |-> used, relies |-> relies]
<1>1. Read(r, j) /\ group[g] # New /\ UNCHANGED modifiers
  BY DEF ReadGroup, Exists
<1>2. /\ used \union unused \subseteq Options \ ask.keep /\ used \cap unused = {}
      /\ used \subseteq relies /\ g \in relies
      /\ OptionsOf(g) \subseteq ask.keep \union used \union unused
      /\ \A o \in used \union unused : home[o] \in {g, Gone}
  BY DEF OptionsOf
<1>3. \A o \in used : Used(o)
  OBVIOUS
<1>4. ASSUME NEW l \in lines, l[2] \in used PROVE l[1] \in relies
  <2>1. l[1] \in Dishes /\ l = <<l[1], l[2]>>
    BY DEF Inv, RowTypes
  <2> QED BY <1>4, <2>1
<1>5. /\ j.op = "updateGroup" /\ j.id = g /\ j.ask = ask /\ j.unused = unused
      /\ j.used = used /\ j.relies = relies
  OBVIOUS
<1> HIDE DEF j, unused, used, relies
<1>6. Fits(j) /\ Current(j)
  BY <1>1, <1>2, <1>3, <1>4, <1>5 DEF Fits, Current
<1> QED BY <1>1, <1>5, <1>6, ReadInv

-------------------------------------------------------------------------------
(* Categories get names.                                                    *)

LEMMA NameInv ==
  ASSUME Inv, NEW r \in Requests, NEW c \in Categories, NEW n \in Names, Name(r, c, n), Cascade,
         r \notin overtaken => Alike(n) \subseteq {c}
  PROVE  Inv'
<1> DEFINE w == {c, n, Key[n]}
<1>0. /\ category' = [category EXCEPT ![c] = n]
      /\ doubted' = (IF r \in overtaken THEN doubted \union {c} ELSE doubted \ {c})
      /\ imported' = imported \ {c} /\ UNCHANGED <<place, title, ordered, combo, connected>>
      /\ Commit(r, w)
  BY DEF Name, dishes, Commit
<1>1. Writes(w)
  BY <1>0, CommitWrites DEF Inv
<1>2. UNCHANGED <<group, home, available, links, lines>>
  BY <1>0, CascadeSame DEF modifiers, options
<1>3. /\ category' \in [Categories -> Names \union {New, Gone}] /\ category'[c] = n
      /\ \A b \in Categories : b # c => category'[b] = category[b]
  BY <1>0 DEF Inv, RowTypes
<1>4. RowTypes'
  BY <1>0, <1>2, <1>3 DEF Inv, RowTypes, Exists
<1>5. ComboTypes' /\ NoteTypes' /\ ComboBounded'
  <2>1. NoteTypes'
    BY <1>0 DEF Inv, NoteTypes
  <2> QED BY <1>0, <1>1, <2>1, ComboTypesSame, BoundSame DEF Inv
<1>6. CatalogueReferencesExist'
  <2>1. \A d \in Dishes : place[d] \notin {New, Gone} => category'[place[d]] \notin {New, Gone}
    <3> SUFFICES ASSUME NEW d \in Dishes, place[d] \notin {New, Gone}
                 PROVE  category'[place[d]] \notin {New, Gone}
      OBVIOUS
    <3>1. place[d] \in Categories /\ category[place[d]] \notin {New, Gone}
      BY DEF Inv, RowTypes, CatalogueReferencesExist, MenuReferencesExist, Exists
    <3> QED BY <1>3, <3>1, IdAssumption
  <2> QED BY <1>0, <1>2, <2>1 DEF Inv, CatalogueReferencesExist, MenuReferencesExist, Exists, Listed
<1>7. CategoriesKeep(w)
  <2>1. \A m \in Names : Key[m] \notin w => Alike(m)' \subseteq Alike(m)
    BY <1>3 DEF Alike, Exists
  <2>2. \A m \in Names : m \notin w => Called(m)' \subseteq Called(m)
    BY <1>3 DEF Called
  <2> QED BY <1>3, <2>1, <2>2 DEF CategoriesKeep
<1>8. JobsOK'
  BY <1>0, <1>1, <1>2, <1>7, JobsKept, DishesSame, CombosSame, GroupsSame, LinesSame DEF Inv, JobsOK
<1>9. CategoryNamesUnlessOvertaken'
  <2> SUFFICES ASSUME NEW a \in Categories, category'[a] \notin {New, Gone},
                      NEW b \in Categories, category'[b] \notin {New, Gone},
                      Key[category'[b]] = Key[category'[a]], b # a
               PROVE  {b, a} \cap (IF category'[b] = category'[a] THEN doubted'
                                   ELSE doubted' \union imported') # {}
    BY DEF CategoryNamesUnlessOvertaken, Alike, Exists
  <2>1. CASE a # c /\ b # c
    <3>1. category'[a] = category[a] /\ category'[b] = category[b]
      BY <1>3, <2>1
    <3>2. {b, a} \cap (IF category[b] = category[a] THEN doubted ELSE doubted \union imported) # {}
      BY <3>1 DEF Inv, CategoryNamesUnlessOvertaken, Alike, Exists
    <3> QED BY <1>0, <2>1, <3>1, <3>2
  <2>2. CASE a = c \/ b = c
    <3>1. \E e \in Alike(n) : e # c
      BY <1>3, <2>2 DEF Alike, Exists
    <3>2. c \in doubted'
      BY <1>0, <3>1
    <3> QED BY <2>2, <3>2
  <2> QED BY <2>1, <2>2
<1> QED BY <1>4, <1>5, <1>6, <1>8, <1>9 DEF Inv, JobsOK

LEMMA NamesInv ==
  ASSUME Inv, NEW r \in Requests, WriteRename(r) \/ \E c \in Categories : InsertCategory(r, c), Cascade
  PROVE  Inv'
<1>0. Fits(jobs[r]) /\ (r \notin overtaken => Current(jobs[r]))
  BY DEF Inv, JobsFit, ReadingsCurrent
<1>1. ASSUME NEW c \in Categories, InsertCategory(r, c) PROVE Inv'
  <2>1. jobs[r].op = "createCategory" /\ Name(r, c, jobs[r].name)
    BY <1>1 DEF InsertCategory
  <2>2. jobs[r].name \in Names /\ (r \notin overtaken => Alike(jobs[r].name) = {})
    BY <1>0, <2>1 DEF Fits, Current
  <2> QED BY <2>1, <2>2, NameInv
<1>2. CASE WriteRename(r)
  <2>1. jobs[r].op = "updateCategory" /\ Name(r, jobs[r].id, jobs[r].name)
    BY <1>2 DEF WriteRename
  <2>2. /\ jobs[r].name \in Names /\ jobs[r].id \in Categories
        /\ r \notin overtaken => Alike(jobs[r].name) \subseteq {jobs[r].id}
    BY <1>0, <2>1 DEF Fits, Current
  <2> QED BY <2>1, <2>2, NameInv
<1> QED BY <1>1, <1>2

-------------------------------------------------------------------------------
(* Dishes and categories go.                                                *)

LEMMA DropInv ==
  ASSUME Inv, Cascade, NEW ds \in SUBSET Dishes, NEW gone \in SUBSET Categories, NEW w,
         Drop(ds), Write(w), UNCHANGED ordered, ds \cap ordered = {},
         \A d \in ds : place[d] \notin {New, Gone} /\ place[d] \in w /\ With(d) \subseteq w,
         \A c \in Categories : category'[c] = IF c \in gone THEN Gone ELSE category[c],
         DOMAIN category' = Categories, category' = [c \in Categories |-> category'[c]],
         gone \subseteq w, \A c \in gone : DishesIn(c) \subseteq ds,
         doubted' = doubted \ gone, imported' = imported \ gone
  PROVE  Inv'
<1>1. Writes(w) /\ UNCHANGED connected
  BY WriteWrites DEF Inv, Write
<1>2. /\ \A d \in Dishes : place'[d] = IF d \in ds THEN Gone ELSE place[d]
      /\ \A d \in Dishes : title'[d] = IF d \in ds THEN New ELSE title[d]
      /\ place' \in [Dishes -> Categories \union {New, Gone}]
      /\ title' \in [Dishes -> DishNames \union {New}]
  BY DEF Inv, RowTypes, Drop
<1>3. /\ DOMAIN combo' = Combos
      /\ \A k \in Combos : combo[k] \in {New, Gone} => combo'[k] = combo[k]
      /\ \A k \in Combos : combo[k] \notin {New, Gone} =>
           /\ combo'[k] \in [Dishes -> Nat] /\ combo'[k] \notin {New, Gone}
           /\ \A d \in Dishes : combo'[k][d] = IF d \in ds THEN 0 ELSE combo[k][d]
  <2>1. ASSUME NEW k \in Combos, combo[k] \notin {New, Gone}
        PROVE  /\ combo'[k] \in [Dishes -> Nat]
               /\ \A d \in Dishes : combo'[k][d] = IF d \in ds THEN 0 ELSE combo[k][d]
    <3>1. combo[k] \in [Dishes -> Nat]
      BY <2>1 DEF Inv, ComboTypes, Exists
    <3>2. combo'[k] = [d \in Dishes |-> IF d \in ds THEN 0 ELSE combo[k][d]]
      BY <2>1 DEF Drop, Exists
    <3> QED BY <3>1, <3>2
  <2> QED BY <2>1, IdAssumption DEF Drop, Exists
<1>4. /\ UNCHANGED <<group, home, available, lines>>
      /\ links' = {l \in links : place'[l[1]] \notin {New, Gone}}
  <2>1. \A l \in lines : l[1] \in ordered
    BY DEF Inv, CatalogueReferencesExist
  <2>2. lines' = lines
    BY <2>1 DEF Cascade
  <2> QED BY <2>2 DEF Cascade, options, Exists
<1>5. category' \in [Categories -> Names \union {New, Gone}]
  BY DEF Inv, RowTypes
<1>6. RowTypes'
  BY <1>2, <1>4, <1>5 DEF Inv, RowTypes, Exists
<1>7. ComboTypes' /\ NoteTypes'
  BY <1>1, <1>3 DEF Inv, ComboTypes, NoteTypes, Exists
<1>8. ComboBounded'
  <2>1. ASSUME NEW k \in Combos, combo'[k] \notin {New, Gone}
        PROVE  combo[k] \notin {New, Gone} /\ \A d \in Dishes : combo'[k][d] <= combo[k][d]
    <3>1. combo[k] \notin {New, Gone}
      BY <1>3, <2>1
    <3>2. combo[k] \in [Dishes -> Nat]
      BY <3>1 DEF Inv, ComboTypes, Exists
    <3> QED BY <1>3, <3>1, <3>2
  <2> QED BY <1>1, <1>7, <2>1, BoundKept DEF Inv
<1>9. CatalogueReferencesExist'
  <2>1. \A d \in Dishes : place'[d] \notin {New, Gone} => category'[place'[d]] \notin {New, Gone}
    <3> SUFFICES ASSUME NEW d \in Dishes, place'[d] \notin {New, Gone}
                 PROVE  category'[place'[d]] \notin {New, Gone}
      OBVIOUS
    <3>1. d \notin ds /\ place'[d] = place[d]
      BY <1>2
    <3>2. place[d] \in Categories /\ category[place[d]] \notin {New, Gone}
      BY <3>1 DEF Inv, RowTypes, CatalogueReferencesExist, MenuReferencesExist, Exists
    <3>3. place[d] \notin gone
      BY <3>1, <3>2 DEF DishesIn
    <3> QED BY <3>1, <3>2, <3>3
  <2>2. \A d \in ordered' : place'[d] \notin {New, Gone}
    BY <1>2 DEF Inv, RowTypes, CatalogueReferencesExist, MenuReferencesExist, Exists
  <2>3. ASSUME NEW k \in Combos, combo'[k] \notin {New, Gone}, NEW d \in Dishes, combo'[k][d] > 0
        PROVE  place'[d] \notin {New, Gone}
    <3>1. combo[k] \notin {New, Gone} /\ combo'[k][d] = IF d \in ds THEN 0 ELSE combo[k][d]
      BY <1>3, <2>3
    <3>2. d \notin ds /\ combo[k][d] > 0
      BY <2>3, <3>1
    <3>3. place[d] \notin {New, Gone}
      BY <3>1, <3>2 DEF Inv, CatalogueReferencesExist, MenuReferencesExist, Exists, Listed
    <3> QED BY <1>2, <3>2, <3>3
  <2>4. MenuReferencesExist'
    BY <2>1, <2>2, <2>3 DEF MenuReferencesExist, Exists, Listed
  <2> QED BY <1>4, <2>4 DEF Inv, CatalogueReferencesExist, Exists
<1>10. CategoriesKeep(w)
  BY IdAssumption DEF CategoriesKeep, Alike, Called, Exists
<1>11. DishesKeep(w)
  <2> SUFFICES ASSUME NEW c \in Categories, NEW x \in DishNames, c \notin w
               PROVE  Placed(c, x)' = Placed(c, x)
    BY DEF DishesKeep
  <2>1. c \notin {New, Gone}
    BY IdAssumption
  <2>2. \A d \in Dishes : place'[d] = c <=> place[d] = c
    BY <1>2, <2>1
  <2>3. \A d \in Dishes : place[d] = c => title'[d] = title[d]
    BY <1>2
  <2> QED BY <2>2, <2>3 DEF Placed, DishesIn
<1>12. CombosKeep(w)
  <2> SUFFICES ASSUME NEW k \in Combos, combo[k] # New
               PROVE  /\ combo'[k] # New
                      /\ k \notin w /\ combo'[k] \notin {New, Gone} =>
                           Exists(combo[k]) /\ Listed(combo[k])' = Listed(combo[k])
    BY DEF CombosKeep
  <2>1. combo'[k] # New /\ (combo'[k] \notin {New, Gone} => Exists(combo[k]))
    BY <1>3 DEF Exists
  <2>2. ASSUME k \notin w, combo[k] \notin {New, Gone} PROVE Listed(combo[k])' = Listed(combo[k])
    <3>1. combo[k] \in [Dishes -> Nat]
      BY <2>2 DEF Inv, ComboTypes, Exists
    <3>2. \A d \in ds : ~(combo[k][d] > 0)
      BY <2>2 DEF With, Exists
    <3>3. \A d \in Dishes : combo'[k][d] > 0 <=> combo[k][d] > 0
      BY <1>3, <2>2, <3>1, <3>2
    <3> QED BY <3>3 DEF Listed
  <2> QED BY <2>1, <2>2 DEF Exists
<1>13. JobsOK'
  BY <1>1, <1>4, <1>10, <1>11, <1>12, JobsKept, GroupsSame, LinesSame DEF Inv, JobsOK
<1>14. CategoryNamesUnlessOvertaken'
  <2> SUFFICES ASSUME NEW a \in Categories, category'[a] \notin {New, Gone},
                      NEW b \in Categories, category'[b] \notin {New, Gone},
                      Key[category'[b]] = Key[category'[a]], b # a
               PROVE  {b, a} \cap (IF category'[b] = category'[a] THEN doubted'
                                   ELSE doubted' \union imported') # {}
    BY DEF CategoryNamesUnlessOvertaken, Alike, Exists
  <2>1. a \notin gone /\ b \notin gone /\ category'[a] = category[a] /\ category'[b] = category[b]
    OBVIOUS
  <2>2. {b, a} \cap (IF category[b] = category[a] THEN doubted ELSE doubted \union imported) # {}
    BY <2>1 DEF Inv, CategoryNamesUnlessOvertaken, Alike, Exists
  <2> QED BY <2>1, <2>2
<1> QED BY <1>6, <1>7, <1>8, <1>9, <1>13, <1>14 DEF Inv, JobsOK

LEMMA DeletesInv ==
  ASSUME Inv, Cascade,
         (\E c \in Categories : DeleteCategory(c)) \/ (\E d \in Dishes : DeleteDish(d))
  PROVE  Inv'
<1>1. ASSUME NEW c \in Categories, DeleteCategory(c) PROVE Inv'
  <2> DEFINE w == {c, category[c], Key[category[c]]} \union UNION {With(d) : d \in DishesIn(c)}
             ds == DishesIn(c)
             gone == {c}
  <2>1. /\ Drop(ds) /\ Write(w) /\ UNCHANGED ordered /\ ds \cap ordered = {}
        /\ category' = [category EXCEPT ![c] = Gone]
        /\ doubted' = doubted \ gone /\ imported' = imported \ gone
    BY <1>1 DEF DeleteCategory
  <2>2. ds \in SUBSET Dishes /\ gone \in SUBSET Categories /\ gone \subseteq w
    BY DEF DishesIn
  <2>3. \A d \in ds : place[d] \notin {New, Gone} /\ place[d] \in w /\ With(d) \subseteq w
    BY IdAssumption DEF DishesIn
  <2>4. /\ \A b \in Categories : category'[b] = IF b \in gone THEN Gone ELSE category[b]
        /\ DOMAIN category' = Categories /\ category' = [b \in Categories |-> category'[b]]
    BY <2>1 DEF Inv, RowTypes
  <2>5. \A b \in gone : DishesIn(b) \subseteq ds
    OBVIOUS
  <2> HIDE DEF w, ds, gone
  <2> QED BY <2>1, <2>2, <2>3, <2>4, <2>5, DropInv
<1>2. ASSUME NEW d \in Dishes, DeleteDish(d) PROVE Inv'
  <2> DEFINE w == {place[d]} \union With(d)
             ds == {d}
             gone == {}
  <2>1. /\ Drop(ds) /\ Write(w) /\ UNCHANGED ordered /\ ds \cap ordered = {}
        /\ UNCHANGED <<category, doubted, imported>> /\ place[d] \notin {New, Gone}
    BY <1>2 DEF DeleteDish, names, Exists
  <2>2. ds \in SUBSET Dishes /\ gone \in SUBSET Categories /\ gone \subseteq w
    OBVIOUS
  <2>3. \A e \in ds : place[e] \notin {New, Gone} /\ place[e] \in w /\ With(e) \subseteq w
    BY <2>1
  <2>4. /\ \A b \in Categories : category'[b] = IF b \in gone THEN Gone ELSE category[b]
        /\ DOMAIN category' = Categories /\ category' = [b \in Categories |-> category'[b]]
    BY <2>1 DEF Inv, RowTypes
  <2>5. doubted' = doubted \ gone /\ imported' = imported \ gone /\ \A b \in gone : DishesIn(b) \subseteq ds
    BY <2>1
  <2> HIDE DEF w, ds, gone
  <2> QED BY <2>1, <2>2, <2>3, <2>4, <2>5, DropInv
<1> QED BY <1>1, <1>2

-------------------------------------------------------------------------------
(* Dishes come, move and are ordered.                                       *)

LEMMA DishInv ==
  ASSUME Inv, NEW d \in Dishes, NEW c \in Categories, NEW x \in DishNames, Exists(category[c]),
         place' = [place EXCEPT ![d] = c], title' = [title EXCEPT ![d] = x],
         UNCHANGED <<names, ordered, combo, connected, group, options, lines>>,
         links' \subseteq Dishes \X Groups,
         \A l \in links' : l \in links \/ (l[1] = d /\ l[2] \in GroupsThere),
         NEW w, Writes(w), DishesKeep(w)
  PROVE  Inv'
<1>0. UNCHANGED <<category, doubted, imported, home, available>>
  BY DEF names, options
<1>1. /\ place' \in [Dishes -> Categories \union {New, Gone}] /\ title' \in [Dishes -> DishNames \union {New}]
      /\ place'[d] = c /\ \A e \in Dishes : e # d => place'[e] = place[e]
  BY DEF Inv, RowTypes
<1>2. RowTypes'
  BY <1>0, <1>1 DEF Inv, RowTypes, Exists
<1>3. ComboTypes' /\ NoteTypes' /\ ComboBounded' /\ CategoryNamesUnlessOvertaken'
  BY ComboTypesSame, NotesSame, BoundSame, NamesSame DEF Inv
<1>4. c \notin {New, Gone} /\ \A e \in Dishes : place[e] \notin {New, Gone} => place'[e] \notin {New, Gone}
  BY <1>1, IdAssumption
<1>5. MenuReferencesExist'
  <2>1. \A e \in Dishes : place'[e] \notin {New, Gone} => category'[place'[e]] \notin {New, Gone}
    BY <1>0, <1>1 DEF Inv, CatalogueReferencesExist, MenuReferencesExist, Exists
  <2>2. ordered \subseteq Dishes
    BY DEF Inv, RowTypes
  <2> QED BY <1>4, <2>1, <2>2 DEF Inv, CatalogueReferencesExist, MenuReferencesExist, Exists, Listed
<1>6. CatalogueReferencesExist'
  <2>1. ASSUME NEW l \in links' PROVE place'[l[1]] \notin {New, Gone} /\ group'[l[2]] \notin {New, Gone}
    <3>1. l[1] \in Dishes
      OBVIOUS
    <3> QED BY <1>1, <1>4, <3>1 DEF Inv, CatalogueReferencesExist, GroupsThere, Exists
  <2> QED BY <1>0, <1>5, <2>1 DEF Inv, CatalogueReferencesExist, Exists
<1>7. JobsOK'
  BY <1>0, JobsKept, CategoriesSame, CombosSame, GroupsSame, LinesSame DEF Inv, JobsOK
<1> QED BY <1>2, <1>3, <1>6, <1>7 DEF Inv, JobsOK

LEMMA DishesMoved ==
  ASSUME Inv, NEW d \in Dishes, NEW c \in Categories, NEW x,
         place' = [place EXCEPT ![d] = c], title' = [title EXCEPT ![d] = x],
         NEW w, c \in w, place[d] \in w \union {New, Gone}
  PROVE  DishesKeep(w)
<1> SUFFICES ASSUME NEW b \in Categories, NEW y \in DishNames, b \notin w
             PROVE  Placed(b, y)' = Placed(b, y)
  BY DEF DishesKeep
<1>1. b # c /\ b # place[d]
  BY IdAssumption
<1>2. \A e \in Dishes : place'[e] = b <=> place[e] = b
  BY <1>1 DEF Inv, RowTypes
<1>3. \A e \in Dishes : place[e] = b => title'[e] = title[e]
  BY <1>1 DEF Inv, RowTypes
<1> QED BY <1>2, <1>3 DEF Placed, DishesIn

LEMMA DishesInv ==
  ASSUME Inv, NEW d \in Dishes, NEW c \in Categories, NEW x \in DishNames,
         \/ (CreateDish(d, c, x) \/ UpdateDish(d, c, x)) /\ Cascade
         \/ \E gs \in SUBSET Groups : CreateDishWith(d, c, x, gs) \/ UpdateDishWith(d, c, x, gs)
  PROVE  Inv'
<1> DEFINE Kept == /\ UNCHANGED <<group, options, lines>> /\ links' \subseteq Dishes \X Groups
                   /\ \A l \in links' : l \in links \/ (l[1] = d /\ l[2] \in GroupsThere)
<1>1. ASSUME CreateDish(d, c, x) \/ UpdateDish(d, c, x), Kept PROVE Inv'
  <2>1. PICK w : /\ Write(w) /\ c \in w /\ place[d] \in w \union {New, Gone} /\ Exists(category[c])
                 /\ place' = [place EXCEPT ![d] = c] /\ title' = [title EXCEPT ![d] = x]
                 /\ UNCHANGED <<names, ordered, combo>>
    <3>1. CASE CreateDish(d, c, x)
      BY <3>1 DEF CreateDish
    <3>2. CASE UpdateDish(d, c, x)
      BY <3>2 DEF UpdateDish
    <3> QED BY <1>1, <3>1, <3>2
  <2>2. Writes(w) /\ UNCHANGED connected
    BY <2>1, WriteWrites DEF Inv, Write
  <2>3. DishesKeep(w)
    BY <2>1, DishesMoved
  <2> QED BY <1>1, <2>1, <2>2, <2>3, DishInv
<1>2. ASSUME NEW gs \in SUBSET Groups, SetGroups(d, gs) PROVE Kept
  <2>1. links \subseteq Dishes \X Groups
    BY DEF Inv, RowTypes
  <2> QED BY <1>2, <2>1 DEF SetGroups
<1>3. CASE (CreateDish(d, c, x) \/ UpdateDish(d, c, x)) /\ Cascade
  <2>1. ordered' = ordered
    BY <1>3 DEF CreateDish, UpdateDish
  <2>2. lines' = lines
    BY <1>3, <2>1 DEF Inv, CatalogueReferencesExist, Cascade
  <2>3. Kept
    BY <1>3, <2>2 DEF Inv, RowTypes, Cascade
  <2> QED BY <1>1, <1>3, <2>3
<1>4. ASSUME NEW gs \in SUBSET Groups, CreateDishWith(d, c, x, gs) PROVE Inv'
  BY <1>1, <1>2, <1>4 DEF CreateDishWith
<1>5. ASSUME NEW gs \in SUBSET Groups, UpdateDishWith(d, c, x, gs) PROVE Inv'
  <2>1. Exists(place[d]) /\ Kept
    BY <1>2, <1>5 DEF UpdateDishWith
  <2>2. CASE UpdateDish(d, c, x)
    BY <1>1, <2>1, <2>2
  <2>3. CASE <<c, x>> = <<place[d], title[d]>> /\ UNCHANGED vars
    <3>1. UNCHANGED <<names, place, title, ordered, combo, connected, jobs, overtaken>>
      BY <2>3 DEF vars, dishes
    <3>2. place' = [place EXCEPT ![d] = c] /\ title' = [title EXCEPT ![d] = x]
      BY <2>3, <3>1 DEF Inv, RowTypes
    <3>3. Writes({})
      BY <3>1 DEF Inv, JobsFit, Writes
    <3>4. Exists(category[c])
      BY <2>1, <2>3 DEF Inv, CatalogueReferencesExist, MenuReferencesExist
    <3>5. DishesKeep({})
      BY <3>1, DishesSame
    <3> QED BY <2>1, <3>1, <3>2, <3>3, <3>4, <3>5, DishInv
  <2> QED BY <1>5, <2>2, <2>3 DEF UpdateDishWith
<1> QED BY <1>3, <1>4, <1>5

LEMMA OrderInv ==
  ASSUME Inv, UNCHANGED <<names, place, title, combo, group, options, links>>, NEW w, Write(w),
         ordered' \subseteq Dishes, \A d \in ordered' : Exists(place[d]),
         lines' \subseteq Dishes \X Options,
         \A l \in lines' : l[1] \in ordered' /\ Exists(home[l[2]]), LinesKeep(w)
  PROVE  Inv'
<1>0. UNCHANGED <<category, doubted, imported, home, available, connected>>
  BY DEF names, options, Write
<1>1. Writes(w)
  BY WriteWrites DEF Inv
<1>2. RowTypes'
  BY <1>0 DEF Inv, RowTypes, Exists
<1>3. ComboTypes' /\ NoteTypes' /\ ComboBounded' /\ CategoryNamesUnlessOvertaken'
  BY <1>0, <1>1, ComboTypesSame, NotesSame, BoundSame, NamesSame DEF Inv
<1>4. CatalogueReferencesExist'
  BY <1>0 DEF Inv, CatalogueReferencesExist, MenuReferencesExist, Exists, Listed
<1>5. JobsOK'
  BY <1>0, <1>1, JobsKept, CategoriesSame, DishesSame, CombosSame, GroupsSame DEF Inv, JobsOK
<1> QED BY <1>2, <1>3, <1>4, <1>5 DEF Inv, JobsOK

LEMMA OrdersInv ==
  ASSUME Inv, NEW d \in Dishes,
         \/ (OrderDish(d) \/ ForgetDish(d)) /\ Cascade
         \/ \E o \in Options : OrderWithOption(d, o) \/ DropOption(d, o)
  PROVE  Inv'
<1>0. /\ ordered \subseteq Dishes /\ \A e \in ordered : Exists(place[e])
      /\ lines \subseteq Dishes \X Options
      /\ \A l \in lines : l[1] \in ordered /\ Exists(home[l[2]])
      /\ \A l \in links : Exists(place[l[1]])
  BY DEF Inv, RowTypes, CatalogueReferencesExist, MenuReferencesExist
<1>1. ASSUME OrderDish(d) \/ ForgetDish(d), Cascade PROVE Inv'
  <2>1. UNCHANGED <<names, place, title, combo>> /\ ordered' \subseteq ordered \union {d}
        /\ (OrderDish(d) => Exists(place[d]) /\ ordered \subseteq ordered')
    BY <1>1 DEF OrderDish, ForgetDish
  <2>2. links' = links
    BY <1>0, <1>1, <2>1 DEF Cascade, Exists
  <2>3. UNCHANGED <<group, options>> /\ lines' = {l \in lines : l[1] \in ordered'}
    BY <1>1 DEF Cascade
  <2>4. \A e \in ordered' : Exists(place[e])
    BY <1>0, <1>1, <2>1 DEF ForgetDish
  <2>5. CASE OrderDish(d)
    <3>1. Write({})
      BY <2>5 DEF OrderDish
    <3>2. LinesKeep({})
      BY <1>0, <2>1, <2>3, <2>5 DEF LinesKeep
    <3> QED BY <1>0, <2>1, <2>2, <2>3, <2>4, <3>1, <3>2, OrderInv
  <2>6. CASE ForgetDish(d)
    <3>1. Write({d}) /\ ordered' = ordered \ {d}
      BY <2>6 DEF ForgetDish
    <3>2. LinesKeep({d})
      BY <1>0, <2>3, <3>1 DEF LinesKeep
    <3> QED BY <1>0, <2>1, <2>2, <2>3, <2>4, <3>1, <3>2, OrderInv
  <2> QED BY <1>1, <2>5, <2>6
<1>2. ASSUME NEW o \in Options, OrderWithOption(d, o) PROVE Inv'
  <2>1. /\ Exists(place[d]) /\ <<d, home[o]>> \in links
        /\ ordered' = ordered \union {d} /\ lines' = lines \union {<<d, o>>}
        /\ Write({o}) /\ UNCHANGED <<names, place, title, combo, group, options, links>>
    BY <1>2 DEF OrderWithOption
  <2>2. Exists(home[o])
    <3>1. home[o] \in Groups
      BY <2>1 DEF Inv, RowTypes
    <3> QED BY <3>1, RowsExist
  <2>3. LinesKeep({o})
    BY <2>1 DEF LinesKeep
  <2>4. \A l \in lines' : l[1] \in ordered' /\ Exists(home[l[2]])
    BY <1>0, <2>1, <2>2
  <2>5. ordered' \subseteq Dishes /\ lines' \subseteq Dishes \X Options
        /\ \A e \in ordered' : Exists(place[e])
    BY <1>0, <2>1
  <2> QED BY <2>1, <2>3, <2>4, <2>5, OrderInv
<1>3. ASSUME NEW o \in Options, DropOption(d, o) PROVE Inv'
  <2>1. /\ lines' = lines \ {<<d, o>>} /\ ordered' = ordered
        /\ Write({o}) /\ UNCHANGED <<names, place, title, combo, group, options, links>>
    BY <1>3 DEF DropOption, dishes
  <2>2. LinesKeep({o})
    BY <2>1 DEF LinesKeep
  <2> QED BY <1>0, <2>1, <2>2, OrderInv
<1> QED BY <1>1, <1>2, <1>3

-------------------------------------------------------------------------------
(* Combos.                                                                  *)

LEMMA ComboInv ==
  ASSUME Inv, NEW k \in Combos, NEW v, combo' = [combo EXCEPT ![k] = v],
         UNCHANGED <<names, dishes, connected, modifiers>>, NEW w, Writes(w), k \in w,
         \/ v = Gone
         \/ /\ v \in [Dishes -> Nat] /\ \A d \in Dishes : v[d] > 0 => Exists(place[d])
            /\ \A d \in Dishes : v[d] <= Most * Cardinality(Others(k, d)')
  PROVE  Inv'
<1>0. UNCHANGED <<category, doubted, imported, place, title, ordered, group, home, lines, links>>
  BY DEF names, dishes, modifiers, options
<1>1. /\ DOMAIN combo' = Combos /\ combo'[k] = v /\ v # New
      /\ \A i \in Combos : i # k => combo'[i] = combo[i]
  BY IdAssumption DEF Inv, ComboTypes
<1>2. ComboTypes'
  <2>1. ASSUME NEW i \in Combos, combo'[i] \notin {New, Gone} PROVE combo'[i] \in [Dishes -> Nat]
    BY <1>1, <2>1 DEF Inv, ComboTypes, Exists
  <2> QED BY <1>1, <2>1 DEF ComboTypes, Exists
<1>3. RowTypes' /\ NoteTypes' /\ CategoryNamesUnlessOvertaken'
  BY <1>0, RowTypesSame, NotesSame, NamesSame DEF Inv
<1>4. ComboBounded'
  <2> SUFFICES ASSUME NEW i \in Combos, NEW d \in Dishes, combo'[i] \notin {New, Gone}
               PROVE  combo'[i][d] <= Most * Cardinality(Others(i, d)')
    BY DEF ComboBounded, Exists
  <2>1. CASE i = k
    BY <1>1, <2>1
  <2>2. CASE i # k
    <3>1. combo'[i][d] = combo[i][d] /\ combo[i][d] \in Nat
      BY <1>1, <2>2 DEF Inv, ComboTypes, Exists
    <3>2. combo[i][d] <= Most * Cardinality(Others(i, d))
      BY <1>1, <2>2 DEF Inv, ComboBounded, Exists
    <3>3. /\ Most * Cardinality(Others(i, d)) \in Nat /\ Most * Cardinality(Others(i, d)') \in Nat
          /\ Most * Cardinality(Others(i, d)) <= Most * Cardinality(Others(i, d)')
      BY OthersGrow
    <3> QED BY <3>1, <3>2, <3>3
  <2> QED BY <2>1, <2>2
<1>5. CatalogueReferencesExist'
  <2>1. ASSUME NEW i \in Combos, combo'[i] \notin {New, Gone}, NEW d \in Dishes, combo'[i][d] > 0
        PROVE  place[d] \notin {New, Gone}
    <3>1. CASE i = k
      BY <1>1, <2>1, <3>1 DEF Exists
    <3>2. CASE i # k
      BY <1>1, <2>1, <3>2 DEF Inv, CatalogueReferencesExist, MenuReferencesExist, Exists, Listed
    <3> QED BY <3>1, <3>2
  <2> QED BY <1>0, <2>1 DEF Inv, CatalogueReferencesExist, MenuReferencesExist, Exists, Listed
<1>6. CombosKeep(w)
  BY <1>1 DEF CombosKeep, Exists, Listed
<1>7. JobsOK'
  BY <1>0, <1>6, JobsKept, CategoriesSame, DishesSame, GroupsSame, LinesSame DEF Inv, JobsOK
<1> QED BY <1>2, <1>3, <1>4, <1>5, <1>7 DEF Inv, JobsOK

LEMMA CreateComboInv ==
  ASSUME Inv, NEW k \in Combos, NEW asked \in Asked, CreateCombo(k, asked), Cascade
  PROVE  Inv'
<1>1. /\ combo[k] = New /\ \A d \in Listed(asked) : Exists(place[d])
      /\ combo' = [combo EXCEPT ![k] = asked] /\ UNCHANGED <<names, dishes, connected>> /\ Write({k})
  BY DEF CreateCombo, Write
<1>2. UNCHANGED modifiers
  BY <1>1, CascadeSame DEF dishes
<1>3. Writes({k})
  BY <1>1, WriteWrites DEF Inv
<1>4. asked \in [Dishes -> Nat] /\ \A d \in Dishes : asked[d] <= Most
  BY AskedCounts
<1>5. ASSUME NEW d \in Dishes PROVE asked[d] <= Most * Cardinality(Others(k, d)')
  <2>1. PICK r \in Requests : TRUE
    BY FiniteAssumption
  <2>2. ~Adds(jobs[r], k, d)
    BY <1>1 DEF Inv, JobsFit, Fits, Adds
  <2>3. jobs'[r] = jobs[r]
    BY <1>1 DEF Write
  <2>4. {r} \subseteq Others(k, d)' /\ Others(k, d)' \subseteq Requests
    BY <2>2, <2>3 DEF Others
  <2>5. Most * Cardinality({r}) <= Most * Cardinality(Others(k, d)') /\ Most * Cardinality(Others(k, d)') \in Nat
    BY <2>4, MoreCount
  <2>6. Cardinality({r}) = 1
    BY FS_Singleton
  <2>7. Most * 1 = Most /\ Most \in Nat /\ asked[d] \in Nat
    BY <1>4, AskedCounts
  <2> QED BY <1>4, <2>5, <2>6, <2>7
<1>6. \A d \in Dishes : asked[d] > 0 => Exists(place[d])
  BY <1>1 DEF Listed
<1> QED BY <1>1, <1>2, <1>3, <1>4, <1>5, <1>6, ComboInv

\* What an update writes, dish by dish.
LEMMA WrittenCombo ==
  ASSUME Inv, NEW r \in Requests, WriteCombo(r), NEW j, j = jobs[r], NEW c, c = combo[j.id]
  PROVE  /\ j.op = "updateCombo" /\ j.id \in Combos /\ j.asked \in [Dishes -> Nat]
         /\ \A d \in Dishes : j.asked[d] <= Most
         /\ c \in [Dishes -> Nat] /\ combo'[j.id] \in [Dishes -> Nat]
         /\ combo' = [combo EXCEPT ![j.id] = combo'[j.id]]
         /\ \A d \in Dishes :
              /\ j.asked[d] > 0 /\ d \notin j.read =>
                   combo'[j.id][d] = c[d] + j.asked[d] /\ Exists(place[d])
              /\ ~(j.asked[d] > 0) /\ d \in j.read => combo'[j.id][d] = 0
              /\ (j.asked[d] > 0 <=> d \in j.read) => combo'[j.id][d] = c[d]
<1>1. j.op = "updateCombo" /\ Exists(c) /\ \A d \in ToAdd(r) : Exists(place[d])
  BY DEF WriteCombo
<1>2. j.id \in Combos /\ j.asked \in Asked /\ j.read \subseteq Dishes
  BY <1>1 DEF Inv, JobsFit, Fits
<1>3. j.asked \in [Dishes -> Nat] /\ \A d \in Dishes : j.asked[d] <= Most
  BY <1>2, AskedCounts
<1>4. c \in [Dishes -> Nat]
  BY <1>1, <1>2 DEF Inv, ComboTypes
<1> DEFINE v == [d \in Dishes |-> CASE d \in ToDelete(r) -> 0
                                     [] d \in ToAdd(r)    -> c[d] + j.asked[d]
                                     [] OTHER             -> c[d]]
<1>5. combo' = [combo EXCEPT ![j.id] = v]
  BY DEF WriteCombo
<1>6. DOMAIN combo = Combos
  BY DEF Inv, ComboTypes
<1>7. combo'[j.id] = v
  BY <1>2, <1>5, <1>6
<1>8. \A d \in Dishes : /\ d \in ToAdd(r) <=> j.asked[d] > 0 /\ d \notin j.read
                        /\ d \in ToDelete(r) <=> d \in j.read /\ ~(j.asked[d] > 0)
  BY DEF ToAdd, ToDelete, Listed
<1>9. \A d \in Dishes :
        v[d] = IF d \in ToDelete(r) THEN 0 ELSE IF d \in ToAdd(r) THEN c[d] + j.asked[d] ELSE c[d]
  BY <1>8
<1>10. v \in [Dishes -> Nat]
  <2>1. \A d \in Dishes : v[d] \in Nat
    BY <1>3, <1>4, <1>9
  <2> QED BY <2>1
<1> HIDE DEF v
<1>11. \A d \in Dishes :
         /\ j.asked[d] > 0 /\ d \notin j.read => v[d] = c[d] + j.asked[d] /\ Exists(place[d])
         /\ ~(j.asked[d] > 0) /\ d \in j.read => v[d] = 0
         /\ (j.asked[d] > 0 <=> d \in j.read) => v[d] = c[d]
  BY <1>1, <1>8, <1>9
<1> QED BY <1>1, <1>2, <1>3, <1>4, <1>5, <1>7, <1>10, <1>11

LEMMA WriteComboInv ==
  ASSUME Inv, NEW r \in Requests, WriteCombo(r), Cascade
  PROVE  Inv'
<1>0. PICK j : j = jobs[r]
  OBVIOUS
<1>1. PICK k : k = j.id
  OBVIOUS
<1>2. PICK c : c = combo[k]
  OBVIOUS
<1>3. PICK v : v = combo'[k]
  OBVIOUS
<1>4. /\ j.op = "updateCombo" /\ k \in Combos /\ j.asked \in [Dishes -> Nat]
      /\ \A d \in Dishes : j.asked[d] <= Most
      /\ c \in [Dishes -> Nat] /\ v \in [Dishes -> Nat] /\ combo' = [combo EXCEPT ![k] = v]
      /\ \A d \in Dishes :
           /\ j.asked[d] > 0 /\ d \notin j.read => v[d] = c[d] + j.asked[d] /\ Exists(place[d])
           /\ ~(j.asked[d] > 0) /\ d \in j.read => v[d] = 0
           /\ (j.asked[d] > 0 <=> d \in j.read) => v[d] = c[d]
  BY <1>0, <1>1, <1>2, <1>3, WrittenCombo
<1>5. UNCHANGED <<names, dishes, connected>> /\ Commit(r, {k}) /\ Exists(c)
  BY <1>0, <1>1, <1>2 DEF WriteCombo, Commit
<1>6. UNCHANGED modifiers
  BY <1>5, CascadeSame DEF dishes
<1>7. Writes({k}) /\ jobs'[r] = Done
  BY <1>5, CommitWrites DEF Inv
<1>8. ASSUME NEW d \in Dishes, v[d] > 0 PROVE Exists(place[d])
  <2>1. CASE j.asked[d] > 0 /\ d \notin j.read
    BY <1>4, <2>1
  <2>2. CASE c[d] > 0
    BY <1>2, <1>4, <1>5, <2>2 DEF Inv, CatalogueReferencesExist, MenuReferencesExist, Listed
  <2> QED BY <1>4, <1>8, <2>1, <2>2
<1>9. ASSUME NEW d \in Dishes PROVE v[d] <= Most * Cardinality(Others(k, d)')
  <2>1. c[d] <= Most * Cardinality(Others(k, d)) /\ c[d] \in Nat /\ j.asked[d] \in Nat /\ v[d] \in Nat
    BY <1>2, <1>4, <1>5 DEF Inv, ComboBounded
  <2>2. /\ Most * Cardinality(Others(k, d)) \in Nat /\ Most * Cardinality(Others(k, d)') \in Nat
        /\ Most * Cardinality(Others(k, d)) <= Most * Cardinality(Others(k, d)')
    BY <1>7, OthersGrow
  <2>3. CASE j.asked[d] > 0 /\ d \notin j.read
    <3>1. r \notin Others(k, d) /\ Others(k, d) \subseteq Requests
      BY <1>0, <1>1, <1>4, <2>3 DEF Others, Adds
    <3>2. Others(k, d) \union {r} \subseteq Others(k, d)' /\ Others(k, d)' \subseteq Requests
      BY <1>7, DoneFits DEF Others, Writes
    <3>3. IsFiniteSet(Others(k, d)) /\ Cardinality(Others(k, d)) \in Nat
      BY <3>1, FiniteAssumption, FS_Subset, FS_CardinalityType
    <3>4. Cardinality(Others(k, d) \union {r}) = Cardinality(Others(k, d)) + 1
      BY <3>1, <3>3, FS_AddElement
    <3>5. Most * (Cardinality(Others(k, d)) + 1) = Most * Cardinality(Others(k, d)) + Most /\ Most \in Nat
      BY <3>3, AskedCounts
    <3>6. Most * Cardinality(Others(k, d) \union {r}) <= Most * Cardinality(Others(k, d)')
      BY <3>2, MoreCount
    <3>7. v[d] = c[d] + j.asked[d] /\ j.asked[d] <= Most
      BY <1>4, <2>3
    <3> QED BY <2>1, <2>2, <3>4, <3>5, <3>6, <3>7
  <2>4. CASE ~(j.asked[d] > 0 /\ d \notin j.read)
    <3>1. v[d] <= c[d]
      BY <1>4, <2>1, <2>4
    <3> QED BY <2>1, <2>2, <3>1
  <2> QED BY <2>3, <2>4
<1> QED BY <1>4, <1>5, <1>6, <1>7, <1>8, <1>9, ComboInv

LEMMA DeleteComboInv ==
  ASSUME Inv, NEW k \in Combos, DeleteCombo(k), Cascade
  PROVE  Inv'
<1>1. combo' = [combo EXCEPT ![k] = Gone] /\ UNCHANGED <<names, dishes, connected>> /\ Write({k})
  BY DEF DeleteCombo, Write
<1>2. UNCHANGED modifiers
  BY <1>1, CascadeSame DEF dishes
<1>3. Writes({k})
  BY <1>1, WriteWrites DEF Inv
<1> QED BY <1>1, <1>2, <1>3, ComboInv

-------------------------------------------------------------------------------
(* Nothing is written.                                                      *)

LEMMA StayInv ==
  ASSUME Inv, UNCHANGED <<names, dishes, combo, modifiers>>, connected' \in BOOLEAN, Writes({})
  PROVE  Inv'
<1>0. UNCHANGED <<category, doubted, imported, place, title, ordered, group, home, lines, links>>
  BY DEF names, dishes, modifiers, options
<1>1. RowTypes' /\ ComboTypes' /\ ComboBounded' /\ CatalogueReferencesExist' /\ CategoryNamesUnlessOvertaken'
  BY <1>0, RowTypesSame, ComboTypesSame, BoundSame, ReferencesSame, NamesSame DEF Inv
<1>2. NoteTypes'
  BY <1>0 DEF Inv, NoteTypes
<1>3. JobsOK'
  BY <1>0, JobsKept, CategoriesSame, DishesSame, CombosSame, GroupsSame, LinesSame DEF Inv, JobsOK
<1> QED BY <1>1, <1>2, <1>3 DEF Inv, JobsOK

LEMMA StaysInv ==
  ASSUME Inv,
         \/ (Connect \/ Disconnect \/ \E r \in Requests : Reject(r)) /\ Cascade
         \/ UNCHANGED <<vars, modifiers>>
  PROVE  Inv'
<1>1. CASE Connect /\ Cascade
  <2>1. UNCHANGED <<names, dishes, combo, jobs, overtaken>> /\ connected' = TRUE
    BY <1>1 DEF Connect
  <2>2. UNCHANGED modifiers
    BY <1>1, <2>1, CascadeSame DEF dishes
  <2>3. Writes({})
    BY <2>1 DEF Inv, JobsFit, Writes
  <2> QED BY <2>1, <2>2, <2>3, StayInv
<1>2. CASE Disconnect /\ Cascade
  <2>1. UNCHANGED <<names, dishes, combo, jobs, overtaken>> /\ connected' = FALSE
    BY <1>2 DEF Disconnect
  <2>2. UNCHANGED modifiers
    BY <1>2, <2>1, CascadeSame DEF dishes
  <2>3. Writes({})
    BY <2>1 DEF Inv, JobsFit, Writes
  <2> QED BY <2>1, <2>2, <2>3, StayInv
<1>3. ASSUME NEW r \in Requests, Reject(r), Cascade PROVE Inv'
  <2>1. UNCHANGED <<names, dishes, combo, connected>>
    BY <1>3 DEF Reject
  <2>2. UNCHANGED modifiers
    BY <1>3, <2>1, CascadeSame DEF dishes
  <2>3. Writes({})
    BY <1>3, RejectWrites DEF Inv
  <2> QED BY <2>1, <2>2, <2>3, StayInv DEF Inv, NoteTypes
<1>4. CASE UNCHANGED <<vars, modifiers>>
  <2>1. UNCHANGED <<names, dishes, combo, connected, jobs, overtaken>>
    BY <1>4 DEF vars
  <2>2. Writes({})
    BY <2>1 DEF Inv, JobsFit, Writes
  <2> QED BY <1>4, <2>1, <2>2, StayInv DEF Inv, NoteTypes
<1> QED BY <1>1, <1>2, <1>3, <1>4

-------------------------------------------------------------------------------
(* The import.                                                              *)

HomeOf(j, f, n) == IF n \in DOMAIN f THEN f[n] ELSE j.found[n]

\* What an import writes: its new categories, named as the till names them, and its
\* new dishes in the categories that have those names.
Imports(r, j, f, g) ==
  /\ j.op = "syncMenu" /\ j.at = "read" /\ j.till \in Tills /\ DOMAIN j.till \subseteq Names
  /\ DOMAIN f = Absent(j) /\ DOMAIN g = Rows(j)
  /\ \A n \in DOMAIN f : /\ n \in DOMAIN j.till /\ j.found[n] = New
                         /\ f[n] \in Categories /\ category[f[n]] = New /\ category'[f[n]] = n
  /\ \A n, m \in DOMAIN f : f[n] = f[m] => n = m
  /\ category' \in [Categories -> Names \union {New, Gone}]
  /\ \A c \in Categories : (\A n \in DOMAIN f : c # f[n]) => category'[c] = category[c]
  /\ \A row \in DOMAIN g :
       /\ row[1] \in DOMAIN j.till /\ row[2] \in DishNames
       /\ g[row] \in Dishes /\ place[g[row]] = New
       /\ place'[g[row]] = HomeOf(j, f, row[1]) /\ title'[g[row]] = row[2]
       /\ HomeOf(j, f, row[1]) \in Categories
       /\ category'[HomeOf(j, f, row[1])] \notin {New, Gone}
  /\ \A row, other \in DOMAIN g : g[row] = g[other] => row = other
  /\ place' \in [Dishes -> Categories \union {New, Gone}] /\ title' \in [Dishes -> DishNames \union {New}]
  /\ \A d \in Dishes : (\A row \in DOMAIN g : d # g[row]) => place'[d] = place[d] /\ title'[d] = title[d]

LEMMA SyncImports ==
  ASSUME Inv, NEW r \in Requests, NEW j, j = jobs[r], j.op = "syncMenu", j.at = "read",
         NEW f \in Injection(Absent(j), Called(New)), NEW g \in Injection(Rows(j), DishesIn(New)),
         SyncMenu(r, f, g)
  PROVE  Imports(r, j, f, g)
<1>1. /\ j.till \in Tills /\ DOMAIN j.till \subseteq Names
      /\ j.found \in [DOMAIN j.till -> Categories \union {New}]
  BY TillAssumption DEF Inv, JobsFit, Fits
<1>2. DOMAIN f = Absent(j) /\ DOMAIN g = Rows(j)
  BY DEF SyncMenu
<1>3. /\ \A n \in DOMAIN f : f[n] \in Categories /\ category[f[n]] = New
      /\ \A n, m \in DOMAIN f : f[n] = f[m] => n = m
  BY <1>2 DEF Injection, IsInjective, Called
<1>4. /\ \A row \in DOMAIN g : g[row] \in Dishes /\ place[g[row]] = New
      /\ \A row, other \in DOMAIN g : g[row] = g[other] => row = other
  BY <1>2 DEF Injection, IsInjective, DishesIn
<1>5. \A n \in DOMAIN f : n \in DOMAIN j.till /\ j.found[n] = New
  BY <1>2 DEF Absent
<1>6. \A row \in DOMAIN g : row[1] \in DOMAIN j.till /\ row[2] \in DishNames
  BY <1>2 DEF Rows
<1> DEFINE named == [c \in Range(f) |-> CHOOSE n \in DOMAIN f : f[n] = c]
           rowOf == [d \in Range(g) |-> CHOOSE row \in DOMAIN g : g[row] = d]
<1>7. /\ category' = [c \in Categories |-> IF c \in Range(f) THEN named[c] ELSE category[c]]
      /\ place' = [d \in Dishes |-> IF d \in Range(g) THEN HomeOf(j, f, rowOf[d][1]) ELSE place[d]]
      /\ title' = [d \in Dishes |-> IF d \in Range(g) THEN rowOf[d][2] ELSE title[d]]
      /\ \A row \in DOMAIN g : row[1] \in DOMAIN f \/ Exists(category[HomeOf(j, f, row[1])])
  BY DEF SyncMenu, HomeOf
<1>8. /\ \A n \in DOMAIN f : f[n] \in Range(f) /\ named[f[n]] = n
      /\ \A c \in Range(f) : \E n \in DOMAIN f : c = f[n]
  BY <1>3 DEF Range
<1>9. /\ \A row \in DOMAIN g : g[row] \in Range(g) /\ rowOf[g[row]] = row
      /\ \A d \in Range(g) : \E row \in DOMAIN g : d = g[row]
  BY <1>4 DEF Range
<1> HIDE DEF named, rowOf
<1>10. /\ \A n \in DOMAIN f : category'[f[n]] = n
       /\ \A c \in Categories : (\A n \in DOMAIN f : c # f[n]) => category'[c] = category[c]
  BY <1>3, <1>7, <1>8
<1>11. category' \in [Categories -> Names \union {New, Gone}]
  <2>1. ASSUME NEW c \in Categories PROVE category'[c] \in Names \union {New, Gone}
    <3>1. CASE \E n \in DOMAIN f : c = f[n]
      BY <1>1, <1>5, <1>10, <3>1
    <3>2. CASE \A n \in DOMAIN f : c # f[n]
      BY <1>10, <3>2 DEF Inv, RowTypes
    <3> QED BY <3>1, <3>2
  <2>2. category' = [c \in Categories |-> category'[c]]
    BY <1>7
  <2> QED BY <2>1, <2>2
<1>12. ASSUME NEW row \in DOMAIN g
       PROVE  /\ HomeOf(j, f, row[1]) \in Categories
              /\ category'[HomeOf(j, f, row[1])] \notin {New, Gone}
  <2>1. CASE row[1] \in DOMAIN f
    <3>1. HomeOf(j, f, row[1]) = f[row[1]] /\ row[1] \in Names
      BY <1>1, <1>6, <2>1 DEF HomeOf
    <3> QED BY <1>3, <1>10, <2>1, <3>1, IdAssumption
  <2>2. CASE row[1] \notin DOMAIN f
    <3>1. HomeOf(j, f, row[1]) = j.found[row[1]] /\ j.found[row[1]] # New
      BY <1>2, <1>6, <2>2 DEF HomeOf, Absent
    <3>2. HomeOf(j, f, row[1]) \in Categories
      BY <1>1, <1>6, <3>1
    <3>3. category[HomeOf(j, f, row[1])] \notin {New, Gone}
      BY <1>7, <2>2 DEF Exists
    <3>4. \A n \in DOMAIN f : HomeOf(j, f, row[1]) # f[n]
      BY <1>3, <3>3
    <3> QED BY <1>10, <3>2, <3>3, <3>4
  <2> QED BY <2>1, <2>2
<1>13. /\ \A row \in DOMAIN g : place'[g[row]] = HomeOf(j, f, row[1]) /\ title'[g[row]] = row[2]
       /\ \A d \in Dishes : (\A row \in DOMAIN g : d # g[row]) => place'[d] = place[d] /\ title'[d] = title[d]
  BY <1>4, <1>7, <1>9
<1>14. /\ place' \in [Dishes -> Categories \union {New, Gone}]
       /\ title' \in [Dishes -> DishNames \union {New}]
  <2>1. ASSUME NEW d \in Dishes
        PROVE  place'[d] \in Categories \union {New, Gone} /\ title'[d] \in DishNames \union {New}
    <3>1. CASE \E row \in DOMAIN g : d = g[row]
      BY <1>6, <1>12, <1>13, <3>1
    <3>2. CASE \A row \in DOMAIN g : d # g[row]
      BY <1>13, <3>2 DEF Inv, RowTypes
    <3> QED BY <3>1, <3>2
  <2>2. place' = [d \in Dishes |-> place'[d]] /\ title' = [d \in Dishes |-> title'[d]]
    BY <1>7
  <2> QED BY <2>1, <2>2
<1> QED BY <1>1, <1>2, <1>3, <1>4, <1>5, <1>6, <1>10, <1>11, <1>12, <1>13, <1>14 DEF Imports

LEMMA ImportInv ==
  ASSUME Inv, NEW r \in Requests, NEW j, j = jobs[r], NEW f, NEW g, Imports(r, j, f, g),
         NEW w, w = DOMAIN f \union {Key[n] : n \in DOMAIN f}
                      \union {HomeOf(j, f, row[1]) : row \in DOMAIN g},
         doubted' = (IF r \in overtaken THEN doubted \union Range(f) ELSE doubted),
         imported' = imported \union Range(f), UNCHANGED <<ordered, combo>>, Commit(r, w), Cascade
  PROVE  Inv'
<1>0. /\ DOMAIN j.till \subseteq Names
      /\ \A n \in DOMAIN f : /\ n \in DOMAIN j.till /\ j.found[n] = New
                             /\ f[n] \in Categories /\ category[f[n]] = New /\ category'[f[n]] = n
      /\ category' \in [Categories -> Names \union {New, Gone}]
      /\ \A c \in Categories : (\A n \in DOMAIN f : c # f[n]) => category'[c] = category[c]
      /\ \A row \in DOMAIN g :
           /\ g[row] \in Dishes /\ place[g[row]] = New
           /\ place'[g[row]] = HomeOf(j, f, row[1])
           /\ HomeOf(j, f, row[1]) \in Categories
           /\ category'[HomeOf(j, f, row[1])] \notin {New, Gone}
      /\ place' \in [Dishes -> Categories \union {New, Gone}] /\ title' \in [Dishes -> DishNames \union {New}]
      /\ \A d \in Dishes : (\A row \in DOMAIN g : d # g[row]) => place'[d] = place[d] /\ title'[d] = title[d]
  BY DEF Imports
<1>1. Writes(w) /\ UNCHANGED connected
  BY CommitWrites DEF Inv, Commit
<1>2. \A d \in Dishes : place[d] \notin {New, Gone} =>
        place'[d] = place[d] /\ title'[d] = title[d]
  BY <1>0
<1>3. UNCHANGED <<group, home, available, links, lines>>
  <2>1. \A l \in links : l[1] \in Dishes /\ place[l[1]] \notin {New, Gone}
    BY DEF Inv, RowTypes, CatalogueReferencesExist, Exists
  <2>2. links' = links
    BY <1>2, <2>1 DEF Cascade, Exists
  <2>3. lines' = lines
    BY DEF Inv, CatalogueReferencesExist, Cascade
  <2> QED BY <2>2, <2>3 DEF Cascade, options
<1>4. RowTypes'
  BY <1>0, <1>3 DEF Inv, RowTypes, Exists
<1>5. Range(f) \subseteq Categories /\ \A c \in Range(f) : \E n \in DOMAIN f : c = f[n]
  BY <1>0 DEF Range
<1>6. ComboTypes' /\ NoteTypes' /\ ComboBounded'
  <2>1. NoteTypes'
    BY <1>1, <1>5 DEF Inv, NoteTypes
  <2> QED BY <1>1, <2>1, ComboTypesSame, BoundSame DEF Inv
<1>7. ASSUME NEW c \in Categories, category[c] \notin {New, Gone}
      PROVE  category'[c] = category[c]
  BY <1>0, <1>7
<1>8. CatalogueReferencesExist'
  <2>1. ASSUME NEW d \in Dishes, place'[d] \notin {New, Gone} PROVE category'[place'[d]] \notin {New, Gone}
    <3>1. CASE \E row \in DOMAIN g : d = g[row]
      BY <1>0, <3>1
    <3>2. CASE \A row \in DOMAIN g : d # g[row]
      <4>1. place'[d] = place[d] /\ place[d] \in Categories /\ category[place[d]] \notin {New, Gone}
        BY <1>0, <2>1, <3>2 DEF Inv, RowTypes, CatalogueReferencesExist, MenuReferencesExist, Exists
      <4> QED BY <1>7, <4>1
    <3> QED BY <3>1, <3>2
  <2>2. ordered \subseteq Dishes
    BY DEF Inv, RowTypes
  <2>3. MenuReferencesExist'
    BY <1>2, <2>1, <2>2 DEF Inv, CatalogueReferencesExist, MenuReferencesExist, Exists, Listed
  <2>4. \A l \in links : l[1] \in Dishes
    BY DEF Inv, RowTypes
  <2> QED BY <1>2, <1>3, <2>3, <2>4 DEF Inv, CatalogueReferencesExist, Exists
<1>9. CategoriesKeep(w)
  <2>1. ASSUME NEW m \in Names, Key[m] \notin w, NEW c \in Alike(m)' PROVE c \in Alike(m)
    <3>1. c \in Categories /\ category'[c] \notin {New, Gone} /\ Key[category'[c]] = Key[m]
      BY <2>1 DEF Alike, Exists
    <3>2. \A n \in DOMAIN f : c # f[n]
      BY <1>0, <2>1, <3>1
    <3> QED BY <1>0, <3>1, <3>2 DEF Alike, Exists
  <2>2. ASSUME NEW m \in Names, m \notin w, NEW c \in Called(m)' PROVE c \in Called(m)
    BY <1>0, <2>2 DEF Called
  <2> QED BY <1>7, <2>1, <2>2 DEF CategoriesKeep, Exists
<1>10. DishesKeep(w)
  <2> SUFFICES ASSUME NEW c \in Categories, NEW x \in DishNames, c \notin w
               PROVE  Placed(c, x)' = Placed(c, x)
    BY DEF DishesKeep
  <2>1. c \notin {New, Gone}
    BY IdAssumption
  <2>2. ASSUME NEW d \in Dishes
        PROVE  place'[d] = c /\ title'[d] = x <=> place[d] = c /\ title[d] = x
    <3>1. CASE \E row \in DOMAIN g : d = g[row]
      BY <1>0, <2>1, <3>1
    <3>2. CASE \A row \in DOMAIN g : d # g[row]
      BY <1>0, <3>2
    <3> QED BY <3>1, <3>2
  <2> QED BY <2>2 DEF Placed, DishesIn
<1>11. JobsOK'
  BY <1>1, <1>3, <1>9, <1>10, JobsKept, CombosSame, GroupsSame, LinesSame DEF Inv, JobsOK
<1>12. CategoryNamesUnlessOvertaken'
  <2> SUFFICES ASSUME NEW a \in Categories, category'[a] \notin {New, Gone},
                      NEW b \in Categories, category'[b] \notin {New, Gone},
                      Key[category'[b]] = Key[category'[a]], b # a
               PROVE  {b, a} \cap (IF category'[b] = category'[a] THEN doubted'
                                   ELSE doubted' \union imported') # {}
    BY DEF CategoryNamesUnlessOvertaken, Alike, Exists
  <2>1. CASE a \notin Range(f) /\ b \notin Range(f)
    <3>1. category'[a] = category[a] /\ category'[b] = category[b]
      BY <1>0, <2>1 DEF Range
    <3>2. {b, a} \cap (IF category[b] = category[a] THEN doubted ELSE doubted \union imported) # {}
      BY <3>1 DEF Inv, CategoryNamesUnlessOvertaken, Alike, Exists
    <3> QED BY <3>1, <3>2
  <2>2. CASE (a \in Range(f) \/ b \in Range(f)) /\ category'[b] # category'[a]
    BY <2>2
  <2>3. CASE (a \in Range(f) \/ b \in Range(f)) /\ category'[b] = category'[a]
    <3>1. PICK n \in DOMAIN f : a = f[n] \/ b = f[n]
      BY <1>5, <2>3
    <3>2. category'[a] = n /\ category'[b] = n /\ j.found[n] = New /\ n \in DOMAIN j.till
      BY <1>0, <2>3, <3>1
    <3>3. \E c \in Categories : category[c] = n
      <4>1. \A m \in DOMAIN f : m # n => a # f[m] /\ b # f[m]
        BY <1>0, <3>2
      <4>2. \E c \in {a, b} : c # f[n]
        OBVIOUS
      <4> QED BY <1>0, <3>2, <4>1, <4>2
    <3>4. r \in overtaken
      <4>1. Called(n) # {}
        BY <3>3 DEF Called
      <4>2. r \notin overtaken => Current(j)
        BY DEF Inv, ReadingsCurrent
      <4> QED BY <3>2, <4>1, <4>2 DEF Current, Imports
    <3> QED BY <2>3, <3>4
  <2> QED BY <2>1, <2>2, <2>3
<1> QED BY <1>4, <1>6, <1>8, <1>11, <1>12 DEF Inv, JobsOK

LEMMA SyncInv ==
  ASSUME Inv, NEW r \in Requests, Syncs(r), Cascade
  PROVE  Inv'
<1>1. PICK j : j = jobs[r]
  OBVIOUS
<1>2. PICK f \in Injection(Absent(j), Called(New)), g \in Injection(Rows(j), DishesIn(New)) :
        SyncMenu(r, f, g)
  BY <1>1 DEF Syncs
<1>3. Imports(r, j, f, g)
  BY <1>1, <1>2, SyncImports DEF Syncs
<1>4. PICK w : w = DOMAIN f \union {Key[n] : n \in DOMAIN f} \union {HomeOf(j, f, row[1]) : row \in DOMAIN g}
  OBVIOUS
<1>5. /\ doubted' = (IF r \in overtaken THEN doubted \union Range(f) ELSE doubted)
      /\ imported' = imported \union Range(f) /\ UNCHANGED <<ordered, combo>> /\ Commit(r, w)
  BY <1>1, <1>2, <1>4 DEF SyncMenu, HomeOf
<1> QED BY <1>1, <1>3, <1>4, <1>5, ImportInv

-------------------------------------------------------------------------------
(* Groups.                                                                  *)

LEMMA GroupInv ==
  ASSUME Inv, UNCHANGED <<names, dishes, combo, connected, lines>>, NEW w, Writes(w), GroupsKeep(w),
         group' \in [Groups -> {"there", New, Gone}],
         home' \in [Options -> Groups \union {New, Gone}],
         available' \in [Options -> BOOLEAN],
         links' \subseteq links,
         \A o \in Options : home'[o] \notin {New, Gone} \/ available'[o],
         \A o \in Options : home'[o] \notin {New, Gone} => group'[home'[o]] \notin {New, Gone},
         \A l \in links' : group'[l[2]] \notin {New, Gone},
         \A l \in lines : home'[l[2]] \notin {New, Gone}
  PROVE  Inv'
<1>0. UNCHANGED <<category, doubted, imported, place, title, ordered>>
  BY DEF names, dishes
<1>1. RowTypes'
  BY <1>0 DEF Inv, RowTypes, Exists
<1>2. ComboTypes' /\ NoteTypes' /\ ComboBounded' /\ CategoryNamesUnlessOvertaken'
  BY ComboTypesSame, NotesSame, BoundSame, NamesSame DEF Inv
<1>3. CatalogueReferencesExist'
  BY <1>0 DEF Inv, CatalogueReferencesExist, MenuReferencesExist, Exists, Listed
<1>4. JobsOK'
  BY <1>0, JobsKept, CategoriesSame, DishesSame, CombosSame, LinesSame DEF Inv, JobsOK
<1> QED BY <1>1, <1>2, <1>3, <1>4 DEF Inv, JobsOK

LEMMA VarsStay ==
  ASSUME Inv, UNCHANGED vars
  PROVE  Writes({}) /\ UNCHANGED <<names, dishes, combo, connected, jobs>>
  BY DEF vars, Inv, JobsFit, Writes

LEMMA CreateGroupInv ==
  ASSUME Inv, NEW g \in Groups, NEW new \in SUBSET Options, NEW on \in SUBSET Options,
         CreateGroup(g, new, on)
  PROVE  Inv'
<1>1. /\ group[g] = New /\ group' = [group EXCEPT ![g] = "there"]
      /\ home' = [o \in Options |-> IF o \in new THEN g ELSE home[o]]
      /\ available' = [o \in Options |-> available[o] /\ o \notin new \ on]
      /\ \A o \in new : home[o] = New
  BY DEF CreateGroup, OptionsOf
<1>2. UNCHANGED <<vars, links, lines>>
  BY DEF CreateGroup
<1>3. Writes({}) /\ UNCHANGED <<names, dishes, combo, connected, jobs>>
  BY <1>2, VarsStay
<1>4. GroupsKeep({})
  <2>1. /\ \A h \in Groups : group[h] # New => h # g /\ group'[h] = group[h]
        /\ \A o \in Options : home[o] # New => home'[o] = home[o]
        /\ \A o \in Options : home'[o] = home[o] \/ home'[o] = g
    BY <1>1 DEF Inv, RowTypes
  <2> QED BY <2>1 DEF GroupsKeep, OptionsOf
<1>5. /\ group' \in [Groups -> {"there", New, Gone}]
      /\ home' \in [Options -> Groups \union {New, Gone}]
      /\ group'[g] = "there" /\ \A h \in Groups : h # g => group'[h] = group[h]
  BY <1>1 DEF Inv, RowTypes
<1>6. "there" \notin {New, Gone} /\ g \notin {New, Gone}
  BY GroupAssumption
<1>7. /\ available' \in [Options -> BOOLEAN]
      /\ \A o \in Options : home'[o] \notin {New, Gone} \/ available'[o]
  BY <1>1, <1>6 DEF Inv, RowTypes, Exists
<1>8. \A h \in Groups : group[h] \notin {New, Gone} => group'[h] \notin {New, Gone}
  BY <1>5, <1>6
<1>9. \A o \in Options : home'[o] \notin {New, Gone} => group'[home'[o]] \notin {New, Gone}
  <2> SUFFICES ASSUME NEW o \in Options, home'[o] \notin {New, Gone}
               PROVE  group'[home'[o]] \notin {New, Gone}
    OBVIOUS
  <2>1. CASE o \in new
    BY <1>1, <1>5, <1>6, <2>1
  <2>2. CASE o \notin new
    <3>1. home'[o] = home[o] /\ home[o] \in Groups /\ group[home[o]] \notin {New, Gone}
      BY <1>1, <2>2 DEF Inv, RowTypes, CatalogueReferencesExist, Exists
    <3> QED BY <1>8, <3>1
  <2> QED BY <2>1, <2>2
<1>10. \A l \in links : group'[l[2]] \notin {New, Gone}
  <2> SUFFICES ASSUME NEW l \in links PROVE group'[l[2]] \notin {New, Gone}
    OBVIOUS
  <2>1. l[2] \in Groups /\ group[l[2]] \notin {New, Gone}
    BY DEF Inv, RowTypes, CatalogueReferencesExist, Exists
  <2> QED BY <1>8, <2>1
<1>11. \A l \in lines : home'[l[2]] \notin {New, Gone}
  <2> SUFFICES ASSUME NEW l \in lines PROVE home'[l[2]] \notin {New, Gone}
    OBVIOUS
  <2>1. l[2] \in Options /\ home[l[2]] \notin {New, Gone}
    BY DEF Inv, RowTypes, CatalogueReferencesExist, Exists
  <2> QED BY <1>1, <1>6, <2>1
<1> QED BY <1>2, <1>3, <1>4, <1>5, <1>7, <1>9, <1>10, <1>11, GroupInv

\* What an update of a group writes, option by option.
LEMMA WrittenGroup ==
  ASSUME Inv, NEW r \in Requests, NEW new \in SUBSET Options, NEW on \in SUBSET Options,
         WriteGroup(r, new, on), NEW j, j = jobs[r]
  PROVE  /\ j.op = "updateGroup" /\ j.id \in Groups /\ j.ask \in GroupRequests /\ Fits(j)
         /\ j.used \union j.unused \subseteq Options \ j.ask.keep /\ j.used \cap j.unused = {}
         /\ on \subseteq new /\ \A o \in new : home[o] = New
         /\ \A o \in j.ask.keep : Exists(home[o])
         /\ \A o \in j.unused : ~Used(o)
         /\ \A o \in j.used \union j.unused : home[o] \in {j.id, Gone}
         /\ home' \in [Options -> Groups \union {New, Gone}]
         /\ available' \in [Options -> BOOLEAN]
         /\ \A o \in Options : home'[o] = IF o \in j.unused THEN Gone
                                          ELSE IF o \in new THEN j.id ELSE home[o]
         /\ \A o \in Options : available'[o] <=>
              (Exists(home'[o]) => \/ available[o] /\ Exists(home[o]) /\ o \notin j.used \union j.ask.keep
                                   \/ o \in j.ask.on \union on)
<1>1. /\ j.op = "updateGroup" /\ on \subseteq new /\ \A o \in new : home[o] = New
      /\ \A o \in j.unused : ~Used(o)
      /\ \A o \in j.ask.keep : Exists(home[o])
  BY DEF WriteGroup, OptionsOf
<1>2. /\ Fits(j) /\ j.id \in Groups /\ j.ask \in GroupRequests
      /\ j.used \union j.unused \subseteq Options \ j.ask.keep /\ j.used \cap j.unused = {}
      /\ \A o \in j.used \union j.unused : home[o] \in {j.id, Gone}
  BY <1>1 DEF Inv, JobsFit, Fits
<1>3. New \notin {j.id, Gone}
  BY <1>2, GroupAssumption, IdAssumption
<1>4. home' = [o \in Options |-> CASE o \in j.unused -> Gone
                                   [] o \in new -> j.id
                                   [] OTHER -> home[o]]
  BY DEF WriteGroup
<1>5. \A o \in Options : home'[o] = IF o \in j.unused THEN Gone ELSE IF o \in new THEN j.id ELSE home[o]
  <2>1. \A o \in new : o \notin j.unused
    BY <1>1, <1>2, <1>3
  <2> QED BY <1>4, <2>1
<1>6. home' \in [Options -> Groups \union {New, Gone}]
  <2>1. \A o \in Options : home'[o] \in Groups \union {New, Gone}
    BY <1>2, <1>5 DEF Inv, RowTypes
  <2>2. home' = [o \in Options |-> home'[o]]
    BY <1>4
  <2> QED BY <2>1, <2>2
<1>7. available' = [o \in Options |-> Exists(home'[o]) => o \in Offered(j, on)]
  BY DEF WriteGroup
<1>8. available' \in [Options -> BOOLEAN]
  BY <1>7
<1>9. ASSUME NEW o \in Options
      PROVE  available'[o] <=>
               (Exists(home'[o]) => \/ available[o] /\ Exists(home[o]) /\ o \notin j.used \union j.ask.keep
                                    \/ o \in j.ask.on \union on)
  <2>1. o \in Offered(j, on) <=> \/ available[o] /\ Exists(home[o]) /\ o \notin j.used \union j.ask.keep
                                \/ o \in j.ask.on \union on
    BY DEF Offered
  <2>2. available'[o] = (Exists(home'[o]) => o \in Offered(j, on))
    BY <1>7
  <2> QED BY <2>1, <2>2
<1> QED BY <1>1, <1>2, <1>5, <1>6, <1>8, <1>9

LEMMA WriteGroupInv ==
  ASSUME Inv, NEW r \in Requests, NEW new \in SUBSET Options, NEW on \in SUBSET Options,
         WriteGroup(r, new, on)
  PROVE  Inv'
<1>0. PICK j : j = jobs[r]
  OBVIOUS
<1>1. /\ j.op = "updateGroup" /\ j.id \in Groups /\ j.ask \in GroupRequests /\ Fits(j)
      /\ j.used \union j.unused \subseteq Options \ j.ask.keep /\ j.used \cap j.unused = {}
      /\ on \subseteq new /\ \A o \in new : home[o] = New
      /\ \A o \in j.ask.keep : Exists(home[o])
      /\ \A o \in j.unused : ~Used(o)
      /\ \A o \in j.used \union j.unused : home[o] \in {j.id, Gone}
      /\ home' \in [Options -> Groups \union {New, Gone}]
      /\ available' \in [Options -> BOOLEAN]
      /\ \A o \in Options : home'[o] = IF o \in j.unused THEN Gone
                                       ELSE IF o \in new THEN j.id ELSE home[o]
      /\ \A o \in Options : available'[o] <=>
           (Exists(home'[o]) => \/ available[o] /\ Exists(home[o]) /\ o \notin j.used \union j.ask.keep
                                \/ o \in j.ask.on \union on)
  BY <1>0, WrittenGroup
<1> DEFINE w == IF new = {} THEN {} ELSE {j.id}
<1>2. /\ UNCHANGED <<names, dishes, combo, connected, lines, group, links>> /\ Commit(r, w)
      /\ new = {} \/ Exists(group[j.id])
  BY <1>0 DEF WriteGroup, Commit
<1>3. Writes(w)
  BY <1>2, CommitWrites DEF Inv
<1>4. j.id \notin {New, Gone} /\ New # Gone
  BY <1>1, GroupAssumption, IdAssumption
<1>5. GroupsKeep(w)
  <2>1. \A o \in Options : home[o] # New => home'[o] \in {home[o], Gone}
    BY <1>1
  <2>2. ASSUME NEW g \in Groups, g \notin w, NEW o \in Options, home'[o] = g PROVE home[o] = g
    <3>1. g # Gone
      BY GroupAssumption
    <3> QED BY <1>1, <2>2, <3>1
  <2> QED BY <1>2, <2>1, <2>2 DEF GroupsKeep, OptionsOf
<1>6. \A o \in Options : home'[o] \notin {New, Gone} \/ available'[o]
  BY <1>1 DEF Exists
<1>7. \A o \in Options : home'[o] \notin {New, Gone} => group[home'[o]] \notin {New, Gone}
  BY <1>1, <1>2 DEF Inv, CatalogueReferencesExist, Exists
<1>8. \A l \in links : group[l[2]] \notin {New, Gone}
  BY DEF Inv, CatalogueReferencesExist, Exists
<1>9. \A l \in lines : home'[l[2]] \notin {New, Gone}
  <2> SUFFICES ASSUME NEW l \in lines PROVE home'[l[2]] \notin {New, Gone}
    OBVIOUS
  <2>1. l[1] \in Dishes /\ l[2] \in Options /\ l = <<l[1], l[2]>> /\ home[l[2]] \notin {New, Gone}
    BY DEF Inv, RowTypes, CatalogueReferencesExist, Exists
  <2>2. l[2] \notin j.unused
    BY <1>1, <2>1 DEF Used
  <2> QED BY <1>1, <1>4, <2>1, <2>2
<1>10. group' \in [Groups -> {"there", New, Gone}]
  BY <1>2 DEF Inv, RowTypes
<1> HIDE DEF w
<1> QED BY <1>1, <1>2, <1>3, <1>5, <1>6, <1>7, <1>8, <1>9, <1>10, GroupInv

LEMMA DeleteGroupInv ==
  ASSUME Inv, NEW g \in Groups, DeleteGroup(g)
  PROVE  Inv'
<1>1. /\ \A o \in OptionsOf(g) : ~Used(o)
      /\ group' = [group EXCEPT ![g] = Gone]
      /\ home' = [o \in Options |-> IF home[o] = g THEN Gone ELSE home[o]]
      /\ available' = [o \in Options |-> home[o] = g \/ available[o]]
      /\ links' = {l \in links : l[2] # g} /\ UNCHANGED <<vars, lines>>
  BY DEF DeleteGroup
<1>2. Writes({}) /\ UNCHANGED <<names, dishes, combo, connected, jobs>>
  BY <1>1, VarsStay
<1>3. GroupsKeep({})
  <2>1. /\ \A h \in Groups : group'[h] \in {group[h], Gone} /\ h # Gone
        /\ \A o \in Options : home'[o] \in {home[o], Gone}
        /\ New # Gone
    BY <1>1, GroupAssumption, IdAssumption DEF Inv, RowTypes
  <2> QED BY <2>1 DEF GroupsKeep, OptionsOf
<1>4. /\ group' \in [Groups -> {"there", New, Gone}]
      /\ home' \in [Options -> Groups \union {New, Gone}]
      /\ available' \in [Options -> BOOLEAN]
      /\ \A h \in Groups : h # g => group'[h] = group[h]
  BY <1>1 DEF Inv, RowTypes
<1>5. \A o \in Options : home'[o] \notin {New, Gone} \/ available'[o]
  BY <1>1 DEF Inv, RowTypes, Exists
<1>6. \A o \in Options : home'[o] \notin {New, Gone} => group'[home'[o]] \notin {New, Gone}
  <2> SUFFICES ASSUME NEW o \in Options, home'[o] \notin {New, Gone}
               PROVE  group'[home'[o]] \notin {New, Gone}
    OBVIOUS
  <2>1. home[o] # g /\ home'[o] = home[o]
    BY <1>1
  <2>2. home[o] \in Groups /\ group[home[o]] \notin {New, Gone}
    BY <2>1 DEF Inv, RowTypes, CatalogueReferencesExist, Exists
  <2> QED BY <1>4, <2>1, <2>2
<1>7. \A l \in links' : group'[l[2]] \notin {New, Gone}
  <2> SUFFICES ASSUME NEW l \in links, l[2] # g PROVE group'[l[2]] \notin {New, Gone}
    BY <1>1
  <2>1. l[2] \in Groups /\ group[l[2]] \notin {New, Gone}
    BY DEF Inv, RowTypes, CatalogueReferencesExist, Exists
  <2> QED BY <1>4, <2>1
<1>8. \A l \in lines : home'[l[2]] \notin {New, Gone}
  <2> SUFFICES ASSUME NEW l \in lines PROVE home'[l[2]] \notin {New, Gone}
    OBVIOUS
  <2>1. l[1] \in Dishes /\ l[2] \in Options /\ l = <<l[1], l[2]>> /\ home[l[2]] \notin {New, Gone}
    BY DEF Inv, RowTypes, CatalogueReferencesExist, Exists
  <2>2. home[l[2]] # g
    BY <1>1, <2>1 DEF Used, OptionsOf
  <2> QED BY <1>1, <2>1, <2>2
<1> QED BY <1>1, <1>2, <1>3, <1>4, <1>5, <1>6, <1>7, <1>8, GroupInv

-------------------------------------------------------------------------------
(* The invariant.                                                           *)

LEMMA InitInv == CatalogueInit => Inv
<1> SUFFICES ASSUME CatalogueInit PROVE Inv
  OBVIOUS
<1>1. /\ category = [c \in Categories |-> New] /\ place = [d \in Dishes |-> New]
      /\ title = [d \in Dishes |-> New] /\ combo = [k \in Combos |-> New]
      /\ ordered = {} /\ connected = FALSE /\ jobs = [r \in Requests |-> Done]
      /\ overtaken = {} /\ doubted = {} /\ imported = {}
      /\ group = [g \in Groups |-> New] /\ home = [o \in Options |-> New]
      /\ available = [o \in Options |-> TRUE] /\ links = {} /\ lines = {}
  BY DEF CatalogueInit, Init
<1>2. RowTypes /\ NoteTypes /\ CategoryNamesUnlessOvertaken
  BY <1>1 DEF RowTypes, NoteTypes, CategoryNamesUnlessOvertaken, Exists
<1>3. ComboTypes /\ ComboBounded
  BY <1>1 DEF ComboTypes, ComboBounded, Exists
<1>4. CatalogueReferencesExist
  BY <1>1 DEF CatalogueReferencesExist, MenuReferencesExist, Exists
<1>5. JobsFit /\ ReadingsCurrent
  BY <1>1, DoneFits DEF JobsFit, ReadingsCurrent
<1> QED BY <1>2, <1>3, <1>4, <1>5 DEF Inv

LEMMA StepsInv ==
  ASSUME Inv, NEW r \in Requests, Steps(r), Cascade PROVE Inv'
<1>1. CASE WriteRename(r) \/ \E c \in Categories : InsertCategory(r, c)
  BY <1>1, NamesInv
<1>2. CASE WriteCombo(r)
  BY <1>2, WriteComboInv
<1>3. CASE Syncs(r)
  BY <1>3, SyncInv
<1>4. CASE Reject(r)
  BY <1>4, StaysInv
<1>5. CASE \/ \E n \in Names : CheckNewCategory(r, n)
           \/ \E n \in Names, c \in Categories : CheckRename(r, c, n)
           \/ \E k \in Combos, asked \in Asked : ReadCombo(r, k, asked)
           \/ \E t \in Tills : FetchMenu(r, t)
           \/ \E t \in Tills : \E found \in [DOMAIN t -> Categories \union {New}] : ReadMenu(r, found)
  BY <1>5, ReadsInv
<1> QED BY <1>1, <1>2, <1>3, <1>4, <1>5 DEF Steps

LEMMA NextInv == Inv /\ [CatalogueNext]_<<vars, modifiers>> => Inv'
<1> SUFFICES ASSUME Inv, [CatalogueNext]_<<vars, modifiers>> PROVE Inv'
  OBVIOUS
<1>1. CASE Next /\ Cascade
  <2>1. CASE \E r \in Requests : Steps(r)
    BY <1>1, <2>1, StepsInv
  <2>2. CASE (\E c \in Categories : DeleteCategory(c)) \/ \E d \in Dishes : DeleteDish(d)
    BY <1>1, <2>2, DeletesInv
  <2>3. CASE \E d \in Dishes : OrderDish(d) \/ ForgetDish(d)
    BY <1>1, <2>3, OrdersInv
  <2>4. CASE \E d \in Dishes, c \in Categories, x \in DishNames :
               CreateDish(d, c, x) \/ UpdateDish(d, c, x)
    BY <1>1, <2>4, DishesInv
  <2>5. CASE \E k \in Combos : DeleteCombo(k) \/ \E asked \in Asked : CreateCombo(k, asked)
    BY <1>1, <2>5, DeleteComboInv, CreateComboInv
  <2>6. CASE Connect \/ Disconnect
    BY <1>1, <2>6, StaysInv
  <2> QED BY <1>1, <2>1, <2>2, <2>3, <2>4, <2>5, <2>6 DEF Next
<1>2. CASE \E r \in Requests : GroupSteps(r)
  BY <1>2, ReadGroupInv, WriteGroupInv, AskAssumption DEF GroupSteps
<1>3. CASE \E g \in Groups :
             DeleteGroup(g) \/ \E new, on \in SUBSET Options : CreateGroup(g, new, on)
  BY <1>3, DeleteGroupInv, CreateGroupInv
<1>4. CASE \E d \in Dishes, o \in Options : OrderWithOption(d, o) \/ DropOption(d, o)
  BY <1>4, OrdersInv
<1>5. CASE \E d \in Dishes, c \in Categories, x \in DishNames, gs \in SUBSET Groups :
             CreateDishWith(d, c, x, gs) \/ UpdateDishWith(d, c, x, gs)
  BY <1>5, DishesInv
<1>6. CASE UNCHANGED <<vars, modifiers>>
  BY <1>6, StaysInv
<1> QED BY <1>1, <1>2, <1>3, <1>4, <1>5, <1>6 DEF CatalogueNext

LEMMA Invariance == CatalogueSpec => []Inv
  BY InitInv, NextInv, PTL DEF CatalogueSpec

-------------------------------------------------------------------------------
(* What follows.                                                            *)

\* Every variable has its type; a combo lists a dish at most as often as a request
\* may ask for, once for each request: an update of a combo (combos.service.ts)
\* writes its difference with what it read, and so those that overlap add up.
THEOREM TypeCorrect == CatalogueSpec => []CatalogueTypeOK
<1>1. Inv => CatalogueTypeOK
  <2> SUFFICES ASSUME Inv PROVE CatalogueTypeOK
    OBVIOUS
  <2>1. ASSUME NEW k \in Combos, Exists(combo[k])
        PROVE  combo[k] \in [Dishes -> 0..Most * Cardinality(Requests)]
    <3>1. combo[k] \in [Dishes -> Nat]
      BY <2>1 DEF Inv, ComboTypes
    <3>2. ASSUME NEW d \in Dishes PROVE combo[k][d] \in 0..Most * Cardinality(Requests)
      <4>1. combo[k][d] \in Nat /\ combo[k][d] <= Most * Cardinality(Others(k, d))
        BY <2>1, <3>1 DEF Inv, ComboBounded
      <4>2. Others(k, d) \subseteq Requests
        BY DEF Others
      <4>3. /\ Most * Cardinality(Others(k, d)) \in Nat /\ Most * Cardinality(Requests) \in Nat
            /\ Most * Cardinality(Others(k, d)) <= Most * Cardinality(Requests)
        BY <4>2, MoreCount
      <4> QED BY <4>1, <4>3
    <3> QED BY <3>1, <3>2
  <2>2. TypeOK
    BY <2>1 DEF Inv, RowTypes, NoteTypes, JobsFit, TypeOK
  <2> QED BY <2>2 DEF Inv, RowTypes, CatalogueTypeOK
<1> QED BY <1>1, Invariance, PTL

\* What rows of the catalogue and of orders point to exists, whatever requests and
\* orders overlap: deletions cascade, are refused, or fail with the whole request.
THEOREM ReferencesHold == CatalogueSpec => []CatalogueReferencesExist
<1>1. Inv => CatalogueReferencesExist
  BY DEF Inv
<1> QED BY <1>1, Invariance, PTL

\* Two categories get one name only from a request that was overtaken after it had
\* looked for the name, or, up to case, from an import.
THEOREM NamesDiffer == CatalogueSpec => []CategoryNamesUnlessOvertaken
<1>1. Inv => CategoryNamesUnlessOvertaken
  BY DEF Inv
<1> QED BY <1>1, Invariance, PTL

\* An update leaves a combo with what was asked for unless the combo was written
\* since it was read: what was read then is what the combo has.
THEOREM ComboAsAsked == CatalogueSpec => ComboIsAsAsked
<1> DEFINE Asking == \A r \in Requests : WriteCombo(r) /\ r \notin overtaken =>
              LET k == jobs[r].id
                  asked == jobs[r].asked
              IN \A d \in Dishes :
                   combo'[k][d] = IF asked[d] > 0 /\ combo[k][d] > 0 THEN combo[k][d] ELSE asked[d]
<1>1. Inv => [Asking]_vars
  <2> SUFFICES ASSUME Inv, NEW r \in Requests, WriteCombo(r), r \notin overtaken,
                      NEW j, j = jobs[r], NEW c, c = combo[j.id], NEW d \in Dishes
               PROVE  combo'[j.id][d] = IF j.asked[d] > 0 /\ c[d] > 0 THEN c[d] ELSE j.asked[d]
    OBVIOUS
  <2>1. /\ j.op = "updateCombo" /\ j.asked[d] \in Nat /\ c[d] \in Nat
        /\ j.asked[d] > 0 /\ d \notin j.read => combo'[j.id][d] = c[d] + j.asked[d]
        /\ ~(j.asked[d] > 0) /\ d \in j.read => combo'[j.id][d] = 0
        /\ (j.asked[d] > 0 <=> d \in j.read) => combo'[j.id][d] = c[d]
    BY WrittenCombo
  <2>2. Exists(c)
    BY DEF WriteCombo
  <2>3. d \in j.read <=> c[d] > 0
    BY <2>1, <2>2 DEF Inv, ReadingsCurrent, Current, Listed
  <2> QED BY <2>1, <2>3
<1>2. QED BY <1>1, Invariance, PTL DEF ComboIsAsAsked

\* An update leaves a group with the options asked for, available as asked, and of
\* the others with those that some order has, as unavailable, unless an order took
\* or let go one of the others, or another update added some, since it read them.
\* Updates of the options alone do not lock the group, and nothing here needs it:
\* what another update deletes or marks does not change what this one leaves.
THEOREM GroupAsAsked == CatalogueSpec => GroupIsAsAsked
<1> DEFINE Asking == \A r \in Requests : (\E new, on \in SUBSET Options : WriteGroup(r, new, on)) =>
              LET ask == jobs[r].ask
                  before == OptionsOf(jobs[r].id)
                  left == {o \in Options : home'[o] = jobs[r].id}
                  kept == before \intersect ask.keep
                  added == left \ before
              IN /\ Cardinality(added) = ask.new
                 /\ Cardinality({o \in added : available'[o]}) = ask.newOn
                 /\ kept \subseteq left /\ \A o \in kept : available'[o] <=> o \in ask.on
                 /\ r \notin overtaken =>
                      /\ left = kept \union added \union {o \in before : Used(o)}
                      /\ \A o \in left : available'[o] => o \in kept \union added
<1>1. Inv => [Asking]_<<vars, modifiers>>
  <2> SUFFICES ASSUME Inv, NEW r \in Requests, NEW new \in SUBSET Options, NEW on \in SUBSET Options,
                      WriteGroup(r, new, on)
               PROVE  LET ask == jobs[r].ask
                          before == OptionsOf(jobs[r].id)
                          left == {o \in Options : home'[o] = jobs[r].id}
                          kept == before \intersect ask.keep
                          added == left \ before
                      IN /\ Cardinality(added) = ask.new
                         /\ Cardinality({o \in added : available'[o]}) = ask.newOn
                         /\ kept \subseteq left /\ \A o \in kept : available'[o] <=> o \in ask.on
                         /\ r \notin overtaken =>
                              /\ left = kept \union added \union {o \in before : Used(o)}
                              /\ \A o \in left : available'[o] => o \in kept \union added
    OBVIOUS
  <2>1. PICK j : j = jobs[r]
    OBVIOUS
  <2>2. PICK before : before = OptionsOf(j.id)
    OBVIOUS
  <2>3. PICK left : left = {o \in Options : home'[o] = j.id}
    OBVIOUS
  <2>4. /\ j.op = "updateGroup" /\ j.id \in Groups /\ j.ask \in GroupRequests /\ Fits(j)
        /\ j.used \union j.unused \subseteq Options \ j.ask.keep /\ j.used \cap j.unused = {}
        /\ on \subseteq new /\ \A o \in new : home[o] = New
        /\ \A o \in j.ask.keep : Exists(home[o])
        /\ \A o \in j.unused : ~Used(o)
        /\ \A o \in j.used \union j.unused : home[o] \in {j.id, Gone}
        /\ home' \in [Options -> Groups \union {New, Gone}]
        /\ available' \in [Options -> BOOLEAN]
        /\ \A o \in Options : home'[o] = IF o \in j.unused THEN Gone
                                         ELSE IF o \in new THEN j.id ELSE home[o]
        /\ \A o \in Options : available'[o] <=>
             (Exists(home'[o]) => \/ available[o] /\ Exists(home[o]) /\ o \notin j.used \union j.ask.keep
                                  \/ o \in j.ask.on \union on)
    BY <2>1, WrittenGroup
  <2>5. j.id \notin {New, Gone} /\ j.ask.on \subseteq j.ask.keep
    BY <2>4, GroupAssumption DEF GroupRequests
  <2>6. \A o \in Options : (o \in before <=> home[o] = j.id) /\ (o \in left <=> home'[o] = j.id)
    BY <2>2, <2>3 DEF OptionsOf
  <2>7. before \subseteq Options /\ left \subseteq Options
    BY <2>2, <2>3 DEF OptionsOf
  <2>8. ASSUME NEW o \in new
        PROVE  o \notin before /\ o \in left /\ (available'[o] <=> o \in on)
    <3>1. ~Exists(home[o]) /\ home[o] \notin {j.id, Gone} /\ o \notin before
      BY <2>4, <2>5, <2>6, IdAssumption DEF Exists
    <3>2. o \notin j.unused /\ o \notin j.ask.keep /\ o \notin j.ask.on
      BY <2>4, <2>5, <3>1
    <3>3. home'[o] = j.id /\ Exists(home'[o])
      BY <2>4, <2>5, <3>2 DEF Exists
    <3> QED BY <2>4, <2>6, <3>1, <3>2, <3>3
  <2>9. ASSUME NEW o \in before
        PROVE  /\ o \in left <=> o \notin j.unused
               /\ o \in left => (available'[o] <=> \/ available[o] /\ o \notin j.used \union j.ask.keep
                                                  \/ o \in j.ask.on)
    <3>1. o \in Options /\ home[o] = j.id /\ o \notin new /\ o \notin on
      BY <2>4, <2>6, <2>7, <2>8
    <3>2. o \in left <=> o \notin j.unused
      BY <2>4, <2>5, <2>6, <3>1
    <3>3. o \in left => Exists(home'[o]) /\ Exists(home[o])
      BY <2>5, <2>6, <3>1 DEF Exists
    <3> QED BY <2>4, <3>1, <3>2, <3>3
  <2>10. left \ before = new /\ {o \in new : available'[o]} = on
    <3>1. ASSUME NEW o \in left, o \notin before PROVE o \in new
      BY <2>4, <2>5, <2>6, <2>7, <3>1
    <3> QED BY <2>4, <2>8, <3>1
  <2>11. Cardinality(new) = j.ask.new /\ Cardinality(on) = j.ask.newOn
    BY <2>1 DEF WriteGroup
  <2>12. ASSUME NEW o \in before, o \in j.ask.keep
         PROVE  o \in left /\ (available'[o] <=> o \in j.ask.on)
    BY <2>4, <2>9, <2>12
  <2>13. ASSUME r \notin overtaken, NEW o \in before, o \notin j.ask.keep
         PROVE  (o \in left <=> Used(o)) /\ (o \in left => ~available'[o])
    <3>1. Current(j)
      BY <2>1, <2>13 DEF Inv, ReadingsCurrent
    <3>2. (o \in j.used \/ o \in j.unused) /\ (o \in j.used => Used(o))
      BY <2>2, <2>4, <2>13, <3>1 DEF Current
    <3>3. o \notin j.ask.on
      BY <2>5, <2>13
    <3> QED BY <2>4, <2>9, <3>2, <3>3
  <2>14. ASSUME r \notin overtaken
         PROVE  left = (before \cap j.ask.keep) \union new \union {o \in before : Used(o)}
    BY <2>8, <2>10, <2>12, <2>13, <2>14
  <2>15. ASSUME r \notin overtaken, NEW o \in left, available'[o]
         PROVE  o \in (before \cap j.ask.keep) \union new
    BY <2>10, <2>13, <2>15
  <2> QED BY <2>1, <2>2, <2>3, <2>10, <2>11, <2>12, <2>14, <2>15
<1>2. QED BY <1>1, Invariance, PTL DEF GroupIsAsAsked

\* A category that is the one of a name of the till, before and after the import.
Serves(j, f, g, n, c) ==
  /\ category'[c] = n
  /\ \A row \in DOMAIN g : HomeOf(j, f, row[1]) = c <=> row[1] = n
  /\ \A x \in DishNames : x \in j.known[n] <=> Placed(c, x) # {}

\* An import that was not overtaken finds the category of a name as it read it, or
\* creates it without dishes; it gives it the dishes of the till that it had not.
LEMMA Imported ==
  ASSUME Inv, NEW r \in Requests, r \notin overtaken, NEW j, j = jobs[r], NEW f, NEW g, Imports(r, j, f, g),
         NEW n \in DOMAIN j.till
  PROVE  \E c \in Categories : Serves(j, f, g, n, c)
<1>0. PICK c : c = HomeOf(j, f, n)
  OBVIOUS
<1>1. Current(j) /\ Fits(j) /\ j.op = "syncMenu" /\ j.at = "read"
  BY DEF Inv, ReadingsCurrent, JobsFit, Imports
<1>2. DOMAIN f = {m \in DOMAIN j.till : j.found[m] = New} /\ DOMAIN j.till \subseteq Names
  BY DEF Imports, Absent
<1>3. /\ \A m \in DOMAIN f : f[m] \in Categories /\ category[f[m]] = New /\ category'[f[m]] = m
      /\ \A m, k \in DOMAIN f : f[m] = f[k] => m = k
      /\ \A b \in Categories : (\A m \in DOMAIN f : b # f[m]) => category'[b] = category[b]
      /\ \A row \in DOMAIN g : row[1] \in DOMAIN j.till
  BY DEF Imports
<1>4. ASSUME NEW m \in DOMAIN j.till, m \notin DOMAIN f
      PROVE  /\ j.found[m] \in Categories /\ category[j.found[m]] = m /\ m # New
             /\ \A x \in DishNames : x \in j.known[m] <=> Placed(j.found[m], x) # {}
  <2>1. j.found[m] # New /\ m \in Names
    BY <1>2, <1>4
  <2>2. j.found[m] \in Categories
    BY <1>1, <2>1 DEF Fits
  <2> QED BY <1>1, <2>1, <2>2, IdAssumption DEF Current
<1>5. CASE n \in DOMAIN f
  <2>1. c = f[n] /\ c \in Categories /\ category[c] = New /\ category'[c] = n
    BY <1>0, <1>3, <1>5 DEF HomeOf
  <2>2. ASSUME NEW row \in DOMAIN g PROVE HomeOf(j, f, row[1]) = c <=> row[1] = n
    <3>1. CASE row[1] \in DOMAIN f
      BY <1>3, <1>5, <2>1, <3>1 DEF HomeOf
    <3>2. CASE row[1] \notin DOMAIN f
      BY <1>3, <1>4, <1>5, <2>1, <3>2 DEF HomeOf
    <3> QED BY <3>1, <3>2
  <2>3. ASSUME NEW x \in DishNames PROVE Placed(c, x) = {}
    <3>1. ASSUME NEW d \in Dishes, place[d] = c PROVE FALSE
      <4>1. Exists(place[d])
        BY <2>1, <3>1, RowsExist
      <4> QED BY <2>1, <3>1, <4>1, RowsExist DEF Inv, CatalogueReferencesExist, MenuReferencesExist
    <3> QED BY <3>1 DEF Placed, DishesIn
  <2>4. j.known[n] = {}
    BY <1>1, <1>2, <1>5 DEF Fits
  <2> QED BY <2>1, <2>2, <2>3, <2>4 DEF Serves
<1>6. CASE n \notin DOMAIN f
  <2>1. /\ c = j.found[n] /\ c \in Categories /\ category[c] = n /\ n # New
        /\ \A x \in DishNames : x \in j.known[n] <=> Placed(c, x) # {}
    BY <1>0, <1>4, <1>6 DEF HomeOf
  <2>2. \A m \in DOMAIN f : c # f[m]
    BY <1>3, <2>1
  <2>3. category'[c] = n
    BY <1>3, <2>1, <2>2
  <2>4. ASSUME NEW row \in DOMAIN g PROVE HomeOf(j, f, row[1]) = c <=> row[1] = n
    <3>1. CASE row[1] \in DOMAIN f
      BY <1>6, <2>2, <3>1 DEF HomeOf
    <3>2. CASE row[1] \notin DOMAIN f
      BY <1>3, <1>4, <2>1, <3>2 DEF HomeOf
    <3> QED BY <3>1, <3>2
  <2> QED BY <2>1, <2>3, <2>4 DEF Serves
<1> QED BY <1>5, <1>6

\* The rows of the import's dishes, one for each time the till lists one.
LEMMA RowsOf ==
  ASSUME NEW j, j.till \in Tills, NEW n \in DOMAIN j.till, NEW x \in DishNames
  PROVE  /\ j.till[n][x] \in Nat
         /\ x \in j.known[n] => \A row \in Rows(j) : ~(row[1] = n /\ row[2] = x)
         /\ x \notin j.known[n] => /\ \A i \in 1..j.till[n][x] : <<n, x, i>> \in Rows(j)
                                   /\ \A row \in Rows(j) : row[1] = n /\ row[2] = x =>
                                        row[3] \in 1..j.till[n][x] /\ row = <<n, x, row[3]>>
<1>1. Most \in Nat /\ j.till[n] \in [DishNames -> 0..Most]
  BY TillAssumption
<1>2. j.till[n][x] \in 0..Most
  BY <1>1
<1>3. ASSUME x \notin j.known[n], NEW i \in 1..j.till[n][x] PROVE <<n, x, i>> \in Rows(j)
  <2>1. i \in 1..Most /\ i <= j.till[n][x]
    BY <1>1, <1>2
  <2> QED BY <1>3, <2>1 DEF Rows
<1>4. ASSUME NEW row \in Rows(j), row[1] = n, row[2] = x
      PROVE  row[3] \in 1..j.till[n][x] /\ row = <<n, x, row[3]>> /\ x \notin j.known[n]
  <2>1. /\ row \in (DOMAIN j.till) \X DishNames \X (1..Most)
        /\ row[2] \notin j.known[row[1]] /\ row[3] <= j.till[row[1]][row[2]]
    BY DEF Rows
  <2>2. row = <<row[1], row[2], row[3]>> /\ row[3] \in 1..Most
    BY <2>1
  <2> QED BY <1>1, <1>2, <1>4, <2>1, <2>2
<1> QED BY <1>2, <1>3, <1>4

\* An import that was not overtaken leaves every category of the till in the menu,
\* with its dishes: those it had as often as before, the others as often as listed.
THEOREM SyncCompletes == CatalogueSpec => SyncCompletesTheMenu
<1> DEFINE Complete == \A r \in Requests : Syncs(r) /\ r \notin overtaken =>
              \A n \in DOMAIN jobs[r].till : \E c \in Categories :
                /\ category'[c] = n
                /\ \A x \in DishNames : jobs[r].till[n][x] > 0 =>
                     Copies(c, x)' = IF Copies(c, x) > 0 THEN Copies(c, x) ELSE jobs[r].till[n][x]
<1>1. Inv => [Complete]_vars
  <2> SUFFICES ASSUME Inv, NEW r \in Requests, Syncs(r), r \notin overtaken, NEW n \in DOMAIN jobs[r].till
               PROVE  \E c \in Categories :
                 /\ category'[c] = n
                 /\ \A x \in DishNames : jobs[r].till[n][x] > 0 =>
                      Copies(c, x)' = IF Copies(c, x) > 0 THEN Copies(c, x) ELSE jobs[r].till[n][x]
    OBVIOUS
  <2>1. PICK j : j = jobs[r]
    OBVIOUS
  <2>2. PICK f \in Injection(Absent(j), Called(New)), g \in Injection(Rows(j), DishesIn(New)) :
          SyncMenu(r, f, g)
    BY <2>1 DEF Syncs
  <2>3. Imports(r, j, f, g)
    BY <2>1, <2>2, SyncImports DEF Syncs
  <2>4. n \in DOMAIN j.till
    BY <2>1
  <2>5. PICK c \in Categories : Serves(j, f, g, n, c)
    BY <2>1, <2>3, <2>4, Imported
  <2>6. /\ category'[c] = n
        /\ \A row \in DOMAIN g : HomeOf(j, f, row[1]) = c <=> row[1] = n
        /\ \A x \in DishNames : x \in j.known[n] <=> Placed(c, x) # {}
    BY <2>5 DEF Serves
  <2>7. /\ j.till \in Tills /\ DOMAIN g = Rows(j) /\ c # New
        /\ \A row \in DOMAIN g : /\ g[row] \in Dishes /\ place[g[row]] = New
                                 /\ place'[g[row]] = HomeOf(j, f, row[1]) /\ title'[g[row]] = row[2]
        /\ \A row, other \in DOMAIN g : g[row] = g[other] => row = other
        /\ \A d \in Dishes : (\A row \in DOMAIN g : d # g[row]) => place'[d] = place[d] /\ title'[d] = title[d]
    BY <2>3, <2>6, RowsExist DEF Imports, Exists
  <2>8. ASSUME NEW x \in DishNames, j.till[n][x] > 0
        PROVE  Copies(c, x)' = IF Copies(c, x) > 0 THEN Copies(c, x) ELSE j.till[n][x]
    <3>1. ASSUME NEW d \in Dishes
          PROVE  d \in Placed(c, x)' <=>
                   d \in Placed(c, x) \/ \E row \in DOMAIN g : d = g[row] /\ row[1] = n /\ row[2] = x
      <4>1. /\ d \in Placed(c, x)' <=> place'[d] = c /\ title'[d] = x
            /\ d \in Placed(c, x) <=> place[d] = c /\ title[d] = x
        BY DEF Placed, DishesIn
      <4>2. CASE \E row \in DOMAIN g : d = g[row]
        <5>1. PICK row \in DOMAIN g : d = g[row]
          BY <4>2
        <5>2. d \notin Placed(c, x) /\ (d \in Placed(c, x)' <=> row[1] = n /\ row[2] = x)
          BY <2>6, <2>7, <4>1, <5>1
        <5>3. \A other \in DOMAIN g : d = g[other] => other = row
          BY <2>7, <5>1
        <5> QED BY <5>1, <5>2, <5>3
      <4>3. CASE \A row \in DOMAIN g : d # g[row]
        BY <2>7, <4>1, <4>3
      <4> QED BY <4>2, <4>3
    <3>2. Placed(c, x) \subseteq Dishes /\ Placed(c, x)' \subseteq Dishes
      BY DEF Placed, DishesIn
    <3>3. Copies(c, x) = Cardinality(Placed(c, x)) /\ Copies(c, x)' = Cardinality(Placed(c, x)')
      BY DEF Copies, Placed
    <3>4. CASE x \in j.known[n]
      <4>1. \A row \in DOMAIN g : ~(row[1] = n /\ row[2] = x)
        BY <2>1, <2>7, <3>4, RowsOf
      <4>2. Placed(c, x)' = Placed(c, x)
        BY <3>1, <3>2, <4>1
      <4>3. Copies(c, x) > 0
        BY <2>6, <3>4, CopiesPlaced
      <4> QED BY <3>3, <4>2, <4>3
    <3>5. CASE x \notin j.known[n]
      <4>1. PICK t : t = j.till[n][x]
        OBVIOUS
      <4>2. /\ t \in Nat /\ \A i \in 1..t : <<n, x, i>> \in DOMAIN g
            /\ \A row \in DOMAIN g : row[1] = n /\ row[2] = x => row[3] \in 1..t /\ row = <<n, x, row[3]>>
        BY <2>1, <2>7, <3>5, <4>1, RowsOf
      <4>3. Placed(c, x) = {} /\ ~(Copies(c, x) > 0)
        BY <2>6, <3>5, CopiesPlaced
      <4> DEFINE h == [i \in 1..t |-> g[<<n, x, i>>]]
      <4>4. \A i \in 1..t : h[i] \in Placed(c, x)'
        BY <2>7, <3>1, <4>2
      <4>5. \A d \in Placed(c, x)' : \E i \in 1..t : h[i] = d
        <5> SUFFICES ASSUME NEW d \in Placed(c, x)' PROVE \E i \in 1..t : h[i] = d
          OBVIOUS
        <5>1. PICK row \in DOMAIN g : d = g[row] /\ row[1] = n /\ row[2] = x
          BY <3>1, <3>2, <4>3
        <5>2. row[3] \in 1..t /\ row = <<n, x, row[3]>>
          BY <4>2, <5>1
        <5>3. h[row[3]] = g[<<n, x, row[3]>>]
          BY <5>2
        <5> QED BY <5>1, <5>2, <5>3
      <4>6. \A i, k \in 1..t : h[i] = h[k] => i = k
        <5> SUFFICES ASSUME NEW i \in 1..t, NEW k \in 1..t, g[<<n, x, i>>] = g[<<n, x, k>>] PROVE i = k
          OBVIOUS
        <5>1. <<n, x, i>> = <<n, x, k>>
          BY <2>7, <4>2
        <5> QED BY <5>1
      <4>7. h \in Bijection(1..t, Placed(c, x)')
        BY <4>4, <4>5, <4>6 DEF Bijection, Injection, Surjection, IsInjective
      <4>8. Cardinality(Placed(c, x)') = t
        BY <4>2, <4>7, FS_CountingElements DEF ExistsBijection
      <4> QED BY <3>3, <4>1, <4>3, <4>8
    <3> QED BY <3>4, <3>5
  <2> QED BY <2>1, <2>6, <2>8
<1>2. QED BY <1>1, Invariance, PTL DEF SyncCompletesTheMenu
===============================================================================
