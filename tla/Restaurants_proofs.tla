-------------------------- MODULE Restaurants_proofs --------------------------
(***************************************************************************)
(* Proofs about Restaurants: types, that modules in use were purchased,    *)
(* and that purchases and the limit are safe from all but lost updates.    *)
(***************************************************************************)
EXTENDS Restaurants, FiniteSetTheorems, TLAPS

-------------------------------------------------------------------------------
(* The inductive invariant.                                                 *)

ModuleSets == UNION {[ids -> SUBSET Modules] : ids \in SUBSET Ids}

Job == [op : {"idle", "create", "checked", "connect", "toggle"},
        id : Ids \union {NoId}, key : Modules \union {NoModule}, bought : SUBSET Modules,
        new : ModuleSets, relies : SUBSET Ids]

\* What a request has been asked, whatever happens to the rows.
Fits(j) ==
  /\ j.op \in {"checked", "connect"} => j.id \in Ids
  /\ j.op = "checked" => j.key \in Modules
  /\ j.op = "connect" => DOMAIN j.new = {j.id}

\* multi-restaurant is being purchased: nobody had it when all rows were read.
FirstMulti(j, key) == key = Multi => j.relies = Ids /\ Buyers = {}

\* What a request that was not overtaken has decided on its readings still follows
\* from the rows.
Current(j) ==
  /\ j.op = "create" => j.relies = Ids /\ WithinLimit
  /\ j.op = "checked" => FirstMulti(j, j.key)
  /\ j.op = "connect" =>
       /\ j.id \in j.relies
       /\ \E key \in Modules :
            /\ j.bought = purchased[j.id] \union {key}
            /\ j.new[j.id] = active[j.id] \union {key}
            /\ FirstMulti(j, key)
  /\ j.op = "toggle" =>
       /\ DOMAIN j.new \subseteq j.relies
       /\ \E key \in Modules, on \in BOOLEAN :
            /\ \A id \in DOMAIN j.new : j.new[id] = Toggled(active[id], key, on)
            /\ on /\ key # Multi => \A id \in DOMAIN j.new : key \in purchased[id]
            /\ on /\ key = Multi => j.relies = Ids /\ Buyers # {}

JobsFit ==
  /\ jobs \in [Requests -> Job] /\ \A r \in Requests : Fits(jobs[r])
  /\ \A r \in Requests \ overtaken : Current(jobs[r])

Inv == TypeOK /\ IsFiniteSet(Own) /\ JobsFit /\ ActiveIsPurchased

-------------------------------------------------------------------------------
(* Jobs and rows.                                                           *)

LEMMA ModuleSetsOf ==
  /\ \A ids \in SUBSET Ids : \A f \in [ids -> SUBSET Modules] : f \in ModuleSets
  /\ \A f \in ModuleSets :
       DOMAIN f \in SUBSET Ids /\ \A id \in DOMAIN f : f[id] \in SUBSET Modules
  BY DEF ModuleSets

LEMMA DoneJob == Done \in Job /\ Done.op = "idle" /\ Fits(Done) /\ Current(Done)
<1>1. [id \in {} |-> {}] \in [{} -> SUBSET Modules]
  OBVIOUS
<1>2. [id \in {} |-> {}] \in ModuleSets
  BY <1>1, ModuleSetsOf
<1> QED BY <1>2 DEF Done, Job, Fits, Current

RowTypes ==
  /\ life \in [Ids -> {"unused", "live", "deleted"}]
  /\ purchased \in [Ids -> SUBSET Modules] /\ active \in [Ids -> SUBSET Modules]
  /\ overtaken \subseteq Requests /\ disturbed \subseteq Ids

LEMMA Types ==
  /\ jobs \in [Requests -> Job] => (TypeOK <=> RowTypes)
  /\ jobs' \in [Requests -> Job] => (TypeOK' <=> RowTypes')
<1>1. ASSUME NEW js \in [Requests -> Job], NEW r \in Requests
      PROVE  /\ js[r].op \in {"idle", "create", "checked", "connect", "toggle"}
             /\ js[r].id \in Ids \union {NoId} /\ js[r].key \in Modules \union {NoModule}
             /\ js[r].bought \subseteq Modules /\ js[r].relies \subseteq Ids
             /\ DOMAIN js[r].new \subseteq Ids
             /\ \A id \in DOMAIN js[r].new : js[r].new[id] \subseteq Modules
  <2>1. js[r] \in Job /\ js[r].new \in ModuleSets
    BY DEF Job
  <2> QED BY <2>1, ModuleSetsOf DEF Job
<1>2. jobs \in [Requests -> Job] => (TypeOK <=> RowTypes)
  BY <1>1 DEF TypeOK, RowTypes
<1>3. jobs' \in [Requests -> Job] => (TypeOK' <=> RowTypes')
  BY <1>1 DEF TypeOK, RowTypes
<1> QED BY <1>2, <1>3

LEMMA InitInv == Init => Inv
<1> SUFFICES ASSUME Init PROVE Inv
  OBVIOUS
<1>1. jobs \in [Requests -> Job] /\ \A r \in Requests : jobs[r] = Done
  BY DoneJob DEF Init
<1>2. Own = {}
  BY DEF Init, Own
<1>3. TypeOK
  BY <1>1, Types DEF Init, RowTypes
<1>4. IsFiniteSet(Own)
  BY <1>2, FS_EmptySet
<1>5. JobsFit
  BY <1>1, DoneJob DEF JobsFit
<1>6. ActiveIsPurchased
  BY <1>2 DEF ActiveIsPurchased
<1> QED BY <1>3, <1>4, <1>5, <1>6 DEF Inv

\* A request goes on, or is rejected, and no row changes.
LEMMA JobMoves ==
  ASSUME Inv, NEW r \in Requests, NEW j \in Job, jobs' = [jobs EXCEPT ![r] = j],
         UNCHANGED <<rows, disturbed>>, overtaken' = overtaken \/ overtaken' = overtaken \ {r},
         Fits(j), r \notin overtaken' => Current(j)
  PROVE  Inv'
<1>0. /\ jobs \in [Requests -> Job] /\ JobsFit /\ RowTypes
      /\ UNCHANGED <<life, purchased, active, disturbed>>
  BY Types DEF Inv, JobsFit, rows
<1>1. Own' = Own /\ Buyers' = Buyers
  BY <1>0 DEF Own, Buyers
<1>2. WithinLimit' <=> WithinLimit
  BY <1>0, <1>1 DEF WithinLimit, MaxAllowed
<1>3. jobs' \in [Requests -> Job] /\ jobs'[r] = j /\ \A q \in Requests : q # r => jobs'[q] = jobs[q]
  BY <1>0
<1>4. TypeOK'
  <2>1. RowTypes'
    BY <1>0 DEF RowTypes
  <2> QED BY <1>3, <2>1, Types
<1>5. JobsFit'
  <2>1. \A q \in Requests : Fits(jobs[q])'
    BY <1>0, <1>3 DEF JobsFit, Fits
  <2>2. \A q \in Requests \ overtaken' : Current(jobs[q])'
    BY <1>0, <1>1, <1>2, <1>3 DEF JobsFit, Current, FirstMulti, WithinLimit
  <2> QED BY <1>3, <2>1, <2>2 DEF JobsFit
<1>6. IsFiniteSet(Own)' /\ ActiveIsPurchased'
  BY <1>0, <1>1 DEF Inv, ActiveIsPurchased
<1> QED BY <1>4, <1>5, <1>6 DEF Inv

\* The steps that only read.
LEMMA ReadStep ==
  ASSUME Inv, NEW r \in Requests,
         \/ BeginCreate(r) \/ ReadForConnect(r) \/ Reject(r)
         \/ \E id \in Ids : \/ BeginConnectMulti(r, id)
                            \/ \E key \in Modules : BeginConnect(r, id, key)
                            \/ \E on \in BOOLEAN : \/ BeginToggleMulti(r, id, on)
                                                   \/ \E key \in Modules : BeginToggle(r, id, key, on)
  PROVE  Inv'
<1>0. jobs \in [Requests -> Job] /\ jobs[r] \in Job /\ Fits(jobs[r]) /\ RowTypes
  BY Types DEF Inv, JobsFit
<1>1. CASE BeginCreate(r)
  <2> DEFINE j == [Done EXCEPT !.op = "create", !.relies = Ids]
  <2>1. j \in Job /\ j.op = "create" /\ j.relies = Ids
    BY DoneJob DEF Done, Job
  <2>2. WithinLimit /\ jobs' = [jobs EXCEPT ![r] = j] /\ UNCHANGED <<rows, overtaken, disturbed>>
    BY <1>1 DEF BeginCreate, Begin
  <2> HIDE DEF j
  <2>3. Fits(j) /\ Current(j)
    BY <2>1, <2>2 DEF Fits, Current
  <2> QED BY <2>1, <2>2, <2>3, JobMoves
<1>2. CASE ReadForConnect(r)
  <2> DEFINE id == jobs[r].id
             key == jobs[r].key
             j == [jobs[r] EXCEPT !.op = "connect", !.key = NoModule,
                                  !.bought = purchased[id] \union {key},
                                  !.new = [i \in {id} |-> active[id] \union {key}],
                                  !.relies = @ \union {id}]
  <2>1. /\ jobs[r].op = "checked" /\ id \in Ids /\ key \in Modules
        /\ UNCHANGED <<rows, overtaken, disturbed>>
    BY <1>0, <1>2 DEF ReadForConnect, Fits
  <2>2. [i \in {id} |-> active[id] \union {key}] \in ModuleSets
    <3>1. [i \in {id} |-> active[id] \union {key}] \in [{id} -> SUBSET Modules]
      BY <1>0, <2>1 DEF RowTypes
    <3>2. {id} \in SUBSET Ids
      BY <2>1
    <3> QED BY <3>1, <3>2, ModuleSetsOf
  <2>3. /\ j.op = "connect" /\ j.id = id /\ j.bought = purchased[id] \union {key}
        /\ DOMAIN j.new = {id} /\ j.new[id] = active[id] \union {key}
        /\ j.relies = jobs[r].relies \union {id}
    BY <1>0 DEF Job
  <2>4. j \in Job
    <3>1. purchased[id] \union {key} \in SUBSET Modules /\ jobs[r].relies \union {id} \in SUBSET Ids
      BY <1>0, <2>1 DEF RowTypes, Job
    <3> QED BY <1>0, <2>2, <3>1 DEF Job
  <2>5. jobs' = [jobs EXCEPT ![r] = j]
    BY <1>0, <1>2 DEF ReadForConnect, Job
  <2> HIDE DEF j
  <2>6. Fits(j)
    BY <2>1, <2>3 DEF Fits
  <2>7. r \notin overtaken => Current(j)
    <3> SUFFICES ASSUME r \notin overtaken PROVE Current(j)
      OBVIOUS
    <3>1. FirstMulti(jobs[r], key)
      BY <2>1 DEF Inv, JobsFit, Current
    <3>2. FirstMulti(j, key)
      BY <2>1, <2>3, <3>1 DEF FirstMulti
    <3> QED BY <2>1, <2>3, <3>2 DEF Current
  <2> QED BY <2>1, <2>4, <2>5, <2>6, <2>7, JobMoves
<1>3. CASE Reject(r)
  BY <1>3, DoneJob, JobMoves DEF Reject
<1>4. ASSUME NEW j \in Job, j.op = "checked", j.id \in Ids, j.key \in Modules,
             FirstMulti(j, j.key), Begin(r, j)
      PROVE  Inv'
  <2>1. Fits(j) /\ Current(j)
    BY <1>4 DEF Fits, Current
  <2> QED BY <1>4, <2>1, JobMoves DEF Begin
<1>5. ASSUME NEW id \in Ids, BeginConnectMulti(r, id) PROVE Inv'
  <2> DEFINE j == [Done EXCEPT !.op = "checked", !.id = id, !.key = Multi, !.relies = Ids]
  <2>1. j \in Job /\ j.op = "checked" /\ j.id = id /\ j.key = Multi /\ j.relies = Ids /\ Multi \in Modules
    BY DoneJob, ModuleAssumption DEF Done, Job
  <2>2. Buyers = {} /\ Begin(r, j)
    BY <1>5 DEF BeginConnectMulti
  <2> HIDE DEF j
  <2> QED BY <1>4, <2>1, <2>2 DEF FirstMulti
<1>6. ASSUME NEW id \in Ids, NEW key \in Modules, BeginConnect(r, id, key) PROVE Inv'
  <2> DEFINE j == [Done EXCEPT !.op = "checked", !.id = id, !.key = key]
  <2>1. j \in Job /\ j.op = "checked" /\ j.id = id /\ j.key = key
    BY DoneJob DEF Done, Job
  <2>2. key # Multi /\ Begin(r, j)
    BY <1>6 DEF BeginConnect
  <2> HIDE DEF j
  <2> QED BY <1>4, <2>1, <2>2 DEF FirstMulti
<1>7. ASSUME NEW ids, ids \in SUBSET Ids, NEW key \in Modules, NEW on \in BOOLEAN
      PROVE  [i \in ids |-> Toggled(active[i], key, on)] \in ModuleSets
  <2>1. [i \in ids |-> Toggled(active[i], key, on)] \in [ids -> SUBSET Modules]
    BY <1>0, <1>7 DEF RowTypes, Toggled
  <2> QED BY <1>7, <2>1, ModuleSetsOf
<1>8. ASSUME NEW id \in Ids, NEW on \in BOOLEAN, BeginToggleMulti(r, id, on) PROVE Inv'
  <2> DEFINE new == [i \in Own |-> Toggled(active[i], Multi, on)]
             j == [Done EXCEPT !.op = "toggle", !.relies = Ids, !.new = new]
  <2>1. Own \in SUBSET Ids /\ Multi \in Modules /\ Buyers # {} /\ Begin(r, j)
    BY <1>8, ModuleAssumption DEF Own, BeginToggleMulti
  <2>2. new \in ModuleSets
    BY <1>7, <2>1
  <2>3. j \in Job /\ j.op = "toggle" /\ j.relies = Ids /\ j.new = new
    BY <2>2, DoneJob DEF Done, Job
  <2>4. DOMAIN new = Own /\ \A i \in Own : new[i] = Toggled(active[i], Multi, on)
    OBVIOUS
  <2> HIDE DEF new, j
  <2>5. Fits(j) /\ Current(j)
    BY <2>1, <2>3, <2>4 DEF Fits, Current
  <2> QED BY <2>1, <2>3, <2>5, JobMoves DEF Begin
<1>9. ASSUME NEW id \in Ids, NEW on \in BOOLEAN, NEW key \in Modules, BeginToggle(r, id, key, on)
      PROVE  Inv'
  <2> DEFINE new == [i \in {id} |-> Toggled(active[i], key, on)]
             j == [Done EXCEPT !.op = "toggle", !.relies = {id}, !.new = new]
  <2>1. new = [i \in {id} |-> Toggled(active[id], key, on)]
    OBVIOUS
  <2>2. key # Multi /\ (on => key \in purchased[id]) /\ Begin(r, j)
    BY <1>9, <2>1 DEF BeginToggle
  <2>3. new \in ModuleSets
    <3>1. {id} \in SUBSET Ids
      OBVIOUS
    <3> QED BY <1>7, <3>1
  <2>4. j \in Job /\ j.op = "toggle" /\ j.relies = {id} /\ j.new = new
    BY <2>3, DoneJob DEF Done, Job
  <2>5. DOMAIN new = {id} /\ new[id] = Toggled(active[id], key, on)
    OBVIOUS
  <2> HIDE DEF new, j
  <2>6. Fits(j) /\ Current(j)
    BY <2>2, <2>4, <2>5 DEF Fits, Current
  <2> QED BY <2>2, <2>4, <2>6, JobMoves DEF Begin
<1> QED BY <1>1, <1>2, <1>3, <1>5, <1>6, <1>8, <1>9

-------------------------------------------------------------------------------
(* The steps that write.                                                    *)

\* A request commits what it wrote: one that has read a written row is overtaken,
\* and what the others decided still follows from the rows.
LEMMA OthersCurrent ==
  ASSUME Inv, NEW r \in Requests, NEW written \in SUBSET Ids, Commit(r, written),
         life' \in [Ids -> {"unused", "live", "deleted"}],
         purchased' \in [Ids -> SUBSET Modules], active' \in [Ids -> SUBSET Modules],
         \A id \in Ids \ written :
           life'[id] = life[id] /\ purchased'[id] = purchased[id] /\ active'[id] = active[id]
  PROVE  TypeOK' /\ JobsFit'
<1>0. /\ jobs \in [Requests -> Job] /\ JobsFit /\ RowTypes
      /\ jobs' = [jobs EXCEPT ![r] = Done]
      /\ overtaken' = (overtaken \ {r}) \union
                        {q \in Requests \ {r} : jobs[q].relies \cap written # {}}
      /\ disturbed' = IF r \in overtaken THEN disturbed \union written ELSE disturbed
  BY Types DEF Inv, JobsFit, Commit
<1>1. /\ jobs' \in [Requests -> Job] /\ jobs'[r] = Done
      /\ \A q \in Requests : q # r => jobs'[q] = jobs[q]
  BY <1>0, DoneJob
<1>2. TypeOK'
  <2>1. RowTypes'
    BY <1>0 DEF RowTypes
  <2> QED BY <1>1, <2>1, Types
<1>3. \A q \in Requests : Fits(jobs[q])'
  BY <1>0, <1>1, DoneJob DEF JobsFit, Fits
<1>4. ASSUME NEW q \in Requests \ overtaken' PROVE Current(jobs[q])'
  <2>1. CASE q = r
    BY <1>1, <2>1, DoneJob DEF Current
  <2>2. CASE q # r
    <3>1. PICK j \in Job : j = jobs[q] /\ j = jobs'[q]
      BY <1>0, <1>1, <2>2
    <3>2. Current(j) /\ j.relies \cap written = {} /\ j.relies \subseteq Ids
      BY <1>0, <2>2, <3>1 DEF JobsFit, Job
    <3>3. \A id \in j.relies : purchased'[id] = purchased[id] /\ active'[id] = active[id]
      BY <3>2
    <3>4. j.relies = Ids => Buyers' = Buyers /\ (WithinLimit' <=> WithinLimit)
      <4> SUFFICES ASSUME j.relies = Ids
                   PROVE  Buyers' = Buyers /\ (WithinLimit' <=> WithinLimit)
        OBVIOUS
      <4>1. UNCHANGED <<life, purchased, active>>
        BY <1>0, <3>2 DEF RowTypes
      <4>2. Own' = Own
        BY <4>1 DEF Own
      <4> QED BY <4>1, <4>2 DEF Buyers, WithinLimit, MaxAllowed
    <3>5. CASE j.op = "connect"
      BY <3>1, <3>2, <3>3, <3>4, <3>5 DEF Current, FirstMulti
    <3>6. CASE j.op = "toggle"
      <4>1. PICK key \in Modules, on \in BOOLEAN :
              /\ \A id \in DOMAIN j.new : j.new[id] = Toggled(active[id], key, on)
              /\ on /\ key # Multi => \A id \in DOMAIN j.new : key \in purchased[id]
              /\ on /\ key = Multi => j.relies = Ids /\ Buyers # {}
        BY <3>2, <3>6 DEF Current
      <4>2. DOMAIN j.new \subseteq j.relies
        BY <3>2, <3>6 DEF Current
      <4>3. \A id \in DOMAIN j.new : j.new[id] = Toggled(active'[id], key, on)
        BY <3>3, <4>1, <4>2
      <4> QED BY <3>1, <3>3, <3>4, <3>6, <4>1, <4>2, <4>3 DEF Current
    <3>7. CASE j.op \notin {"connect", "toggle"}
      BY <3>1, <3>2, <3>4, <3>7 DEF Current, FirstMulti
    <3> QED BY <3>5, <3>6, <3>7
  <2> QED BY <2>1, <2>2
<1> QED BY <1>1, <1>2, <1>3, <1>4 DEF JobsFit

LEMMA InsertStep ==
  ASSUME Inv, NEW r \in Requests, NEW id \in Ids, InsertRestaurant(r, id)
  PROVE  Inv'
<1>0. /\ RowTypes /\ life[id] = "unused" /\ life' = [life EXCEPT ![id] = "live"]
      /\ purchased' = [purchased EXCEPT ![id] = Base] /\ active' = [active EXCEPT ![id] = Base]
      /\ Commit(r, {id}) /\ {id} \in SUBSET Ids
  BY Types DEF Inv, JobsFit, InsertRestaurant
<1>1. /\ life' \in [Ids -> {"unused", "live", "deleted"}]
      /\ purchased' \in [Ids -> SUBSET Modules] /\ active' \in [Ids -> SUBSET Modules]
      /\ \A i \in Ids \ {id} :
           life'[i] = life[i] /\ purchased'[i] = purchased[i] /\ active'[i] = active[i]
      /\ life'[id] = "live" /\ purchased'[id] = Base /\ active'[id] = Base
  BY <1>0, ModuleAssumption DEF RowTypes
<1>2. TypeOK' /\ JobsFit'
  BY <1>0, <1>1, OthersCurrent
<1>3. Own' = Own \union {id}
  BY <1>0, <1>1 DEF Own
<1>4. IsFiniteSet(Own')
  BY <1>3, FS_AddElement DEF Inv
<1>5. ActiveIsPurchased'
  <2>1. Multi \notin Base /\ disturbed \subseteq disturbed'
    BY <1>0, ModuleAssumption DEF Commit
  <2>2. Buyers \subseteq Buyers'
    BY <1>0, <1>1, <1>3 DEF Buyers, Own
  <2>3. \A i \in Ids : life[i] = "deleted" => life'[i] = "deleted"
    BY <1>0, <1>1
  <2> QED BY <1>1, <1>3, <2>1, <2>2, <2>3 DEF Inv, ActiveIsPurchased, Own
<1> QED BY <1>2, <1>4, <1>5 DEF Inv

LEMMA DeleteStep ==
  ASSUME Inv, NEW r \in Requests, NEW id \in Ids, DeleteRestaurant(r, id)
  PROVE  Inv'
<1>0. /\ RowTypes /\ life' = [life EXCEPT ![id] = "deleted"]
      /\ purchased' = [purchased EXCEPT ![id] = {}] /\ active' = [active EXCEPT ![id] = {}]
      /\ Commit(r, {id}) /\ {id} \in SUBSET Ids
  BY Types DEF Inv, JobsFit, DeleteRestaurant
<1>1. /\ life' \in [Ids -> {"unused", "live", "deleted"}]
      /\ purchased' \in [Ids -> SUBSET Modules] /\ active' \in [Ids -> SUBSET Modules]
      /\ \A i \in Ids \ {id} :
           life'[i] = life[i] /\ purchased'[i] = purchased[i] /\ active'[i] = active[i]
      /\ life'[id] = "deleted"
  BY <1>0 DEF RowTypes
<1>2. TypeOK' /\ JobsFit'
  BY <1>0, <1>1, OthersCurrent
<1>3. Own' = Own \ {id}
  BY <1>0, <1>1 DEF Own
<1>4. IsFiniteSet(Own')
  BY <1>3, FS_RemoveElement DEF Inv
<1>5. ActiveIsPurchased'
  <2>1. disturbed \subseteq disturbed'
    BY <1>0 DEF Commit
  <2> QED BY <1>1, <1>3, <2>1 DEF Inv, ActiveIsPurchased, Own
<1> QED BY <1>2, <1>4, <1>5 DEF Inv

LEMMA ConnectStep ==
  ASSUME Inv, NEW r \in Requests, WriteConnect(r)
  PROVE  Inv'
<1> DEFINE id == jobs[r].id
<1>0. /\ RowTypes /\ life[id] = "live" /\ id \in Ids
      /\ jobs[r] \in Job /\ jobs[r].op = "connect" /\ DOMAIN jobs[r].new = {id}
      /\ purchased' = [purchased EXCEPT ![id] = jobs[r].bought]
      /\ active' = [active EXCEPT ![id] = jobs[r].new[id]] /\ UNCHANGED life
      /\ Commit(r, {id}) /\ {id} \in SUBSET Ids
  BY Types DEF Inv, JobsFit, Fits, WriteConnect
<1>1. jobs[r].bought \in SUBSET Modules /\ jobs[r].new[id] \in SUBSET Modules
  BY <1>0, ModuleSetsOf DEF Job
<1>2. /\ life' \in [Ids -> {"unused", "live", "deleted"}]
      /\ purchased' \in [Ids -> SUBSET Modules] /\ active' \in [Ids -> SUBSET Modules]
      /\ \A i \in Ids \ {id} :
           life'[i] = life[i] /\ purchased'[i] = purchased[i] /\ active'[i] = active[i]
      /\ purchased'[id] = jobs[r].bought /\ active'[id] = jobs[r].new[id]
  BY <1>0, <1>1 DEF RowTypes
<1>3. TypeOK' /\ JobsFit'
  BY <1>0, <1>2, OthersCurrent
<1>4. Own' = Own /\ id \in Own
  BY <1>0 DEF Own
<1>5. ActiveIsPurchased'
  <2>1. CASE r \in overtaken
    <3>1. disturbed' = disturbed \union {id}
      BY <1>0, <2>1 DEF Commit
    <3> QED BY <1>2, <1>4, <3>1 DEF Inv, ActiveIsPurchased, Own
  <2>2. CASE r \notin overtaken
    <3>1. disturbed' = disturbed
      BY <1>0, <2>2 DEF Commit
    <3>2. PICK key \in Modules : /\ jobs[r].bought = purchased[id] \union {key}
                                 /\ jobs[r].new[id] = active[id] \union {key}
      BY <1>0, <2>2 DEF Inv, JobsFit, Current
    <3>3. Buyers \subseteq Buyers' /\ (key = Multi => id \in Buyers')
      BY <1>2, <1>4, <3>2 DEF Buyers, Own
    <3> QED BY <1>0, <1>2, <1>4, <3>1, <3>2, <3>3 DEF Inv, ActiveIsPurchased, Own
  <2> QED BY <2>1, <2>2
<1> QED BY <1>3, <1>4, <1>5 DEF Inv

LEMMA ToggleStep ==
  ASSUME Inv, NEW r \in Requests, WriteToggle(r)
  PROVE  Inv'
<1> DEFINE new == jobs[r].new
<1>0. /\ RowTypes /\ jobs[r] \in Job /\ jobs[r].op = "toggle" /\ DOMAIN new \subseteq Own
      /\ active' = [i \in Ids |-> IF i \in DOMAIN new THEN new[i] ELSE active[i]]
      /\ UNCHANGED <<life, purchased>> /\ Commit(r, DOMAIN new)
  BY Types DEF Inv, JobsFit, WriteToggle
<1>1. \A i \in DOMAIN new : new[i] \in SUBSET Modules
  BY <1>0, ModuleSetsOf DEF Job
<1>2. /\ life' \in [Ids -> {"unused", "live", "deleted"}]
      /\ purchased' \in [Ids -> SUBSET Modules] /\ active' \in [Ids -> SUBSET Modules]
      /\ \A i \in Ids \ DOMAIN new :
           life'[i] = life[i] /\ purchased'[i] = purchased[i] /\ active'[i] = active[i]
      /\ DOMAIN new \in SUBSET Ids /\ \A i \in DOMAIN new : active'[i] = new[i]
  BY <1>0, <1>1 DEF RowTypes, Own
<1>3. TypeOK' /\ JobsFit'
  BY <1>0, <1>2, OthersCurrent
<1>4. Own' = Own /\ Buyers' = Buyers
  BY <1>0 DEF Own, Buyers
<1>5. ActiveIsPurchased'
  <2>1. CASE r \in overtaken
    <3>1. disturbed' = disturbed \union DOMAIN new
      BY <1>0, <2>1 DEF Commit
    <3> QED BY <1>0, <1>2, <1>4, <3>1 DEF Inv, ActiveIsPurchased, Own
  <2>2. CASE r \notin overtaken
    <3>1. disturbed' = disturbed
      BY <1>0, <2>2 DEF Commit
    <3>2. PICK key \in Modules, on \in BOOLEAN :
            /\ \A i \in DOMAIN new : new[i] = Toggled(active[i], key, on)
            /\ on /\ key # Multi => \A i \in DOMAIN new : key \in purchased[i]
            /\ on /\ key = Multi => Buyers # {}
      BY <1>0, <2>2 DEF Inv, JobsFit, Current
    <3> SUFFICES ASSUME NEW i \in Own, i \notin disturbed
                 PROVE  /\ active'[i] \ {Multi} \subseteq purchased[i]
                        /\ disturbed = {} /\ Multi \in active'[i] =>
                             Buyers # {} \/ \E buyer \in Ids : life[buyer] = "deleted"
      BY <1>0, <1>4, <3>1 DEF ActiveIsPurchased
    <3>3. i \in Ids /\ active[i] \ {Multi} \subseteq purchased[i]
      BY DEF Inv, ActiveIsPurchased, Own
    <3>4. active'[i] = active[i] \/ (active'[i] = Toggled(active[i], key, on) /\ i \in DOMAIN new)
      <4>1. CASE i \in DOMAIN new
        BY <1>2, <3>2, <4>1
      <4>2. CASE i \notin DOMAIN new
        BY <1>2, <3>3, <4>2
      <4> QED BY <4>1, <4>2
    <3>5. active'[i] \ {Multi} \subseteq purchased[i]
      BY <3>2, <3>3, <3>4 DEF Toggled
    <3>6. Multi \in active'[i] => Multi \in active[i] \/ Buyers # {}
      BY <3>2, <3>4 DEF Toggled
    <3> QED BY <3>5, <3>6 DEF Inv, ActiveIsPurchased
  <2> QED BY <2>1, <2>2
<1> QED BY <1>3, <1>4, <1>5 DEF Inv

-------------------------------------------------------------------------------
(* Theorems.                                                                *)

LEMMA Stutter == Inv /\ UNCHANGED vars => Inv'
<1> SUFFICES ASSUME Inv, UNCHANGED vars PROVE Inv'
  OBVIOUS
<1>0. UNCHANGED <<life, purchased, active, jobs, overtaken, disturbed>>
  BY DEF vars, rows
<1>1. Own' = Own /\ Buyers' = Buyers
  BY <1>0 DEF Own, Buyers
<1>2. JobsFit'
  BY <1>0, <1>1 DEF Inv, JobsFit, Fits, Current, FirstMulti, WithinLimit, MaxAllowed
<1>3. TypeOK' /\ ActiveIsPurchased'
  BY <1>0, <1>1 DEF Inv, TypeOK, ActiveIsPurchased
<1> QED BY <1>1, <1>2, <1>3 DEF Inv

LEMMA Invariance == Spec => []Inv
<1>1. Inv /\ [Next]_vars => Inv'
  BY Stutter, ReadStep, InsertStep, DeleteStep, ConnectStep, ToggleStep DEF Next
<1> QED BY InitInv, <1>1, PTL DEF Spec

\* The rows of create, delete, connectModule and toggleModule and what their
\* requests hold keep their types.
THEOREM TypeCorrect == Spec => []TypeOK
  BY Invariance, PTL DEF Inv

\* toggleModule and connectModule put no module into use that was not purchased,
\* in a restaurant that no request has written with arrays it had read before
\* another's change; multi-restaurant, while there was no such write at all.  Lost
\* updates are left out: they can break it.
THEOREM ActivePurchased == Spec => []ActiveIsPurchased
  BY Invariance, PTL DEF Inv

\* The steps that change the rows, for the action properties below.
LEMMA Writes ==
  ASSUME Inv, [Next]_vars, ~UNCHANGED rows
  PROVE  \E r \in Requests : \/ WriteConnect(r) \/ WriteToggle(r)
                             \/ \E id \in Ids : InsertRestaurant(r, id) \/ DeleteRestaurant(r, id)
<1>1. \A r \in Requests : ReadForConnect(r) \/ Reject(r) \/ BeginCreate(r) => UNCHANGED rows
  BY DEF ReadForConnect, Reject, BeginCreate, Begin
<1>2. \A r \in Requests, id \in Ids, key \in Modules, on \in BOOLEAN :
        BeginConnectMulti(r, id) \/ BeginConnect(r, id, key) \/ BeginToggleMulti(r, id, on)
        \/ BeginToggle(r, id, key, on) => UNCHANGED rows
  BY DEF BeginConnectMulti, BeginConnect, BeginToggleMulti, BeginToggle, Begin
<1>3. UNCHANGED vars => UNCHANGED rows
  BY DEF vars
<1> QED BY <1>1, <1>2, <1>3, ModuleAssumption DEF Next

\* connectModule loses a purchase only by writing back modules it read before
\* another purchase: nothing else takes one away while the restaurant exists.
THEOREM PurchasesKept == Spec => PurchaseLostOnlyWhenOvertaken
<1> DEFINE Kept == \A id \in Own : life'[id] = "live" =>
              \/ purchased[id] \subseteq purchased'[id]
              \/ \E r \in overtaken : jobs[r].op = "connect" /\ jobs[r].id = id /\ jobs'[r] = Done
<1>1. Inv /\ [Next]_vars => Kept
  <2> SUFFICES ASSUME Inv, [Next]_vars, NEW id \in Own, life'[id] = "live"
               PROVE  \/ purchased[id] \subseteq purchased'[id]
                      \/ \E r \in overtaken : jobs[r].op = "connect" /\ jobs[r].id = id /\ jobs'[r] = Done
    OBVIOUS
  <2>0. jobs \in [Requests -> Job] /\ RowTypes /\ id \in Ids /\ life[id] = "live"
    BY Types DEF Inv, JobsFit, Own
  <2>1. ASSUME NEW r \in Requests, WriteConnect(r), jobs[r].id = id
        PROVE  \/ purchased[id] \subseteq purchased'[id]
               \/ r \in overtaken /\ jobs[r].op = "connect" /\ jobs'[r] = Done
    <3>1. /\ jobs[r].op = "connect" /\ jobs'[r] = Done
          /\ purchased'[id] = jobs[r].bought
      BY <2>0, <2>1 DEF WriteConnect, Commit, RowTypes
    <3>2. r \notin overtaken => purchased[id] \subseteq jobs[r].bought
      BY <2>1, <3>1 DEF Inv, JobsFit, Current
    <3> QED BY <3>1, <3>2
  <2>2. ASSUME NEW r \in Requests, WriteConnect(r), jobs[r].id # id
        PROVE  purchased'[id] = purchased[id]
    BY <2>0, <2>2 DEF WriteConnect, RowTypes
  <2>3. ASSUME NEW r \in Requests, WriteToggle(r)
        PROVE  purchased'[id] = purchased[id]
    BY <2>3 DEF WriteToggle
  <2>4. ASSUME NEW r \in Requests, NEW i \in Ids, InsertRestaurant(r, i)
        PROVE  purchased'[id] = purchased[id]
    BY <2>0, <2>4 DEF InsertRestaurant, RowTypes
  <2>5. ASSUME NEW r \in Requests, NEW i \in Ids, DeleteRestaurant(r, i)
        PROVE  purchased'[id] = purchased[id]
    BY <2>0, <2>5 DEF DeleteRestaurant, RowTypes
  <2>6. UNCHANGED rows => purchased'[id] = purchased[id]
    BY DEF rows
  <2> QED BY <2>1, <2>2, <2>3, <2>4, <2>5, <2>6, Writes
<1>2. Inv /\ [Next]_vars => [Kept]_vars
  BY <1>1
<1> QED BY Invariance, <1>2, PTL DEF Spec, PurchaseLostOnlyWhenOvertaken

\* connectModule purchases multi-restaurant a second time only in a request that was
\* overtaken since it looked: otherwise it finds the first purchase.
THEOREM MultiBoughtOnce == Spec => MultiBoughtTwiceOnlyWhenOvertaken
<1> DEFINE Late == \E r \in overtaken : jobs[r].op = "connect" /\ jobs'[r] = Done
           Once == Cardinality(Buyers') > Cardinality(Buyers) => Buyers = {} \/ Late
<1>1. Inv /\ [Next]_vars => Once
  <2> SUFFICES ASSUME Inv, [Next]_vars, Buyers # {}, ~Late
               PROVE  ~(Cardinality(Buyers') > Cardinality(Buyers))
    OBVIOUS
  <2>0. RowTypes /\ IsFiniteSet(Own)
    BY Types DEF Inv, JobsFit
  <2>1. Buyers' \subseteq Buyers
    <3>1. ASSUME NEW r \in Requests, WriteConnect(r) PROVE Buyers' \subseteq Buyers
      <4>1. /\ jobs[r].op = "connect" /\ jobs[r].id \in Ids
            /\ purchased' = [purchased EXCEPT ![jobs[r].id] = jobs[r].bought] /\ UNCHANGED life
        BY <3>1 DEF Inv, JobsFit, Fits, WriteConnect
      <4>2. r \notin overtaken
        <5>1. jobs'[r] = Done
          BY <3>1 DEF WriteConnect, Commit, Inv, JobsFit
        <5> QED BY <4>1, <5>1
      <4>3. PICK key \in Modules : jobs[r].bought = purchased[jobs[r].id] \union {key} /\ key # Multi
        BY <4>1, <4>2 DEF Inv, JobsFit, Current, FirstMulti
      <4> QED BY <2>0, <4>1, <4>3 DEF RowTypes, Buyers, Own
    <3>2. ASSUME NEW r \in Requests, WriteToggle(r) PROVE Buyers' \subseteq Buyers
      BY <3>2 DEF WriteToggle, Buyers, Own
    <3>3. ASSUME NEW r \in Requests, NEW id \in Ids, InsertRestaurant(r, id)
          PROVE  Buyers' \subseteq Buyers
      BY <2>0, <3>3, ModuleAssumption DEF InsertRestaurant, RowTypes, Buyers, Own
    <3>4. ASSUME NEW r \in Requests, NEW id \in Ids, DeleteRestaurant(r, id)
          PROVE  Buyers' \subseteq Buyers
      BY <2>0, <3>4 DEF DeleteRestaurant, RowTypes, Buyers, Own
    <3>5. UNCHANGED rows => Buyers' = Buyers
      BY DEF rows, Buyers, Own
    <3> QED BY <3>1, <3>2, <3>3, <3>4, <3>5, Writes
  <2>2. IsFiniteSet(Buyers)
    BY <2>0, FS_Subset DEF Buyers
  <2>3. IsFiniteSet(Buyers') /\ Cardinality(Buyers') <= Cardinality(Buyers)
    BY <2>1, <2>2, FS_Subset
  <2>4. Cardinality(Buyers') \in Nat /\ Cardinality(Buyers) \in Nat
    BY <2>2, <2>3, FS_CardinalityType
  <2> QED BY <2>3, <2>4
<1>2. Inv /\ [Next]_vars => [Once]_vars
  BY <1>1
<1> QED BY Invariance, <1>2, PTL DEF Spec, MultiBoughtTwiceOnlyWhenOvertaken

\* create exceeds the limit on restaurants only when another request changed the
\* restaurants between its count and its insertion.
THEOREM LimitKept == Spec => LimitExceededOnlyWhenOvertaken
<1> DEFINE Kept == \A id \in Ids : (life[id] = "unused" /\ life'[id] = "live" /\ ~WithinLimit)
                     => \E r \in overtaken : jobs[r].op = "create" /\ jobs'[r] = Done
<1>1. Inv /\ [Next]_vars => Kept
  <2> SUFFICES ASSUME Inv, [Next]_vars, NEW id \in Ids, life[id] = "unused", life'[id] = "live",
                      ~WithinLimit
               PROVE  \E r \in overtaken : jobs[r].op = "create" /\ jobs'[r] = Done
    OBVIOUS
  <2>0. RowTypes /\ jobs \in [Requests -> Job] /\ ~UNCHANGED rows
    BY Types DEF Inv, JobsFit, rows
  <2>1. ASSUME NEW r \in Requests, NEW i \in Ids, InsertRestaurant(r, i)
        PROVE  \E q \in overtaken : jobs[q].op = "create" /\ jobs'[q] = Done
    <3>1. jobs[r].op = "create" /\ jobs'[r] = Done
      BY <2>0, <2>1 DEF InsertRestaurant, Commit
    <3>2. r \in overtaken
      BY <3>1 DEF Inv, JobsFit, Current
    <3> QED BY <3>1, <3>2
  <2>2. ASSUME NEW r \in Requests, NEW i \in Ids, DeleteRestaurant(r, i) PROVE FALSE
    BY <2>0, <2>2 DEF DeleteRestaurant, RowTypes
  <2>3. ASSUME NEW r \in Requests, WriteConnect(r) \/ WriteToggle(r) PROVE FALSE
    BY <2>3 DEF WriteConnect, WriteToggle
  <2> QED BY <2>0, <2>1, <2>2, <2>3, Writes
<1>2. Inv /\ [Next]_vars => [Kept]_vars
  BY <1>1
<1> QED BY Invariance, <1>2, PTL DEF Spec, LimitExceededOnlyWhenOvertaken
===============================================================================
