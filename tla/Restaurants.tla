------------------------------ MODULE Restaurants ------------------------------
(***************************************************************************)
(* The restaurants of one owner and their modules: create, delete,         *)
(* connectModule and toggleModule of restaurants.service.ts.  Each reads   *)
(* the rows it depends on, decides and computes on what it read, and       *)
(* writes in a later statement: other requests run in between, from        *)
(* another tab, a double click, a retry of the client.                     *)
(*                                                                         *)
(* Not kept: titles, opening hours, sortOrder and the other columns no     *)
(* handler reads again; the activation code of a paid module and an        *)
(* unknown module key, whose rejection changes nothing.                    *)
(***************************************************************************)
EXTENDS Naturals, FiniteSets

CONSTANTS Requests,      \* requests in progress, one handler each
          Ids,           \* restaurant ids, never used twice
          Modules,       \* module keys of MODULE_CATALOG
          Base,          \* those a new restaurant starts with
          Multi,         \* the key multi-restaurant
          DefaultLimit, MultiLimit,  \* restaurants per owner: 1, and 3 with Multi
          NoId, NoModule

ASSUME ModuleAssumption == Base \subseteq Modules /\ Multi \in Modules \ Base
ASSUME LimitAssumption == DefaultLimit \in Nat /\ MultiLimit \in Nat
ASSUME NoneAssumption == NoId \notin Ids /\ NoModule \notin Modules

VARIABLES
  life,       \* of each id: "unused", "live" or "deleted"
  purchased,  \* purchasedModules of a restaurant
  active,     \* activeModules of a restaurant
  jobs,       \* what each request has read and is about to write
  overtaken,  \* history: requests that rely on a row another one has written since
  disturbed   \* history: restaurants written by such a request

rows == <<life, purchased, active>>
vars == <<rows, jobs, overtaken, disturbed>>

Own == {id \in Ids : life[id] = "live"}
Buyers == {id \in Own : Multi \in purchased[id]}

\* new is what the request will write to activeModules of the rows it names.
Done == [op |-> "idle", id |-> NoId, key |-> NoModule, bought |-> {},
         new |-> [id \in {} |-> {}], relies |-> {}]

TypeOK ==
  /\ life \in [Ids -> {"unused", "live", "deleted"}]
  /\ purchased \in [Ids -> SUBSET Modules] /\ active \in [Ids -> SUBSET Modules]
  /\ \A r \in Requests :
       /\ jobs[r].op \in {"idle", "create", "checked", "connect", "toggle"}
       /\ jobs[r].id \in Ids \union {NoId} /\ jobs[r].key \in Modules \union {NoModule}
       /\ jobs[r].bought \subseteq Modules /\ jobs[r].relies \subseteq Ids
       /\ DOMAIN jobs[r].new \subseteq Ids
       /\ \A id \in DOMAIN jobs[r].new : jobs[r].new[id] \subseteq Modules
  /\ overtaken \subseteq Requests /\ disturbed \subseteq Ids

Init ==
  /\ life = [id \in Ids |-> "unused"]
  /\ purchased = [id \in Ids |-> {}] /\ active = [id \in Ids |-> {}]
  /\ jobs = [r \in Requests |-> Done]
  /\ overtaken = {} /\ disturbed = {}

-------------------------------------------------------------------------------
Begin(r, job) ==
  /\ jobs[r].op = "idle"
  /\ jobs' = [jobs EXCEPT ![r] = job]
  /\ UNCHANGED <<rows, overtaken, disturbed>>

\* Request r commits, having written these rows: others that rely on one of
\* them go on with what they read.
Commit(r, written) ==
  /\ jobs' = [jobs EXCEPT ![r] = Done]
  /\ overtaken' = (overtaken \ {r}) \union
                    {q \in Requests \ {r} : jobs[q].relies \cap written # {}}
  /\ disturbed' = IF r \in overtaken THEN disturbed \union written ELSE disturbed

\* The row is gone (P2025), the slug is taken, or the database fails.
Reject(r) ==
  /\ jobs[r].op # "idle"
  /\ jobs' = [jobs EXCEPT ![r] = Done]
  /\ overtaken' = overtaken \ {r}
  /\ UNCHANGED <<rows, disturbed>>

-------------------------------------------------------------------------------
(* create and delete.                                                       *)

MaxAllowed == IF \E id \in Own : Multi \in active[id] THEN MultiLimit ELSE DefaultLimit

WithinLimit == Cardinality(Own) < MaxAllowed

\* Faulty: the comparison lets one more through.
BeginCreateAtLimit(r) ==
  /\ Cardinality(Own) <= MaxAllowed
  /\ Begin(r, [Done EXCEPT !.op = "create", !.relies = Ids])

BeginCreate(r) ==
  WithinLimit /\ Begin(r, [Done EXCEPT !.op = "create", !.relies = Ids])

InsertRestaurant(r, id) ==
  /\ jobs[r].op = "create" /\ life[id] = "unused"
  /\ life' = [life EXCEPT ![id] = "live"]
  /\ purchased' = [purchased EXCEPT ![id] = Base]
  /\ active' = [active EXCEPT ![id] = Base]
  /\ Commit(r, {id})

DeleteRestaurant(r, id) ==
  /\ jobs[r].op = "idle" /\ life[id] = "live"
  /\ life' = [life EXCEPT ![id] = "deleted"]
  /\ purchased' = [purchased EXCEPT ![id] = {}]
  /\ active' = [active EXCEPT ![id] = {}]
  /\ Commit(r, {id})

-------------------------------------------------------------------------------
(* connectModule.                                                           *)

\* Faulty: only the restaurant itself is looked at.
BeginConnectMultiHere(r, id) ==
  /\ id \notin Buyers
  /\ Begin(r, [Done EXCEPT !.op = "checked", !.id = id, !.key = Multi, !.relies = Ids])

\* Multi is looked for in all restaurants of the owner first.
BeginConnectMulti(r, id) ==
  /\ Buyers = {}
  /\ Begin(r, [Done EXCEPT !.op = "checked", !.id = id, !.key = Multi, !.relies = Ids])

BeginConnect(r, id, key) ==
  /\ key # Multi
  /\ Begin(r, [Done EXCEPT !.op = "checked", !.id = id, !.key = key])

\* Faulty: the new module replaces those in use.
ReadForConnectAlone(r) ==
  LET id == jobs[r].id  key == jobs[r].key IN
  /\ jobs[r].op = "checked" /\ life[id] = "live"
  /\ jobs' = [jobs EXCEPT ![r].op = "connect", ![r].key = NoModule,
                          ![r].bought = {key},
                          ![r].new = [i \in {id} |-> active[id] \union {key}],
                          ![r].relies = @ \union {id}]
  /\ UNCHANGED <<rows, overtaken, disturbed>>

ReadForConnect(r) ==
  LET id == jobs[r].id  key == jobs[r].key IN
  /\ jobs[r].op = "checked" /\ life[id] = "live"
  /\ jobs' = [jobs EXCEPT ![r].op = "connect", ![r].key = NoModule,
                          ![r].bought = purchased[id] \union {key},
                          ![r].new = [i \in {id} |-> active[id] \union {key}],
                          ![r].relies = @ \union {id}]
  /\ UNCHANGED <<rows, overtaken, disturbed>>

\* Faulty: purchasedModules is left as it was.
WriteActiveOnly(r) ==
  LET id == jobs[r].id IN
  /\ jobs[r].op = "connect" /\ life[id] = "live"
  /\ active' = [active EXCEPT ![id] = jobs[r].new[id]]
  /\ UNCHANGED <<life, purchased>>
  /\ Commit(r, {id})

WriteConnect(r) ==
  LET id == jobs[r].id IN
  /\ jobs[r].op = "connect" /\ life[id] = "live"
  /\ purchased' = [purchased EXCEPT ![id] = jobs[r].bought]
  /\ active' = [active EXCEPT ![id] = jobs[r].new[id]]
  /\ UNCHANGED life
  /\ Commit(r, {id})

-------------------------------------------------------------------------------
(* toggleModule.                                                            *)

\* Faulty: the key is taken from a place where there is none.
ToggledUndefined(modules, key, on) == IF on THEN modules \union {NoModule} ELSE modules \ {key}

Toggled(modules, key, on) == IF on THEN modules \union {key} ELSE modules \ {key}

\* A module that was purchased is switched on or off in one restaurant.
BeginToggle(r, id, key, on) ==
  /\ key # Multi /\ life[id] = "live"
  /\ on => key \in purchased[id]
  /\ Begin(r, [Done EXCEPT !.op = "toggle", !.relies = {id},
                           !.new = [i \in {id} |-> Toggled(active[id], key, on)]])

\* Multi is switched in all restaurants of the owner, from the one that
\* purchased it (find takes the first of them).
BeginToggleMulti(r, id, on) ==
  /\ id \in Buyers
  /\ Begin(r, [Done EXCEPT !.op = "toggle", !.relies = Ids,
                           !.new = [i \in Own |-> Toggled(active[i], Multi, on)]])

\* One transaction writes all the rows, or none when one of them is gone.
WriteToggle(r) ==
  LET new == jobs[r].new IN
  /\ jobs[r].op = "toggle" /\ DOMAIN new \subseteq Own
  /\ active' = [id \in Ids |-> IF id \in DOMAIN new THEN new[id] ELSE active[id]]
  /\ UNCHANGED <<life, purchased>>
  /\ Commit(r, DOMAIN new)

-------------------------------------------------------------------------------
Next == \E r \in Requests :
  \/ BeginCreate(r) \/ ReadForConnect(r) \/ WriteConnect(r) \/ WriteToggle(r) \/ Reject(r)
  \/ \E id \in Ids :
       \/ InsertRestaurant(r, id) \/ DeleteRestaurant(r, id) \/ BeginConnectMulti(r, id)
       \/ \E key \in Modules : BeginConnect(r, id, key)
       \/ \E on \in BOOLEAN : BeginToggleMulti(r, id, on)
                              \/ \E key \in Modules : BeginToggle(r, id, key, on)

Spec == Init /\ [][Next]_vars

-------------------------------------------------------------------------------
(* Properties.                                                              *)

\* A module in use was purchased for the restaurant, and multi-restaurant by
\* some restaurant of the owner (which may be deleted since).  Only a request
\* that wrote over another one's change (a lost update) breaks this.
ActiveIsPurchased ==
  \A id \in Own \ disturbed :
    /\ active[id] \ {Multi} \subseteq purchased[id]
    /\ disturbed = {} /\ Multi \in active[id] =>
         Buyers # {} \/ \E buyer \in Ids : life[buyer] = "deleted"

\* What was purchased stays purchased while the restaurant exists, unless a
\* request writes back modules it read before another purchase.
PurchaseLostOnlyWhenOvertaken ==
  [][\A id \in Own : life'[id] = "live" =>
       \/ purchased[id] \subseteq purchased'[id]
       \/ \E r \in overtaken : jobs[r].op = "connect" /\ jobs[r].id = id /\ jobs'[r] = Done]_vars

\* multi-restaurant is purchased a second time only by a request that was overtaken
\* since it looked for the first purchase (errors.module_already_purchased).
MultiBoughtTwiceOnlyWhenOvertaken ==
  [][Cardinality(Buyers') > Cardinality(Buyers) =>
       Buyers = {} \/ \E r \in overtaken : jobs[r].op = "connect" /\ jobs'[r] = Done]_vars

\* The limit on restaurants is exceeded only by requests that overlap.
LimitExceededOnlyWhenOvertaken ==
  [][\A id \in Ids : (life[id] = "unused" /\ life'[id] = "live" /\ ~WithinLimit)
       => \E r \in overtaken : jobs[r].op = "create" /\ jobs'[r] = Done]_vars

\* restaurants.service.spec.ts:70 and :99, "should throw BadRequestException if
\* limit is reached": a restaurant is never created at the limit.
NoneCreatedAtLimit ==
  [][\A id \in Ids : (life[id] = "unused" /\ life'[id] = "live") => WithinLimit]_vars
===============================================================================
