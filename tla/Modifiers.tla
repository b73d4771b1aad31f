------------------------------ MODULE Modifiers ------------------------------
(***************************************************************************)
(* Modifier groups and their options (modifiers.service.ts) over Menu:     *)
(* dishes have groups, and an order takes a dish with an option of one of  *)
(* them.  An update of a group replaces its options in one transaction: it *)
(* looks which options to remove some order has, deletes the others and    *)
(* keeps those, as unavailable.  The transaction has locked the group's    *)
(* row by then if it changes a column of it; what orders do in between,    *)
(* and updates of the options alone, is not locked out.                    *)
(***************************************************************************)
EXTENDS Menu

CONSTANTS Groups, Options,  \* ids of rows, never used twice
          MaxNew,           \* bound: new options in one request
          GroupAsks         \* what updates of a group ask for

\* Of what there is to ask: options by id and how many new ones, which of them
\* available, and whether a column of the group changes.
GroupRequests ==
  {ask \in [keep : SUBSET Options, on : SUBSET Options, new : 0..MaxNew, newOn : 0..MaxNew,
            locks : BOOLEAN] : ask.on \subseteq ask.keep /\ ask.newOn <= ask.new}

ASSUME GroupAssumption ==
  {New, Gone} \cap (Groups \union Options \union {"there"}) = {} /\ MaxNew \in Nat
ASSUME AskAssumption == GroupAsks \subseteq GroupRequests

VARIABLES
  group,      \* a group: New, Gone or "there"
  home,       \* group of an option, or New or Gone
  available,  \* ModifierOption.isAvailable; TRUE where there is no row
  links,      \* DishModifier: dishes and groups they have
  lines       \* dishes and options some order has them with

options == <<home, available>>
modifiers == <<group, options, links, lines>>

GroupsThere == {g \in Groups : Exists(group[g])}
OptionsOf(g) == {o \in Options : home[o] = g}
Used(o) == \E d \in Dishes : <<d, o>> \in lines

CatalogueTypeOK ==
  /\ TypeOK
  /\ group \in [Groups -> {"there", New, Gone}]
  /\ home \in [Options -> Groups \union {New, Gone}]
  /\ available \in [Options -> BOOLEAN]
  /\ \A o \in Options : Exists(home[o]) \/ available[o]
  /\ links \subseteq Dishes \X Groups /\ lines \subseteq Dishes \X Options

CatalogueInit ==
  /\ Init
  /\ group = [g \in Groups |-> New]
  /\ home = [o \in Options |-> New] /\ available = [o \in Options |-> TRUE]
  /\ links = {} /\ lines = {}

-------------------------------------------------------------------------------
(* What the menu and the orders do to groups.                               *)

\* With a dish go its groups, with the orders of a dish their options.
Cascade ==
  /\ links' = {l \in links : Exists(place'[l[1]])}
  /\ lines' = {l \in lines : l[1] \in ordered'}
  /\ UNCHANGED <<group, options>>

\* modifierIds of a dish: all are written, or the request fails.
SetGroups(d, gs) ==
  /\ gs \subseteq GroupsThere
  /\ links' = {l \in links : l[1] # d} \union ({d} \X gs)
  /\ UNCHANGED <<group, options, lines>>

CreateDishWith(d, c, x, gs) == CreateDish(d, c, x) /\ gs # {} /\ SetGroups(d, gs)

UpdateDishWith(d, c, x, gs) ==
  /\ Exists(place[d]) /\ SetGroups(d, gs)
  /\ \/ UpdateDish(d, c, x)
     \/ /\ <<c, x>> = <<place[d], title[d]>> /\ links' # links
        /\ UNCHANGED vars

\* buildOrderItems: the dish has the option's group.  Whether the option is
\* available is not asked.
OrderWithOption(d, o) ==
  /\ Exists(place[d]) /\ <<d, home[o]>> \in links /\ <<d, o>> \notin lines
  /\ ordered' = ordered \union {d} /\ lines' = lines \union {<<d, o>>}
  /\ Write({o})
  /\ UNCHANGED <<names, place, title, combo, group, options, links>>

\* The orders that have the dish, if any, no longer have the option.
DropOption(d, o) ==
  /\ <<d, o>> \in lines /\ lines' = lines \ {<<d, o>>}
  /\ Write({o})
  /\ UNCHANGED <<names, dishes, combo, group, options, links>>

-------------------------------------------------------------------------------
(* Groups.                                                                  *)

CreateGroup(g, new, on) ==
  /\ group[g] = New /\ new \subseteq OptionsOf(New) /\ on \subseteq new /\ Cardinality(new) <= MaxNew
  /\ group' = [group EXCEPT ![g] = "there"]
  /\ home' = [o \in Options |-> IF o \in new THEN g ELSE home[o]]
  /\ available' = [o \in Options |-> available[o] /\ o \notin new \ on]
  /\ UNCHANGED <<vars, links, lines>>

\* A transaction that has updated the row holds it until it ends.  An update of
\* the options alone has no column for the row and does not touch it.
Locked(g) ==
  \E r \in Requests : jobs[r].op = "updateGroup" /\ jobs[r].id = g /\ jobs[r].ask.locks

\* updateGroup, up to the options that are to go: those not asked for by id.
ReadGroup(r, g, ask) ==
  LET removed == OptionsOf(g) \ ask.keep IN
  /\ jobs[r] = Done /\ Exists(group[g]) /\ (ask.locks => ~Locked(g))
  /\ \A o \in ask.keep : Exists(home[o])
  /\ Read(r, [op |-> "updateGroup", id |-> g, ask |-> ask,
              unused |-> {o \in removed : ~Used(o)}, used |-> {o \in removed : Used(o)},
              relies |-> {g} \union removed
                         \union {d \in Dishes : \E o \in removed : <<d, o>> \in lines}])
  /\ UNCHANGED modifiers

\* Faulty: options that some order has are left as they are.
OfferedBefore(job, on) ==
  ({o \in Options : available[o] /\ Exists(home[o])} \ job.ask.keep) \union job.ask.on \union on

\* What is available then (options that are gone count as such).
Offered(job, on) ==
  ({o \in Options : available[o] /\ Exists(home[o])} \ (job.used \union job.ask.keep))
    \union job.ask.on \union on

\* Its writes.  All fail when an order has taken an option to be deleted since, an
\* option asked for by id is gone, or so is the group of a new one; whose group
\* an option asked for by id is of is not asked.
WriteGroup(r, new, on) ==
  LET job == jobs[r] IN
  /\ job.op = "updateGroup"
  /\ new \subseteq OptionsOf(New) /\ Cardinality(new) = job.ask.new
  /\ on \subseteq new /\ Cardinality(on) = job.ask.newOn
  /\ new = {} \/ Exists(group[job.id])
  /\ \A o \in job.unused : ~Used(o)
  /\ \A o \in job.ask.keep : Exists(home[o])
  /\ home' = [o \in Options |-> CASE o \in job.unused -> Gone
                                  [] o \in new -> job.id
                                  [] OTHER -> home[o]]
  /\ available' = [o \in Options |-> Exists(home'[o]) => o \in Offered(job, on)]
  /\ UNCHANGED <<names, dishes, combo, group, links, lines>>
  /\ Commit(r, IF new = {} THEN {} ELSE {job.id})

\* Faulty: nothing keeps the options that orders have.
DeleteGroupUnrestricted(g) ==
  /\ Exists(group[g]) /\ ~Locked(g)
  /\ group' = [group EXCEPT ![g] = Gone]
  /\ home' = [o \in Options |-> IF home[o] = g THEN Gone ELSE home[o]]
  /\ available' = [o \in Options |-> home[o] = g \/ available[o]]
  /\ links' = {l \in links : l[2] # g}
  /\ UNCHANGED <<vars, lines>>

\* deleteGroup: refused, in the end by the database, when an order has an option.
DeleteGroup(g) ==
  /\ Exists(group[g]) /\ ~Locked(g) /\ \A o \in OptionsOf(g) : ~Used(o)
  /\ group' = [group EXCEPT ![g] = Gone]
  /\ home' = [o \in Options |-> IF home[o] = g THEN Gone ELSE home[o]]
  /\ available' = [o \in Options |-> home[o] = g \/ available[o]]
  /\ links' = {l \in links : l[2] # g}
  /\ UNCHANGED <<vars, lines>>

-------------------------------------------------------------------------------
GroupSteps(r) ==
  \/ \E g \in Groups, ask \in GroupAsks : ReadGroup(r, g, ask)
  \/ \E new, on \in SUBSET Options : WriteGroup(r, new, on)

CatalogueNext ==
  \/ Next /\ Cascade
  \/ \E r \in Requests : GroupSteps(r)
  \/ \E g \in Groups :
       DeleteGroup(g) \/ \E new, on \in SUBSET Options : CreateGroup(g, new, on)
  \/ \E d \in Dishes, o \in Options : OrderWithOption(d, o) \/ DropOption(d, o)
  \/ \E d \in Dishes, c \in Categories, x \in DishNames, gs \in SUBSET Groups :
       CreateDishWith(d, c, x, gs) \/ UpdateDishWith(d, c, x, gs)

CatalogueSpec == CatalogueInit /\ [][CatalogueNext]_<<vars, modifiers>>

-------------------------------------------------------------------------------
(* Properties.                                                              *)

\* What rows of the catalogue and of the orders point to exists: of Menu's, and
\* the group of an option, both ends of a link, and the option of an order.
CatalogueReferencesExist ==
  /\ MenuReferencesExist
  /\ \A o \in Options : Exists(home[o]) => Exists(group[home[o]])
  /\ \A l \in links : Exists(place[l[1]]) /\ Exists(group[l[2]])
  /\ \A l \in lines : l[1] \in ordered /\ Exists(home[l[2]])

\* An update leaves a group with the options that were asked for, available as
\* asked, and no others but those that some order has, unavailable.  Others are
\* left only if, since the update read, an order took or let go an option of the
\* group or another update added one.
GroupIsAsAsked ==
  [][\A r \in Requests : (\E new, on \in SUBSET Options : WriteGroup(r, new, on)) =>
       LET ask == jobs[r].ask
           before == OptionsOf(jobs[r].id)
           left == {o \in Options : home'[o] = jobs[r].id}
           kept == before \intersect ask.keep
           added == left \ before
       IN /\ Cardinality(added) = ask.new
          /\ Cardinality({o \in added : available'[o]}) = ask.newOn
          /\ kept \subseteq left /\ \A o \in kept : available'[o] <=> o \in ask.on
          /\ r \notin overtaken =>
               /\ left = kept \union added \union {o \in before : Used(o)}
               /\ \A o \in left : available'[o] => o \in kept \union added]_<<vars, modifiers>>
===============================================================================
