-------------------------------- MODULE MCMenu --------------------------------
(* A small instance of Modifiers over Menu for TLC.                         *)
EXTENDS Modifiers, TLC

CONSTANTS lower, upper, key, dish

\* Two spellings of one name.  The till lists one dish once or twice;
\* requests ask for one dish or for both.
MCKey == [n \in Names |-> key]
MCTills == {lower :> (dish :> 1), lower :> (dish :> 2)}
MCAsked == [Dishes -> 0..1] \ {[d \in Dishes |-> 0]}

\* Updates of a group ask for all of their options to be available, or for none; one
\* that changes the group itself, for all.
MCGroupAsks ==
  {ask \in GroupRequests :
     \/ <<ask.on, ask.newOn>> = <<ask.keep, ask.new>>
     \/ <<ask.on, ask.newOn>> = <<{}, 0>> /\ ~ask.locks}

\* A menu of one category, with one dish and all groups still to come and the
\* other ids of categories, dishes and combos used up.
MenuOfOneDish ==
  /\ \E c \in Categories, d \in Dishes, n \in Names :
       /\ category = [b \in Categories |-> IF b = c THEN n ELSE Gone]
       /\ place = [e \in Dishes |-> IF e = d THEN New ELSE Gone]
  /\ title = [d \in Dishes |-> New]
  /\ combo = [k \in Combos |-> Gone]
  /\ ordered = {} /\ connected = FALSE
  /\ jobs = [r \in Requests |-> Done]
  /\ overtaken = {} /\ doubted = {} /\ imported = {}
  /\ group = [g \in Groups |-> New]
  /\ home = [o \in Options |-> New] /\ available = [o \in Options |-> TRUE]
  /\ links = {} /\ lines = {}

GroupsSpec == MenuOfOneDish /\ [][CatalogueNext]_<<vars, modifiers>>

Symmetry ==
  UNION {Permutations(ids) : ids \in {Requests, Categories, Dishes, Options}}
===============================================================================
