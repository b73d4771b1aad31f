------------------------------- MODULE MCOrders -------------------------------
(* Small instances of Orders for TLC.                                      *)
EXTENDS Orders, TLC

\* Every dish has the group of every option.
MCAllowed == Dishes \X Options

\* All waiters and no option, or all options and one waiter.
MCInit ==
  /\ tables \in [Tables -> {"ACTIVE", "INACTIVE", "UNUSED"}]
  /\ \E price \in Prices, crowded \in BOOLEAN :
       /\ dishes = [d \in Dishes |-> [there |-> TRUE, isAvailable |-> TRUE, price |-> price]]
       /\ options = [m \in Options |-> [there |-> ~crowded, price |-> price]]
       /\ IF crowded THEN staff = Waiters ELSE \E w \in Waiters : staff = {w}
  /\ orders = [o \in OrderIds |-> Blank("UNUSED")]
  /\ requests = [c \in Clients |-> Idle]
  /\ overtaken = {}

MCSpec == MCInit /\ [][Next]_vars

Symmetry == Permutations(Clients) \union Permutations(Tables)
              \union Permutations(Waiters) \union Permutations(OrderIds)
===============================================================================
