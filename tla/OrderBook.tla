------------------------------ MODULE OrderBook ------------------------------
(***************************************************************************)
(* What the orders subsystem promises, with every operation one atomic     *)
(* step on the book of orders: no requests in flight, no catalogue, no     *)
(* dining room.  Orders.tla shows that the statement-by-statement handlers *)
(* implement it.                                                           *)
(***************************************************************************)
EXTENDS OrderData

VARIABLE orders

Init == orders = [o \in OrderIds |-> Blank("UNUSED")]

\* A new order: pending, unclaimed, one priced line, and it costs that line.
Place(o) ==
  /\ orders[o].life = "UNUSED"
  /\ \E type \in OrderTypes, table \in Tables \union {NoTable}, line \in Line :
       /\ type = "DINE_IN" => table # NoTable
       /\ orders' = [orders EXCEPT ![o] =
                       [Blank("LIVE") EXCEPT !.type = type, !.table = table,
                                             !.totalAmount = LineAmount(line),
                                             !.items = <<line>>]]

\* One more line, and the total grows by exactly what the line costs.
Extend(o) ==
  /\ orders[o].life = "LIVE"
  /\ \E line \in Line :
       orders' = [orders EXCEPT ![o] =
                    [orders[o] EXCEPT !.items = Append(@, line),
                                      !.totalAmount = @ + LineAmount(line)]]

\* Status and table change freely, the waiter only when work starts.
Amend(o) ==
  /\ orders[o].life = "LIVE"
  /\ \E status \in OrderStatus, table \in Tables \union {NoTable},
        waiter \in Waiters \union {NoWaiter} :
       /\ waiter # orders[o].waiter => /\ waiter # NoWaiter
                                       /\ status = "IN_PROGRESS"
       /\ orders' = [orders EXCEPT ![o] = [@ EXCEPT !.status = status,
                                                    !.table = table,
                                                    !.waiter = waiter]]

\* One order is deleted; its id is never used again.
Remove(o) ==
  /\ orders[o].life = "LIVE"
  /\ orders' = [orders EXCEPT ![o] = Blank("GONE")]

\* A table goes, and with it every order placed at it and no other.
ClearTable(t) ==
  orders' = [o \in OrderIds |-> IF orders[o].table = t THEN Blank("GONE")
                                                       ELSE orders[o]]

\* A waiter leaves: the orders he had stay, unclaimed.
ReleaseWaiter(w) ==
  orders' = [o \in OrderIds |->
               [orders[o] EXCEPT !.waiter = IF @ = w THEN NoWaiter ELSE @]]

Next == \/ \E o \in OrderIds : Place(o) \/ Extend(o) \/ Amend(o) \/ Remove(o)
        \/ \E t \in Tables : ClearTable(t)
        \/ \E w \in Waiters : ReleaseWaiter(w)

Spec == Init /\ [][Next]_orders
==============================================================================
