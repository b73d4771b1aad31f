------------------------------ MODULE OrderData ------------------------------
(***************************************************************************)
(* The rows of an order, as the Prisma schema declares them: the records   *)
(* the abstract book (OrderBook) and the handlers (Orders) both speak of.  *)
(***************************************************************************)
EXTENDS Naturals, Sequences

CONSTANTS OrderIds, Tables, Dishes, Options, Waiters, Prices, Quantities,
          NoTable, NoOption, NoWaiter

ASSUME PriceAssumption == Prices \subseteq Nat /\ Prices # {}
ASSUME QuantityAssumption == Quantities \subseteq Nat \ {0}
ASSUME NoneAssumption == /\ NoTable \notin Tables
                         /\ NoOption \notin Options
                         /\ NoWaiter \notin Waiters

OrderTypes == {"DINE_IN", "TAKEAWAY", "DELIVERY"}
OrderStatus == {"PENDING", "IN_PROGRESS", "READY", "COMPLETED", "CANCELED"}
Closed == {"COMPLETED", "CANCELED"}

\* A unit price is a dish's price, plus that of the option chosen with it as often
\* as it is taken.
UnitPrices == Prices \union {p + q * n : p \in Prices, q \in Prices, n \in Quantities}

\* OrderItem, with the modifier option it was ordered with (at most one here).
Line == [dish : Dishes, option : Options \union {NoOption},
         quantity : Quantities, unitPrice : UnitPrices]

LineAmount(line) == line.unitPrice * line.quantity

\* `life` tells an id not handed out yet from an order that was deleted.
Order == [life : {"UNUSED", "LIVE", "GONE"},
          type : OrderTypes,
          table : Tables \union {NoTable},
          status : OrderStatus,
          waiter : Waiters \union {NoWaiter},
          totalAmount : Nat,
          items : Seq(Line)]

\* Before an id is used and after the row is gone; every column at its default.
Blank(life) == [life |-> life, type |-> "DINE_IN", table |-> NoTable,
                status |-> "PENDING", waiter |-> NoWaiter,
                totalAmount |-> 0, items |-> <<>>]
==============================================================================
